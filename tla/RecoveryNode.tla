---------------------------- MODULE RecoveryNode ----------------------------
(***************************************************************************)
(* RecoveryNode, a control node with two children: the second one runs     *)
(* when the first one has failed, and a success of it gives the first one  *)
(* another attempt.  A tick loops over its children until one of them is   *)
(* RUNNING or the node is done; num_attempts is read from a port in every  *)
(* tick.                                                                   *)
(***************************************************************************)
EXTENDS Integers

CONSTANTS
    Attempts,   \* the values of the port num_attempts
    MaxTries    \* bound on the history, above all of them

ASSUME RecoveryAssumption ==
    MaxTries \in Nat /\ Attempts \subseteq Nat /\ \A n \in Attempts \union {1} : n < MaxTries

VARIABLES
    num_attempts_, retry_count_, current_child_idx_,
    nodeStatus,   \* "IDLE", "RUNNING", or what the last tick returned
    inTick,       \* tick() is on
    children,     \* the status of the two children, by index
    tries,        \* history: the times the first child failed in this activation
    cause         \* history: why the last activation failed

recoveryVars == <<num_attempts_, retry_count_, current_child_idx_, nodeStatus, inTick,
                  children, tries, cause>>

RecoveryInit ==
    /\ num_attempts_ = 1 /\ retry_count_ = 0 /\ current_child_idx_ = 0
    /\ nodeStatus = "IDLE" /\ inTick = FALSE
    /\ children = [i \in 0..1 |-> "IDLE"]
    /\ tries = 0 /\ cause = "none"

\* halt(): ControlNode::halt ends both children, then the members are reset.
Reset ==
    /\ children' = [i \in 0..1 |-> "IDLE"]
    /\ retry_count_' = 0 /\ current_child_idx_' = 0

Returns(status) == nodeStatus' = status /\ inTick' = FALSE

\* A tick of a node that was done starts a new activation.
TickRecovery(n) ==
    /\ ~inTick
    /\ num_attempts_' = n
    /\ nodeStatus' = "RUNNING" /\ inTick' = TRUE
    /\ tries' = IF nodeStatus = "RUNNING" THEN tries ELSE 0
    /\ cause' = "none"
    /\ UNCHANGED <<retry_count_, current_child_idx_, children>>

Looping == inTick /\ retry_count_ <= num_attempts_

ChildRuns ==
    /\ Looping
    /\ children' = [children EXCEPT ![current_child_idx_] = "RUNNING"]
    /\ Returns("RUNNING")
    /\ UNCHANGED <<num_attempts_, retry_count_, current_child_idx_, tries, cause>>

FirstSucceeds ==
    /\ Looping /\ current_child_idx_ = 0
    /\ Reset /\ Returns("SUCCESS")
    /\ UNCHANGED <<num_attempts_, tries, cause>>

\* Another attempt is left: the second child is next.
FirstFails ==
    /\ Looping /\ current_child_idx_ = 0
    /\ tries' = IF tries < MaxTries THEN tries + 1 ELSE tries
    /\ IF retry_count_ < num_attempts_
       THEN /\ children' = [children EXCEPT ![0] = "IDLE"]
            /\ current_child_idx_' = 1
            /\ UNCHANGED <<retry_count_, nodeStatus, inTick, cause>>
       ELSE Reset /\ Returns("FAILURE") /\ cause' = "exhausted"
    /\ UNCHANGED num_attempts_

(* Mutant: the retry is not counted. *)
SecondSucceedsUncounted ==
    /\ Looping /\ current_child_idx_ = 1
    /\ children' = [children EXCEPT ![1] = "IDLE"]
    /\ current_child_idx_' = 0
    /\ UNCHANGED <<num_attempts_, retry_count_, nodeStatus, inTick, tries, cause>>

SecondSucceeds ==
    /\ Looping /\ current_child_idx_ = 1
    /\ children' = [children EXCEPT ![1] = "IDLE"]
    /\ retry_count_' = retry_count_ + 1
    /\ current_child_idx_' = 0
    /\ UNCHANGED <<num_attempts_, nodeStatus, inTick, tries, cause>>

SecondFails ==
    /\ Looping /\ current_child_idx_ = 1
    /\ Reset /\ Returns("FAILURE") /\ cause' = "recovery"
    /\ UNCHANGED <<num_attempts_, tries>>

\* The port fell below the retries that were already made.
TooManyRetries ==
    /\ inTick /\ ~Looping
    /\ Reset /\ Returns("FAILURE") /\ cause' = "exhausted"
    /\ UNCHANGED <<num_attempts_, tries>>

\* The parent halts the node between two ticks.
HaltRecovery ==
    /\ ~inTick
    /\ Reset
    /\ nodeStatus' = "IDLE"
    /\ UNCHANGED <<num_attempts_, inTick, tries, cause>>

ChildEnds == FirstSucceeds \/ FirstFails \/ SecondSucceeds \/ SecondFails

RecoveryNext ==
    \/ \E n \in Attempts : TickRecovery(n)
    \/ ChildRuns \/ ChildEnds \/ TooManyRetries \/ HaltRecovery

(* A RUNNING node is ticked again, and a child that is ticked again and      *)
(* again ends at some time.                                                  *)
RecoveryFairness ==
    /\ WF_recoveryVars(nodeStatus = "RUNNING" /\ \E n \in Attempts : TickRecovery(n))
    /\ SF_recoveryVars(ChildEnds)
    /\ WF_recoveryVars(inTick /\ RecoveryNext)

RecoverySpec == RecoveryInit /\ [][RecoveryNext]_recoveryVars /\ RecoveryFairness

-----------------------------------------------------------------------------
(* Properties.                                                               *)

\* An activation that fails because its attempts are exhausted made them all:
\* the first child failed, in this activation, more often than num_attempts
\* allows retries.  Retries of an earlier activation do not count.
FailsAfterAllAttempts ==
    nodeStatus = "FAILURE" /\ cause = "exhausted" => tries > num_attempts_

\* Every activation ends, although the first child may fail again and again.
RecoveryDone == nodeStatus = "RUNNING" ~> nodeStatus # "RUNNING"

\* An activation ends, with FAILURE for want of attempts only after it made them
\* all.
RecoveryIsComplete ==
    []FailsAfterAllAttempts /\ RecoveryDone
=============================================================================

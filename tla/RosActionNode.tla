---------------------------- MODULE RosActionNode ----------------------------
(***************************************************************************)
(* RosActionNode of BehaviorTree.ROS2, the base class of SendNav2Goal: one *)
(* tree node that sends goals to an action server through an action client *)
(* whose callbacks run only while some node spins the client's executor.   *)
(* All nodes with the same action name share client and executor, so a     *)
(* node that is not RUNNING may have its callbacks run by another one.     *)
(*                                                                         *)
(* Feedback is left out: onFeedback of SendNav2Goal always answers RUNNING.*)
(* setGoal of SendNav2Goal cannot fail with the constant ports of the      *)
(* trees.  The action server, and the bookkeeping of rclcpp_action (which  *)
(* forgets a goal once its result was taken, and then throws               *)
(* UnknownGoalHandleError), are external.                                  *)
(***************************************************************************)
EXTENDS Naturals

CONSTANTS
    MaxGoals,    \* bound on the number of goals sent in a behaviour
    MayReject    \* TRUE: the server may reject a goal

ASSUME MaxGoalsAssumption == MaxGoals \in Nat
ASSUME MayRejectAssumption == MayReject \in BOOLEAN

VARIABLES
    prompt,       \* the server always answers within server_timeout_
    shared,       \* other nodes use the same action name
    status,       \* the node's status, a completed node is IDLE again
    cur,          \* the last goal sent; 0 before the first
    received,     \* goal_received_
    handle,       \* goal_handle_; 0 stands for nullptr
    result,       \* result_.code
    err,          \* what ended the tree: "none", or an exception or crash
    ack,          \* per goal: where its goal response is
    code,         \* per goal: how the server ended it
    resultTaken,  \* per goal: the client has taken its result
    cancelReq,    \* per goal: a cancel request is on its way
    outcome       \* ghost, per goal: what the node reported for it

nodeVars == <<status, cur, received, handle, result, err>>
serverVars == <<code, cancelReq>>
deployment == <<prompt, shared>>
vars == <<deployment, nodeVars, serverVars, ack, resultTaken, outcome>>

Goals == 1..MaxGoals
Null == 0

ResultCodes == {"succeeded", "aborted", "canceled"}
Codes == {"unknown"} \union ResultCodes
Acks == {"unsent", "requested", "accepted", "rejected", "known", "refused"}
Errors == {"none", "null_handle", "unknown_goal"}

TypeOK ==
    /\ prompt \in BOOLEAN /\ shared \in BOOLEAN
    /\ status \in {"IDLE", "RUNNING"}
    /\ cur \in 0..MaxGoals
    /\ received \in BOOLEAN
    /\ handle \in 0..MaxGoals
    /\ result \in Codes
    /\ err \in Errors
    /\ ack \in [Goals -> Acks]
    /\ code \in [Goals -> Codes]
    /\ resultTaken \in [Goals -> BOOLEAN]
    /\ cancelReq \in [Goals -> BOOLEAN]
    /\ outcome \in [Goals -> {"none", "failed"} \union ResultCodes]

Init ==
    /\ prompt \in BOOLEAN /\ shared \in BOOLEAN
    /\ status = "IDLE" /\ cur = 0 /\ received = FALSE
    /\ handle = Null /\ result = "unknown" /\ err = "none"
    /\ ack = [g \in Goals |-> "unsent"]
    /\ code = [g \in Goals |-> "unknown"]
    /\ resultTaken = [g \in Goals |-> FALSE]
    /\ cancelReq = [g \in Goals |-> FALSE]
    /\ outcome = [g \in Goals |-> "none"]

-----------------------------------------------------------------------------
(* The action client                                                         *)

\* Goals whose response, or whose result, is waiting to be taken by a spin.
\* The result is requested when the response is taken.
Responses == {g \in Goals : ack[g] \in {"accepted", "rejected"}}
Results == {g \in Goals : ack[g] = "known" /\ code[g] # "unknown" /\ ~resultTaken[g]}

\* The client still knows the goal: accepted, and no result taken.
Known(g) == ack[g] = "known" /\ ~resultTaken[g]

\* Taking a response: the goal becomes known to the client or is refused.
Acked(R) ==
    [g \in Goals |-> IF g \notin R THEN ack[g]
                     ELSE IF ack[g] = "accepted" THEN "known" ELSE "refused"]

\* The result callbacks of the goals Q: only the goal of goal_handle_ is kept.
result_callback(Q) == IF handle \in Q THEN code[handle] ELSE result

\* A spin that takes the responses R and the results Q.  A result callback
\* dereferences goal_handle_.
Taken(R, Q) ==
    /\ ack' = Acked(R)
    /\ resultTaken' = [g \in Goals |-> resultTaken[g] \/ g \in Q]
NullDereference(Q) == Q # {} /\ handle = Null

-----------------------------------------------------------------------------
(* The node                                                                  *)

\* Mutant: result_ is not cleared when a new goal is sent.
TickIdleKeepsResult ==
    /\ err = "none" /\ status = "IDLE" /\ cur < MaxGoals
    /\ status' = "RUNNING"
    /\ cur' = cur + 1
    /\ received' = FALSE
    /\ ack' = [ack EXCEPT ![cur + 1] = "requested"]
    /\ UNCHANGED <<handle, result, err, serverVars, resultTaken, outcome>>

\* tick() in status IDLE: goal_handle_ keeps its old value.  With no server the
\* node fails at once and nothing else changes that a later tick would see.
TickIdle ==
    /\ err = "none" /\ status = "IDLE" /\ cur < MaxGoals
    /\ status' = "RUNNING"
    /\ cur' = cur + 1
    /\ received' = FALSE
    /\ result' = "unknown"
    /\ ack' = [ack EXCEPT ![cur + 1] = "requested"]
    /\ UNCHANGED <<handle, err, serverVars, resultTaken, outcome>>

\* The node returns SUCCESS or FAILURE and reports o for its goal.
Completes(o) ==
    /\ status' = "IDLE"
    /\ outcome' = [outcome EXCEPT ![cur] = o]

StaysRunning == UNCHANGED <<status, outcome>>

\* Mutant: the new handle is not stored (the goal_response_callback, which
\* assigns a local variable of the same name, is trusted to have done it).
AfterSpinShadowed(a, r) ==
    \/ /\ ~received /\ a[cur] \notin {"known", "refused"}
       /\ StaysRunning \/ (~prompt /\ Completes("failed"))
       /\ UNCHANGED <<received, handle>>
    \/ /\ received \/ a[cur] \in {"known", "refused"}
       /\ received' = TRUE
       /\ IF r = "unknown" THEN StaysRunning ELSE Completes(r)
       /\ UNCHANGED handle

\* What tick() does after the spin left the client with the responses a and
\* the node with the result r.
AfterSpin(a, r) ==
    \/ /\ ~received /\ a[cur] \notin {"known", "refused"}
       /\ StaysRunning \/ (~prompt /\ Completes("failed"))
       /\ UNCHANGED <<received, handle>>
    \/ /\ ~received /\ a[cur] = "refused"
       /\ received' = TRUE /\ handle' = Null
       /\ Completes("failed")
    \/ /\ received \/ a[cur] = "known"
       /\ received' = TRUE
       /\ handle' = IF received THEN handle ELSE cur
       /\ IF r = "unknown" THEN StaysRunning ELSE Completes(r)

\* tick() in status RUNNING.
TickRunning ==
    /\ err = "none" /\ status = "RUNNING"
    /\ \E R \in SUBSET Responses, Q \in SUBSET Results :
          /\ Taken(R, Q)
          /\ \/ /\ NullDereference(Q)
                /\ err' = "null_handle"
                /\ UNCHANGED <<status, received, handle, result, outcome>>
             \/ /\ ~NullDereference(Q)
                /\ result' = result_callback(Q)
                /\ AfterSpin(Acked(R), result_callback(Q))
                /\ UNCHANGED err
    /\ UNCHANGED <<cur, serverVars>>

\* Mutant: the response of the goal is not waited for before it is cancelled.
cancelGoalForgets ==
    \/ /\ handle = Null
       /\ status' = "IDLE"
       /\ UNCHANGED <<handle, result, err, ack, resultTaken, serverVars>>
    \/ /\ handle # Null /\ ~Known(handle)
       /\ err' = "unknown_goal"
       /\ UNCHANGED <<status, handle, result, ack, resultTaken, serverVars>>
    \/ /\ handle # Null /\ Known(handle)
       /\ status' = "IDLE"
       /\ code' = [code EXCEPT ![handle] = IF @ = "unknown" THEN "canceled" ELSE @]
       /\ resultTaken' = [resultTaken EXCEPT ![handle] = TRUE]
       /\ result' = code'[handle]
       /\ UNCHANGED <<handle, err, ack, cancelReq>>

\* Cancels goal h, which the client knows: both the cancel response and the
\* result arrive in time (the cancel may lose against the end of the goal), or
\* one of the waits times out and the node gives up.
CancelKnown(h) ==
    \/ /\ \E c \in ResultCodes :
             code' = [code EXCEPT ![h] = IF @ = "unknown" THEN c ELSE @]
       /\ resultTaken' = [resultTaken EXCEPT ![h] = TRUE]
       /\ result' = code'[h]
       /\ UNCHANGED cancelReq
    \/ /\ ~prompt
       /\ cancelReq' = [cancelReq EXCEPT ![h] = TRUE]
       /\ UNCHANGED <<code, resultTaken, result>>

\* cancelGoal().  Without a handle it waits for the response of the goal in
\* the future; that wait may time out, and a refused goal leaves a null handle
\* that is used all the same.  With a handle, even that of an earlier goal, it
\* goes straight to the client, which throws for a goal it has forgotten.
cancelGoal ==
    \/ /\ handle = Null /\ ~prompt /\ ack[cur] \notin {"known", "refused"}
       /\ status' = "IDLE"
       /\ UNCHANGED <<handle, result, err, ack, resultTaken, serverVars>>
    \/ /\ handle = Null /\ ack[cur] \in {"rejected", "refused"}
       /\ ack' = [ack EXCEPT ![cur] = "refused"]
       /\ err' = "null_handle"
       /\ UNCHANGED <<status, handle, result, resultTaken, serverVars>>
    \/ /\ handle = Null /\ (ack[cur] = "accepted" \/ Known(cur))
       /\ ack' = [ack EXCEPT ![cur] = "known"]
       /\ handle' = cur
       /\ status' = "IDLE"
       /\ CancelKnown(cur)
       /\ UNCHANGED err
    \/ /\ handle # Null /\ Known(handle)
       /\ status' = "IDLE"
       /\ CancelKnown(handle)
       /\ UNCHANGED <<handle, err, ack>>
    \/ /\ handle # Null /\ ~Known(handle)
       /\ err' = "unknown_goal"
       /\ UNCHANGED <<status, handle, result, ack, resultTaken, serverVars>>

\* halt(): the parent of a RUNNING node halts it.
halt ==
    /\ err = "none" /\ status = "RUNNING"
    /\ cancelGoal
    /\ UNCHANGED <<cur, received, outcome>>

\* Another node with the same action name spins the shared executor: in its
\* ticks while this one is IDLE, or in its cancelGoal() when this node has just
\* become RUNNING and its parent halts the other one.
ForeignSpin ==
    /\ shared
    /\ err = "none" /\ (status = "IDLE" \/ ~received)
    /\ \E R \in SUBSET Responses, Q \in SUBSET Results :
          /\ R \union Q # {}
          /\ Taken(R, Q)
          /\ \/ NullDereference(Q) /\ err' = "null_handle" /\ UNCHANGED result
             \/ ~NullDereference(Q) /\ result' = result_callback(Q) /\ UNCHANGED err
    /\ UNCHANGED <<status, cur, received, handle, serverVars, outcome>>

-----------------------------------------------------------------------------
(* External: the action server                                               *)

Executing(g) == ack[g] \in {"accepted", "known"} /\ code[g] = "unknown"

ServerAnswers(g) ==
    /\ ack[g] = "requested"
    /\ \/ ack' = [ack EXCEPT ![g] = "accepted"]
       \/ MayReject /\ ack' = [ack EXCEPT ![g] = "rejected"]
    /\ UNCHANGED <<nodeVars, serverVars, resultTaken, outcome>>

\* The goal ends by itself, or because another goal takes its place.
ServerFinishes(g) ==
    /\ Executing(g)
    /\ \E c \in {"succeeded", "aborted"} : code' = [code EXCEPT ![g] = c]
    /\ UNCHANGED <<nodeVars, cancelReq, ack, resultTaken, outcome>>

\* A cancel request that the node no longer waits for arrives.
ServerCancels(g) ==
    /\ cancelReq[g]
    /\ cancelReq' = [cancelReq EXCEPT ![g] = FALSE]
    /\ code' = [code EXCEPT ![g] = IF Executing(g) THEN "canceled" ELSE @]
    /\ UNCHANGED <<nodeVars, ack, resultTaken, outcome>>

\* The server and the other nodes of the process do not change.
Next ==
    /\ UNCHANGED deployment
    /\ \/ TickIdle
       \/ TickRunning
       \/ halt
       \/ ForeignSpin
       \/ \E g \in Goals : ServerAnswers(g)
       \/ \E g \in Goals : ServerFinishes(g)
       \/ \E g \in Goals : ServerCancels(g)

Spec == Init /\ [][Next]_vars

-----------------------------------------------------------------------------
(* Properties                                                                *)

\* With a server that answers within server_timeout_, the result the node
\* reports for a goal is the one the server gave to that very goal, however
\* late the results of earlier goals arrive and whichever node's spin takes
\* them: the purpose of the goal-id comparison in result_callback.
PromptOutcomeIsOfItsGoal ==
    prompt => \A g \in Goals : outcome[g] \in ResultCodes => outcome[g] = code[g]

\* With a server that answers within server_timeout_, a node that is not
\* RUNNING has nothing going on at the server: it reported the end of its
\* goal, or halt() cancelled it, whichever callback ran where.
PromptIdleMeansNoLiveGoal ==
    prompt /\ status = "IDLE" =>
      \A g \in Goals : ack[g] # "requested" /\ ~Executing(g)

\* Once tick() has taken the goal response, a halt uses the handle of the
\* current goal and, with a client of its own, a client that still knows it,
\* however slow the server is: without other nodes the only halt that fails is
\* the one between sending a goal and the tick that takes its response.
HaltReachesAcknowledgedGoal ==
    status = "RUNNING" /\ received => handle = cur /\ (Known(cur) \/ shared)
=============================================================================

------------------------------ MODULE TickGates ------------------------------
(***************************************************************************)
(* The decorators of behaviour trees that limit how often their child is   *)
(* ticked: RateController, whose timer starts anew with every activation   *)
(* and every success, and TickAfterTimeout, which remembers the child's    *)
(* last success for as long as it lives.  Their parents tick them, halt    *)
(* them and reset them when they please; a child ends when it pleases.     *)
(***************************************************************************)
EXTENDS Naturals

CONSTANTS
    Period,      \* 1 / hz
    Timeouts,    \* the values the port timeout takes
    MaxTime      \* bound on the clock

ASSUME GateAssumption ==
    /\ Period \in Nat \ {0} /\ Timeouts \subseteq Nat \ {0} /\ Timeouts # {} /\ MaxTime \in Nat

VARIABLES
    time,     \* the clock of the decorators
    rate,     \* RateController: [status, child, start, first]
    after,    \* TickAfterTimeout: [status, child, last]
    \* auxiliary:
    begun,    \* the time of RateController's activation
    passes,   \* the successes of its child in this activation
    wins      \* the successes of TickAfterTimeout's child

gateVars == <<time, rate, after, begun, passes, wins>>

Outcomes == {"RUNNING", "SUCCESS", "FAILURE"}

GateInit ==
    /\ time = 0
    /\ rate = [status |-> "IDLE", child |-> "IDLE", start |-> 0, first |-> FALSE]
    /\ after = [status |-> "IDLE", child |-> "IDLE", last |-> 0]
    /\ begun = 0 /\ passes = 0 /\ wins = 0

\* A tick of a RateController that is IDLE starts its timer.
Activated(r) ==
    IF r.status = "IDLE" THEN [r EXCEPT !.start = time, !.first = TRUE] ELSE r

(* Mutant: the timer goes on after a success. *)
EndedKeepsTimer(r, outcome) ==
    [r EXCEPT !.first = FALSE, !.child = outcome, !.status = outcome]

\* The child was ticked: only a success restarts the timer.
Ended(r, outcome) ==
    [r EXCEPT !.first = FALSE, !.child = outcome, !.status = outcome,
              !.start = IF outcome = "SUCCESS" THEN time ELSE @]

TickRate(outcome) ==
    LET r == Activated(rate)
        due == r.first \/ r.child = "RUNNING" \/ time - r.start >= Period
        fresh == rate.status = "IDLE"
    IN  /\ rate' = IF due THEN Ended(r, outcome) ELSE [r EXCEPT !.status = "RUNNING"]
        /\ begun' = IF fresh THEN time ELSE begun
        /\ passes' = (IF fresh THEN 0 ELSE passes)
                       + (IF due /\ outcome = "SUCCESS" THEN 1 ELSE 0)
        /\ UNCHANGED <<time, after, wins>>

(* Mutant: a success is only remembered when the child ended at once. *)
TickAfterForgets(timeout, outcome) ==
    LET due == time - after.last >= timeout
    IN  /\ after' = IF ~due THEN after
                    ELSE [status |-> outcome,
                          child |-> IF outcome = "RUNNING" THEN "RUNNING" ELSE "IDLE",
                          last |-> IF outcome = "SUCCESS" /\ after.child = "IDLE"
                                     THEN time ELSE after.last]
        /\ wins' = wins + (IF due /\ outcome = "SUCCESS" THEN 1 ELSE 0)
        /\ UNCHANGED <<time, rate, begun, passes>>

\* Before the timeout the tick is SKIPPED, which leaves the status as it is,
\* and a running child running; afterwards the child is ticked and, once it has
\* ended, reset.
TickAfter(timeout, outcome) ==
    LET due == time - after.last >= timeout
    IN  /\ after' = IF ~due THEN after
                    ELSE [status |-> outcome,
                          child |-> IF outcome = "RUNNING" THEN "RUNNING" ELSE "IDLE",
                          last |-> IF outcome = "SUCCESS" THEN time ELSE after.last]
        /\ wins' = wins + (IF due /\ outcome = "SUCCESS" THEN 1 ELSE 0)
        /\ UNCHANGED <<time, rate, begun, passes>>

\* The parent's halt or reset: a running child is halted, the node is IDLE.
ResetRate ==
    /\ rate' = [rate EXCEPT !.child = IF @ = "RUNNING" THEN "IDLE" ELSE @, !.status = "IDLE"]
    /\ UNCHANGED <<time, after, begun, passes, wins>>
ResetAfter ==
    /\ after' = [after EXCEPT !.child = "IDLE", !.status = "IDLE"]
    /\ UNCHANGED <<time, rate, begun, passes, wins>>

GateTime ==
    /\ time < MaxTime
    /\ time' = time + 1
    /\ UNCHANGED <<rate, after, begun, passes, wins>>

GateNext ==
    \/ \E o \in Outcomes : TickRate(o) \/ \E timeout \in Timeouts : TickAfter(timeout, o)
    \/ ResetRate \/ ResetAfter \/ GateTime

GateSpec == GateInit /\ [][GateNext]_gateVars

-----------------------------------------------------------------------------

\* While RateController stays active, its child succeeds at most once and once
\* more for every period that has passed, however long it runs in between and
\* however often it fails.
PassesAreRated == passes * Period <= Period + (time - begun)

\* Over the whole life of TickAfterTimeout, through every halt and reset, its
\* child succeeds at most once in the shortest timeout that was asked for.
SuccessesAreSpaced ==
    LET shortest == CHOOSE t \in Timeouts : \A u \in Timeouts : t <= u
    IN  wins * shortest <= time
=============================================================================

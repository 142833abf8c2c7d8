----------------------------- MODULE SentryTree -----------------------------
(***************************************************************************)
(* The match behaviour of the sentry: the behaviour tree rmul_nuc_2026     *)
(*                                                                         *)
(*   ReactiveSequence [ game started?, mapping gate, robot OK / retreat,   *)
(*                      base OK / defend, attack ]                         *)
(*                                                                         *)
(* with the stateful nodes its branches hold (SendNav2Goal, the retry      *)
(* decorator, IsStatusTimeOK, StatusConvert), the topic /sentry_status     *)
(* that both PublishStatus and StatusConvert write, and the global         *)
(* blackboard that the server's subscription callbacks write.              *)
(*                                                                         *)
(* The tree is ticked by the execution thread while the callbacks run in   *)
(* the executor's threads, so a tick is a sequence of steps, one per child *)
(* of the ReactiveSequence and one for the dwell-time check, and messages  *)
(* arrive between any two of them.  Time is counted in ticks.  Only the    *)
(* messages on /sentry_status are followed; the zero PublishTwist that     *)
(* goes with status 3 before the match has no reader in this module.       *)
(***************************************************************************)
EXTENDS Integers, Sequences

CONSTANTS
    NoMsg,        \* an unset blackboard entry
    GameMsgs, RobotMsgs, RfidMsgs, EventMsgs,  \* what the referee may send
    Timeout,      \* timeout_sec of IsStatusTimeOK, in ticks
    Hold,         \* hold_ms of StatusConvert, in ticks
    NumAttempts,  \* num_attempts of RetryUntilSuccessful
    QueueDepth    \* depth of the /sentry_status subscription

ASSUME BoundsAssumption ==
    /\ Timeout \in Nat
    /\ Hold \in Nat
    /\ NumAttempts \in Nat \ {0}
    /\ QueueDepth \in Nat \ {0}

VARIABLES
    bbGame, bbRobot, bbRfid, bbEvent,  \* referee messages on the blackboard
    gate,        \* IsMappingBootstrapFinished would return SUCCESS
    bbStatus,    \* "sentry_status" on the blackboard, NoStatus if unset
    queue,       \* /sentry_status messages not yet taken by the subscription
    lastPub,     \* ghost: the last status published on /sentry_status
    treeUp,      \* a goal of the execution server is being executed
    pc,          \* the step of the current tick; "idle" between two ticks
    br,          \* the stateful nodes of each branch
    timer        \* IsStatusTimeOK of the base and of the attack branch

refereeVars == <<bbGame, bbRobot, bbRfid, bbEvent, gate>>
topicVars == <<queue, lastPub>>
vars == <<refereeVars, topicVars, bbStatus, treeUp, pc, br, timer>>

NoStatus == 0
Attack == 1       \* PublishStatus of OffenceAndDefence
Temporary == 2    \* status_convert_temp_status
Defend == 3       \* PublishStatus of the other subtrees
Statuses == {Attack, Temporary, Defend}

Branches == {"robot", "base", "attack"}
Fighting == {"base", "attack"}     \* the branches with a StatusOuttimeConvert
StepNames == {"idle", "game", "gate", "robot", "base", "attack",
              "baseDwell", "attackDwell"}

\* phase: which child of the branch is active; nav: its SendNav2Goal; tries:
\* try_count_ of the retry decorator; orig, left: original_status_ and what is
\* left of the hold time while StatusConvert is RUNNING, which is exactly when
\* temporary_status_published_ is true.
Idle == [phase |-> "idle", nav |-> "idle", tries |-> 0, orig |-> NoStatus,
         left |-> 0]
Navigating(nav, tries) ==
    [phase |-> "nav", nav |-> nav, tries |-> tries, orig |-> NoStatus, left |-> 0]
Dwelling ==
    [phase |-> "dwell", nav |-> "idle", tries |-> 0, orig |-> NoStatus, left |-> 0]
Converting(orig, left) ==
    [phase |-> "convert", nav |-> "idle", tries |-> 0, orig |-> orig, left |-> left]
BranchStates ==
    [phase : {"idle", "nav", "dwell", "convert"},
     nav : {"idle", "running", "succeeded", "failed"},
     tries : 0..NumAttempts - 1, orig : Statuses \union {NoStatus}, left : 0..Hold]

\* timer_started_, last_status_ and now - last_change_tp_ (which only matters
\* up to the timeout).
TimerStates ==
    [started : BOOLEAN, last : Statuses \union {NoStatus}, age : 0..Timeout + 1]
StoppedTimer == [started |-> FALSE, last |-> NoStatus, age |-> 0]

TypeOK ==
    /\ bbGame \in GameMsgs \union {NoMsg}
    /\ bbRobot \in RobotMsgs \union {NoMsg}
    /\ bbRfid \in RfidMsgs \union {NoMsg}
    /\ bbEvent \in EventMsgs \union {NoMsg}
    /\ gate \in BOOLEAN
    /\ bbStatus \in Statuses \union {NoStatus}
    /\ queue \in Seq(Statuses)
    /\ lastPub \in Statuses \union {NoStatus}
    /\ treeUp \in BOOLEAN
    /\ pc \in StepNames
    /\ br \in [Branches -> BranchStates]
    /\ timer \in [Fighting -> TimerStates]

Init ==
    /\ bbGame = NoMsg /\ bbRobot = NoMsg /\ bbRfid = NoMsg /\ bbEvent = NoMsg
    /\ gate \in BOOLEAN
    /\ bbStatus = NoStatus
    /\ queue = <<>>
    /\ lastPub = NoStatus
    /\ treeUp = TRUE
    /\ pc = "idle"
    /\ br = [b \in Branches |-> Idle]
    /\ timer = [b \in Fighting |-> StoppedTimer]

-----------------------------------------------------------------------------
(* The condition nodes, as predicates of the referee message on the        *)
(* blackboard (NoMsg before the first one arrives), with the port values   *)
(* of rmul_nuc_2026.xml.  Every predicate says "returns SUCCESS".          *)

GameStarted == 4            \* expected_game_progress / game_progress == 4
MinRemain == 0
MaxRemain == 420
HpMin == 150
HeatMax == 400
AmmoMin == 50
BaseHpMin == 5000
OccupiedEnemy == 2          \* EventData.OCCUPIED_ENEMY, also fortress_status
OccupiedBoth == 3           \* EventData.OCCUPIED_BOTH

\* IsGameStatus
checkGameStart(msg) ==
    /\ msg # NoMsg
    /\ msg.game_progress = GameStarted
    /\ msg.stage_remain_time >= MinRemain
    /\ msg.stage_remain_time <= MaxRemain

\* IsStatusOK
checkRobotStatus(msg) ==
    /\ msg # NoMsg
    /\ msg.current_hp >= HpMin
    /\ msg.heat <= HeatMax
    /\ msg.ammo >= AmmoMin

\* IsRfidDetected with the two supply-zone ports set
checkRfidStatus(msg) ==
    /\ msg # NoMsg
    /\ msg.supply_non_exchange \/ msg.supply_exchange

\* IsBaseStatusOK
checkBaseStatus(msg) ==
    /\ msg # NoMsg
    /\ msg.base_hp >= BaseHpMin
    /\ msg.fortress \notin {OccupiedEnemy, OccupiedBoth}

-----------------------------------------------------------------------------
(* Helpers                                                                   *)

Lesser(a, b) == IF a < b THEN a ELSE b
LastOf(s) == s[Len(s)]

\* The newest QueueDepth messages: KeepLast history of the subscription.
KeepLast(s) ==
    IF Len(s) <= QueueDepth THEN s
    ELSE SubSeq(s, Len(s) - QueueDepth + 1, Len(s))

\* Publishes the statuses of the sequence pubs, in order.
Publish(pubs) ==
    /\ queue' = KeepLast(queue \o pubs)
    /\ lastPub' = IF pubs = <<>> THEN lastPub ELSE LastOf(pubs)

\* Mutant: StatusConvert::onHalted does not restore the original status.
onHaltedForgets(b) == <<>>

\* StatusConvert::onHalted of branch b: what it publishes.
onHalted(b) == IF br[b].phase = "convert" THEN <<br[b].orig>> ELSE <<>>

\* What the branches other than b publish when they are halted, in the order
\* of the ReactiveSequence's children.  Only two branches hold a StatusConvert.
HaltOthers(b) ==
    (IF b = "base" THEN <<>> ELSE onHalted("base")) \o
    (IF b = "attack" THEN <<>> ELSE onHalted("attack"))

\* Mutant: a RUNNING child leaves the other children alone.
RunningNoHalt(b, s, pubs) ==
    /\ Publish(pubs)
    /\ br' = [br EXCEPT ![b] = s]
    /\ pc' = "idle"

\* Child b of the ReactiveSequence returns RUNNING in state s after publishing
\* pubs: every other child is halted, which cancels its navigation goal and
\* restores its status, and the tick ends.
Running(b, s, pubs) ==
    /\ Publish(pubs \o HaltOthers(b))
    /\ br' = [x \in Branches |-> IF x = b THEN s ELSE Idle]
    /\ pc' = "idle"

\* Child b returns FAILURE, or is the last child and returns SUCCESS, after
\* publishing pubs: all children are reset, ForceSuccess and
\* KeepRunningUntilFailure let the next tick start from the beginning.
Finished(b, pubs) ==
    /\ Publish(pubs \o HaltOthers(b))
    /\ br' = [x \in Branches |-> Idle]
    /\ pc' = "idle"

\* Child b returns SUCCESS and publishes nothing: the next child is ticked.
Passed(step) ==
    /\ pc' = step
    /\ UNCHANGED <<br, topicVars>>

\* One more attempt of the retry decorator after n failed ones: the goal is
\* sent, or the action server cannot be reached and the attempt fails at once.
Attempt(n) ==
    {[result |-> "RUNNING", nav |-> "running", tries |-> n]} \union
    {IF n + 1 >= NumAttempts
     THEN [result |-> "FAILURE", nav |-> "idle", tries |-> 0]
     ELSE [result |-> "RUNNING", nav |-> "idle", tries |-> n + 1]}

\* RetryUntilSuccessful(SendNav2Goal) ticked in branch state s.
RetryUntilSuccessful(s) ==
    CASE s.nav = "running" -> {[result |-> "RUNNING", nav |-> "running", tries |-> s.tries]}
      [] s.nav = "succeeded" -> {[result |-> "SUCCESS", nav |-> "idle", tries |-> 0]}
      [] s.nav = "failed" ->
            IF s.tries + 1 >= NumAttempts
            THEN {[result |-> "FAILURE", nav |-> "idle", tries |-> 0]}
            ELSE Attempt(s.tries + 1)
      [] s.nav = "idle" -> Attempt(s.tries)

\* The Sequence of branch b at its navigation child, pubs already published in
\* this tick, onSuccess what the next child publishes when the goal is reached.
Navigate(b, pubs, onSuccess) ==
    \E o \in RetryUntilSuccessful(br[b]) :
        \/ o.result = "RUNNING" /\ Running(b, Navigating(o.nav, o.tries), pubs)
        \/ o.result = "FAILURE" /\ Finished(b, pubs)
        \/ /\ o.result = "SUCCESS"
           /\ Publish(pubs \o onSuccess)
           /\ br' = [br EXCEPT ![b] = Dwelling]
           /\ pc' = IF b = "base" THEN "baseDwell" ELSE "attackDwell"

\* Mutant: the restore deadline is compared the wrong way round.
onRunningReversed(b) ==
    \/ br[b].left = 0 /\ Running(b, br[b], <<>>)
    \/ br[b].left > 0 /\ Finished(b, <<br[b].orig>>)

\* StatusConvert::onRunning of branch b.
onRunning(b) ==
    \/ br[b].left > 0 /\ Running(b, br[b], <<>>)
    \/ br[b].left = 0 /\ Finished(b, <<br[b].orig>>)

-----------------------------------------------------------------------------
(* The tick                                                                  *)

\* The next tick of the execution loop begins: one tick period has passed.
StartTick ==
    /\ treeUp /\ pc = "idle"
    /\ pc' = "game"
    /\ timer' = [b \in Fighting |->
                   IF timer[b].started
                   THEN [timer[b] EXCEPT !.age = Lesser(@ + 1, Timeout + 1)]
                   ELSE timer[b]]
    /\ br' = [b \in Branches |->
                IF br[b].left > 0 THEN [br[b] EXCEPT !.left = @ - 1] ELSE br[b]]
    /\ UNCHANGED <<refereeVars, topicVars, bbStatus, treeUp>>

\* Mutant: no status is published while the match has not started.
check_game_startSilent ==
    /\ pc = "game"
    /\ \/ checkGameStart(bbGame) /\ Passed("gate")
       \/ ~checkGameStart(bbGame) /\ Finished("game", <<>>)
    /\ UNCHANGED <<refereeVars, bbStatus, treeUp, timer>>

check_game_start ==
    /\ pc = "game"
    /\ \/ checkGameStart(bbGame) /\ Passed("gate")
       \/ ~checkGameStart(bbGame) /\ Finished("game", <<Defend>>)
    /\ UNCHANGED <<refereeVars, bbStatus, treeUp, timer>>

check_mapping_bootstrap ==
    /\ pc = "gate"
    /\ \/ gate /\ Passed("robot")
       \/ ~gate /\ Finished("gate", <<>>)
    /\ UNCHANGED <<refereeVars, bbStatus, treeUp, timer>>

\* The outer Fallback remembers that it is in its second child while the
\* retreat to the supply zone is RUNNING: IsStatusOK is not asked again until
\* the goal ends.  Both ForceFailures turn any end of the goal into FAILURE.
check_robot_status ==
    /\ pc = "robot"
    /\ \/ /\ br["robot"].phase = "idle"
          /\ \/ checkRobotStatus(bbRobot) /\ Passed("base")
             \/ /\ ~checkRobotStatus(bbRobot)
                /\ checkRfidStatus(bbRfid)
                /\ Finished("robot", <<>>)
             \/ /\ ~checkRobotStatus(bbRobot)
                /\ ~checkRfidStatus(bbRfid)
                /\ \/ Running("robot", Navigating("running", 0), <<Defend>>)
                   \/ Finished("robot", <<Defend>>)
       \/ /\ br["robot"].phase = "nav"
          /\ \/ br["robot"].nav = "running" /\ Running("robot", br["robot"], <<>>)
             \/ br["robot"].nav # "running" /\ Finished("robot", <<>>)
    /\ UNCHANGED <<refereeVars, bbStatus, treeUp, timer>>

\* Same memory for the base: a started defence is finished even if the base
\* recovers, and a base that falls is seen only from the idle state.
IsBaseOK ==
    /\ pc = "base"
    /\ \/ /\ br["base"].phase = "idle"
          /\ \/ checkBaseStatus(bbEvent) /\ Passed("attack")
             \/ ~checkBaseStatus(bbEvent) /\ Navigate("base", <<Defend>>, <<>>)
       \/ br["base"].phase = "nav" /\ Navigate("base", <<>>, <<>>)
       \/ br["base"].phase = "convert" /\ onRunning("base")
    /\ UNCHANGED <<refereeVars, bbStatus, treeUp, timer>>

OffenceAndDefence ==
    /\ pc = "attack"
    /\ \/ br["attack"].phase \in {"idle", "nav"} /\ Navigate("attack", <<>>, <<Attack>>)
       \/ br["attack"].phase = "convert" /\ onRunning("attack")
    /\ UNCHANGED <<refereeVars, bbStatus, treeUp, timer>>

\* IsStatusTimeOK of branch b returns SUCCESS with timer t: the Sequence is
\* done (and ForceFailure or the end of the ReactiveSequence resets the tree).
TimeOK(b, t) ==
    /\ timer' = [timer EXCEPT ![b] = t]
    /\ Finished(b, <<>>)
    /\ UNCHANGED treeUp

\* StatusConvert::onStart with original_status = the status just evaluated.
onStart(b) ==
    /\ \/ /\ bbStatus = Temporary
          /\ Finished(b, <<>>)
       \/ /\ bbStatus # Temporary
          /\ Running(b, Converting(bbStatus, Hold), <<Temporary>>)
    /\ UNCHANGED <<timer, treeUp>>

\* IsStatusTimeOK found no status message: it fails without writing its output
\* port, StatusConvert::onStart throws, the execution server aborts the goal.
MissingStatus(b) ==
    /\ treeUp' = FALSE
    /\ br' = [br EXCEPT ![b] = Idle]
    /\ pc' = "idle"
    /\ UNCHANGED <<topicVars, timer>>

\* IsStatusTimeOK and, when it fails, StatusConvert::onStart (the two children
\* of the Fallback of StatusOuttimeConvert) of branch b.
checkStatusTime(b) ==
    LET t == timer[b]
        inMatch == bbGame # NoMsg /\ bbGame.game_progress = GameStarted
        same == t.started /\ t.last = bbStatus
    IN  \/ bbStatus = NoStatus /\ MissingStatus(b)
        \/ bbStatus # NoStatus /\ ~inMatch /\ TimeOK(b, StoppedTimer)
        \/ /\ bbStatus # NoStatus /\ inMatch /\ ~same
           /\ TimeOK(b, [started |-> TRUE, last |-> bbStatus, age |-> 0])
        \/ bbStatus # NoStatus /\ inMatch /\ same /\ t.age <= Timeout /\ TimeOK(b, t)
        \/ bbStatus # NoStatus /\ inMatch /\ same /\ t.age > Timeout /\ onStart(b)

StatusOuttimeConvert(b) ==
    /\ pc = IF b = "base" THEN "baseDwell" ELSE "attackDwell"
    /\ checkStatusTime(b)
    /\ UNCHANGED <<refereeVars, bbStatus>>

\* The client sends the goal again after an abort: a new tree is created, with
\* fresh nodes, on the same global blackboard.
ExecuteAgain ==
    /\ ~treeUp
    /\ treeUp' = TRUE
    /\ br' = [b \in Branches |-> Idle]
    /\ timer' = [b \in Fighting |-> StoppedTimer]
    /\ UNCHANGED <<refereeVars, topicVars, bbStatus, pc>>

-----------------------------------------------------------------------------
(* What happens around the tree                                              *)

\* A referee message, or the mapping flag, reaches the blackboard.
RefereeMsg ==
    /\ \/ bbGame' \in GameMsgs /\ UNCHANGED <<bbRobot, bbRfid, bbEvent, gate>>
       \/ bbRobot' \in RobotMsgs /\ UNCHANGED <<bbGame, bbRfid, bbEvent, gate>>
       \/ bbRfid' \in RfidMsgs /\ UNCHANGED <<bbGame, bbRobot, bbEvent, gate>>
       \/ bbEvent' \in EventMsgs /\ UNCHANGED <<bbGame, bbRobot, bbRfid, gate>>
       \/ gate' = TRUE /\ UNCHANGED <<bbGame, bbRobot, bbRfid, bbEvent>>
    /\ UNCHANGED <<topicVars, bbStatus, treeUp, pc, br, timer>>

\* The server's own subscription to /sentry_status.
StatusMsg ==
    /\ queue # <<>>
    /\ bbStatus' = Head(queue)
    /\ queue' = Tail(queue)
    /\ UNCHANGED <<refereeVars, lastPub, treeUp, pc, br, timer>>

\* External: Nav2 ends the goal of branch b.
NavResult(b) ==
    /\ br[b].nav = "running"
    /\ \E r \in {"succeeded", "failed"} : br' = [br EXCEPT ![b].nav = r]
    /\ UNCHANGED <<refereeVars, topicVars, bbStatus, treeUp, pc, timer>>

-----------------------------------------------------------------------------
Tick ==
    \/ StartTick
    \/ check_game_start
    \/ check_mapping_bootstrap
    \/ check_robot_status
    \/ IsBaseOK
    \/ OffenceAndDefence
    \/ \E b \in Fighting : StatusOuttimeConvert(b)

Next ==
    \/ Tick
    \/ ExecuteAgain
    \/ RefereeMsg
    \/ StatusMsg
    \/ \E b \in Branches : NavResult(b)

Spec == Init /\ [][Next]_vars

(* The execution loop keeps ticking, the client sends an aborted goal again, *)
(* and a published status reaches the subscription.  Nothing is assumed of   *)
(* the referee or of Nav2.                                                   *)
Fairness == WF_vars(Tick) /\ WF_vars(ExecuteAgain) /\ WF_vars(StatusMsg)

FairSpec == Spec /\ Fairness

-----------------------------------------------------------------------------
(* Properties                                                                *)

\* At most one of the retreat, defence and attack branches is active, so at
\* most one navigation goal of the tree is being pursued and at most one
\* StatusConvert is holding the status: the ReactiveSequence halts the others
\* whenever a child returns RUNNING, whatever message arrives inside a tick.
OneBranchActive ==
    \A a, b \in Branches :
        br[a].phase # "idle" /\ br[b].phase # "idle" => a = b

\* The temporary status is never left on /sentry_status: whenever it is the
\* last status published, a StatusConvert node is RUNNING that will restore the
\* original one, on its deadline or when a retreat, a base alarm, the end of
\* the match or a reset of the tree halts it.
TemporaryStatusOwned ==
    lastPub = Temporary => \E b \in Fighting : br[b].phase = "convert"

\* A conversion does not last: the temporary status is replaced.
TemporaryStatusEnds ==
    (lastPub = Temporary) ~> (lastPub # Temporary)

\* The exception of a StatusConvert that finds no original status (the first
\* dwell check of a server started during the match races the first status
\* message) cannot abort the tree over and over.
AbortsStop == <>[]treeUp

\* Outside the match the sentry ends up in status 3 and stays there, although
\* halting an interrupted conversion restores status 1 after check_game_start
\* has already published 3.
DefendOutsideMatch ==
    <>[](~checkGameStart(bbGame)) => <>[](lastPub = Defend)

\* The tree comes to rest: aborts stop, and outside the match the sentry settles
\* in status 3.
TreeSettles ==
    AbortsStop /\ DefendOutsideMatch
=============================================================================

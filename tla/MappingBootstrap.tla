-------------------------- MODULE MappingBootstrap --------------------------
(***************************************************************************)
(* The mapping bootstrap: mapping_mission_manager drives the robot through *)
(* a fixed list of guide goals while the map is built, saves the point     *)
(* cloud and then the grid map when the deadline timer fires, and only     *)
(* then publishes /mapping_bootstrap_finished = true, the gate that the    *)
(* behaviour tree checks before its normal match behaviour.                *)
(*                                                                         *)
(* The manager is one process with a single-threaded executor: each        *)
(* callback is one action.  The behaviour server is another process; the   *)
(* two start in either order.  The Nav2 action server and the two map      *)
(* services are external and answer, late or not as the model allows.      *)
(***************************************************************************)
EXTENDS Naturals, Sequences

CONSTANTS
    NumGoals,      \* number of guide goals (goals_.size(), 3 in the code)
    SaveMayFail    \* TRUE: the map services may be missing or report failure

ASSUME NumGoalsAssumption == NumGoals \in Nat
ASSUME SaveMayFailAssumption == SaveMayFail \in BOOLEAN

VARIABLES
    mgrEnabled,     \* parameter "enabled" of the manager
    srvEnabled,     \* parameter "mapping_bootstrap_enabled" of the server
    mgrUp,          \* the manager's constructor has run
    srvUp,          \* the behaviour server's constructor has run
    started,        \* bootstrap_started_
    finished,       \* bootstrap_finished_
    goalIndex,      \* goal_index_
    deadlineTimer,  \* bootstrap_deadline_timer_ is set
    retryTimer,     \* retry_goal_timer_ is set
    goal,           \* what became of each guide goal at the Nav2 server
    cancelAll,      \* an async_cancel_all_goals request is on its way
    pcd,            \* the /map_save call
    grid,           \* the /save_map call
    inbox,          \* /mapping_bootstrap_finished messages on their way
    bbFinished      \* "mapping_bootstrap_finished" on the global blackboard

mgrVars == <<mgrEnabled, mgrUp, started, finished, goalIndex, deadlineTimer,
             retryTimer>>
navVars == <<goal, cancelAll>>
saveVars == <<pcd, grid>>
srvVars == <<srvEnabled, srvUp, bbFinished>>
vars == <<mgrVars, navVars, saveVars, srvVars, inbox>>

Goals == 1..NumGoals

\* A goal whose result the manager can still be told of.
Outstanding == {"requested", "active", "succeeded", "aborted", "canceled"}
ResultCodes == {"succeeded", "aborted", "canceled"}
GoalStates == {"unsent", "rejected", "closed"} \union Outstanding
CallStates == {"idle", "requested", "saved", "failed"}

TypeOK ==
    /\ mgrEnabled \in BOOLEAN /\ srvEnabled \in BOOLEAN
    /\ mgrUp \in BOOLEAN /\ srvUp \in BOOLEAN
    /\ started \in BOOLEAN /\ finished \in BOOLEAN
    /\ goalIndex \in 0..NumGoals
    /\ deadlineTimer \in BOOLEAN /\ retryTimer \in BOOLEAN
    /\ goal \in [Goals -> GoalStates]
    /\ cancelAll \in BOOLEAN
    /\ pcd \in CallStates /\ grid \in CallStates
    /\ inbox \in Seq(BOOLEAN)
    /\ bbFinished \in BOOLEAN

Init ==
    /\ mgrEnabled \in BOOLEAN /\ srvEnabled \in BOOLEAN
    /\ mgrUp = FALSE /\ srvUp = FALSE
    /\ started = FALSE /\ finished = FALSE
    /\ goalIndex = 0
    /\ deadlineTimer = FALSE /\ retryTimer = FALSE
    /\ goal = [g \in Goals |-> "unsent"]
    /\ cancelAll = FALSE
    /\ pcd = "idle" /\ grid = "idle"
    /\ inbox = <<>>
    /\ bbFinished = FALSE

-----------------------------------------------------------------------------
(* The publisher is transient_local but the behaviour server subscribes with *)
(* the default volatile QoS: only a subscription that already exists gets    *)
(* the message.                                                              *)
publishBootstrapFinished(values) ==
    inbox' = IF srvUp THEN inbox \o values ELSE inbox

\* Mutant: the two publications of the constructor are swapped.
MappingMissionManagerSwapped ==
    /\ ~mgrUp
    /\ mgrUp' = TRUE
    /\ publishBootstrapFinished(IF mgrEnabled THEN <<FALSE>> ELSE <<TRUE, FALSE>>)
    /\ UNCHANGED <<mgrEnabled, started, finished, goalIndex, deadlineTimer,
                   retryTimer, navVars, saveVars, srvVars>>

\* The manager's constructor: it publishes false, and true right away when
\* the bootstrap is disabled (then it creates no subscription at all).
MappingMissionManager ==
    /\ ~mgrUp
    /\ mgrUp' = TRUE
    /\ publishBootstrapFinished(IF mgrEnabled THEN <<FALSE>> ELSE <<FALSE, TRUE>>)
    /\ UNCHANGED <<mgrEnabled, started, finished, goalIndex, deadlineTimer,
                   retryTimer, navVars, saveVars, srvVars>>

\* Sends the goal with index i, or arms the retry timer when the action server
\* does not answer within 2 s, or does nothing once every goal has been sent.
\* gs and rt are the goals and the retry timer at the call.
sendNextGoal(i, gs, rt) ==
    \/ retryTimer' = TRUE /\ goal' = gs
    \/ i >= NumGoals /\ retryTimer' = rt /\ goal' = gs
    \/ /\ i < NumGoals
       /\ goal' = [gs EXCEPT ![i + 1] = "requested"]
       /\ retryTimer' = rt

\* Mutant: the early return on bootstrap_started_ is missing.
onGameStatusRestarts ==
    /\ mgrUp /\ mgrEnabled
    /\ started' = TRUE
    /\ deadlineTimer' = TRUE
    /\ sendNextGoal(goalIndex, goal, retryTimer)
    /\ UNCHANGED <<mgrEnabled, mgrUp, finished, goalIndex, cancelAll, saveVars,
                   srvVars, inbox>>

\* A referee message with game_progress = game_start_progress_; any other
\* message, and any message after the first such one, changes nothing.
onGameStatus ==
    /\ mgrUp /\ mgrEnabled /\ ~started
    /\ started' = TRUE
    /\ deadlineTimer' = TRUE
    /\ sendNextGoal(goalIndex, goal, retryTimer)
    /\ UNCHANGED <<mgrEnabled, mgrUp, finished, goalIndex, cancelAll, saveVars,
                   srvVars, inbox>>

\* The retry timer's callback: the same goal is tried again.
retrySendGoal ==
    /\ retryTimer
    /\ sendNextGoal(goalIndex, goal, FALSE)
    /\ UNCHANGED <<mgrEnabled, mgrUp, started, finished, goalIndex,
                   deadlineTimer, cancelAll, saveVars, srvVars, inbox>>

\* Every result code moves on to the next goal; only bootstrap_finished_
\* stops the chain.
onNavResult(g) ==
    /\ goal[g] \in ResultCodes
    /\ \/ /\ finished
          /\ goal' = [goal EXCEPT ![g] = "closed"]
          /\ UNCHANGED <<goalIndex, retryTimer>>
       \/ /\ ~finished
          /\ goalIndex' = goalIndex + 1
          /\ sendNextGoal(goalIndex + 1, [goal EXCEPT ![g] = "closed"], retryTimer)
    /\ UNCHANGED <<mgrEnabled, mgrUp, started, finished, deadlineTimer,
                   cancelAll, saveVars, srvVars, inbox>>

\* saveMaps waits for both services before it sends anything; a missing
\* service ends the mission there.
saveMaps ==
    \/ pcd' = "requested"
    \/ SaveMayFail /\ UNCHANGED pcd

onBootstrapTimeout ==
    /\ deadlineTimer /\ ~finished
    /\ deadlineTimer' = FALSE
    /\ cancelAll' = TRUE
    /\ saveMaps
    /\ UNCHANGED <<mgrEnabled, mgrUp, started, finished, goalIndex, retryTimer,
                   goal, grid, srvVars, inbox>>

\* Mutant: response->success is not looked at.
onPcdSavedUnchecked ==
    /\ pcd = "requested"
    /\ \/ pcd' = "saved"
       \/ SaveMayFail /\ pcd' = "failed"
    /\ grid' = "requested"
    /\ UNCHANGED <<mgrVars, navVars, srvVars, inbox>>

onPcdSaved ==
    /\ pcd = "requested"
    /\ \/ pcd' = "saved" /\ grid' = "requested"
       \/ SaveMayFail /\ pcd' = "failed" /\ UNCHANGED grid
    /\ UNCHANGED <<mgrVars, navVars, srvVars, inbox>>

\* Mutant: the flag is set but not published.
onGridMapSavedSilent ==
    /\ grid = "requested"
    /\ \/ grid' = "saved" /\ finished' = TRUE
       \/ SaveMayFail /\ grid' = "failed" /\ UNCHANGED finished
    /\ UNCHANGED <<mgrEnabled, mgrUp, started, goalIndex, deadlineTimer,
                   retryTimer, navVars, pcd, srvVars, inbox>>

onGridMapSaved ==
    /\ grid = "requested"
    /\ \/ /\ grid' = "saved"
          /\ finished' = TRUE
          /\ publishBootstrapFinished(<<TRUE>>)
       \/ SaveMayFail /\ grid' = "failed" /\ UNCHANGED <<finished, inbox>>
    /\ UNCHANGED <<mgrEnabled, mgrUp, started, goalIndex, deadlineTimer,
                   retryTimer, navVars, pcd, srvVars>>

-----------------------------------------------------------------------------
(* The behaviour server's side of the gate.                                  *)

\* Its constructor writes a default (false) flag and subscribes.
SentryBehaviorServer ==
    /\ ~srvUp
    /\ srvUp' = TRUE
    /\ bbFinished' = FALSE
    /\ UNCHANGED <<srvEnabled, mgrVars, navVars, saveVars, inbox>>

\* The subscription's callback copies the message to the global blackboard.
subscribe ==
    /\ inbox # <<>>
    /\ bbFinished' = Head(inbox)
    /\ inbox' = Tail(inbox)
    /\ UNCHANGED <<srvEnabled, srvUp, mgrVars, navVars, saveVars>>

\* The condition node IsMappingBootstrapFinished returns SUCCESS.
checkBootstrapStatus == srvUp /\ (srvEnabled => bbFinished)

-----------------------------------------------------------------------------
(* External: the Nav2 action server.  A rejected goal never produces a       *)
(* result; the manager registers no goal-response callback.                  *)
NavAnswer(g) ==
    /\ goal[g] = "requested"
    /\ \E s \in {"active", "rejected"} : goal' = [goal EXCEPT ![g] = s]
    /\ UNCHANGED <<cancelAll, mgrVars, saveVars, srvVars, inbox>>

NavFinish(g) ==
    /\ goal[g] = "active"
    /\ \E s \in {"succeeded", "aborted"} : goal' = [goal EXCEPT ![g] = s]
    /\ UNCHANGED <<cancelAll, mgrVars, saveVars, srvVars, inbox>>

\* Only the goals the server has already accepted are cancelled: a goal
\* request travels on another service and may arrive after the cancel request.
NavCancelAll ==
    /\ cancelAll
    /\ cancelAll' = FALSE
    /\ goal' = [g \in Goals |-> IF goal[g] = "active" THEN "canceled" ELSE goal[g]]
    /\ UNCHANGED <<mgrVars, saveVars, srvVars, inbox>>

-----------------------------------------------------------------------------
Next ==
    \/ MappingMissionManager
    \/ onGameStatus
    \/ retrySendGoal
    \/ \E g \in Goals : onNavResult(g)
    \/ onBootstrapTimeout
    \/ onPcdSaved
    \/ onGridMapSaved
    \/ SentryBehaviorServer
    \/ subscribe
    \/ \E g \in Goals : NavAnswer(g)
    \/ \E g \in Goals : NavFinish(g)
    \/ NavCancelAll

Spec == Init /\ [][Next]_vars

(* Both processes start, an armed wall timer fires, a service that was      *)
(* called answers and a received message is handled.  Nothing is assumed    *)
(* about the navigation goals or about the referee's messages.              *)
Fairness ==
    /\ WF_vars(MappingMissionManager)
    /\ WF_vars(SentryBehaviorServer)
    /\ WF_vars(onBootstrapTimeout)
    /\ WF_vars(onPcdSaved)
    /\ WF_vars(onGridMapSaved)
    /\ WF_vars(subscribe)

FairSpec == Spec /\ Fairness

-----------------------------------------------------------------------------
(* Properties                                                                *)

\* The guide goals form one chain: at any time at most one goal can still
\* report a result, it is the one goal_index_ points at, no retry timer is
\* armed beside it, and no goal further down the list has been sent.  A second
\* onGameStatus, a retry racing a result, or a result counted twice would fork
\* the chain (mapping_mission_manager.cpp, sendNextGoal and its three callers).
OneGuideGoalChain ==
    \A g \in Goals :
        /\ goal[g] \in Outstanding => g = goalIndex + 1 /\ ~retryTimer
        /\ g > goalIndex + 1 => goal[g] = "unsent"

\* With the bootstrap enabled in the manager, the behaviour tree can see the
\* flag set only after the point cloud and then the grid map were saved
\* successfully (onPcdSaved, onGridMapSaved, and the message's trip to the
\* blackboard of the other process).
ReleasedOnlyAfterSaves ==
    mgrEnabled /\ bbFinished => pcd = "saved" /\ grid = "saved"

\* Once the gate of the behaviour tree is open it stays open: no later message
\* of the manager closes it in the middle of the match.
GateStaysOpen ==
    [][checkBootstrapStatus => checkBootstrapStatus']_vars

\* A bootstrap that starts while the behaviour server is running ends with the
\* tree released unless a map service was missing or reported a failure, and
\* whatever the navigation goals do: rejected, aborted, cancelled or never
\* answered.
SaveFailed == pcd = "failed" \/ grid = "failed" \/ (pcd = "idle" /\ ~deadlineTimer)
StartedLeadsToReleased ==
    (started /\ ~finished /\ srvUp) ~> (checkBootstrapStatus \/ SaveFailed)

\* What the log line of onBootstrapTimeout says: at the deadline the guided
\* navigation is cancelled.  Hence no guide goal is sent after it.
NoGuideGoalAfterTimeout ==
    [][started /\ ~deadlineTimer =>
         \A g \in Goals : goal[g] = "unsent" => goal'[g] = "unsent"]_vars
=============================================================================

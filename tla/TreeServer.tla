----------------------------- MODULE TreeServer -----------------------------
(***************************************************************************)
(* The behaviour-tree execution server (TreeExecutionServer, the base of   *)
(* SentryBehaviorServer) and its client SentryBehaviorClient.              *)
(*                                                                         *)
(* All ROS callbacks of the server (goal requests, cancel requests, the    *)
(* registration timer and the subscriptions that fill the blackboard) are  *)
(* in the node's default, mutually exclusive callback group: at most one   *)
(* runs at a time, and one that blocks keeps all others waiting.  The tree *)
(* is run by a thread of its own, one per goal.  What the tree does in a   *)
(* tick is left open: it keeps RUNNING, completes, or throws.              *)
(***************************************************************************)
EXTENDS Naturals

CONSTANTS
    MaxGoals,     \* bound on the number of goals sent
    MaxRestarts   \* bound on the restarts of the client process

ASSUME BoundsAssumption == MaxGoals \in Nat /\ MaxRestarts \in Nat

VARIABLES
    gstate,      \* per goal: its state at the action server
    canceling,   \* per goal: goal_handle->is_canceling()
    cancelReq,   \* goals for which a cancel request is waiting
    worker,      \* the goal action_thread was started for; 0 before the first
    wpc,         \* where that thread is
    joining,     \* the goal whose handle_accepted is in join(); 0 if none
    registered,  \* factory_initialized_
    treeActive,  \* p_->tree has RUNNING nodes
    pending,     \* a referee message waits for its subscription callback
    sent,        \* number of goals sent so far
    awaiting,    \* the goal whose result the client awaits; 0: timer_ is armed
    restarts     \* restarts of the client so far

serverVars == <<gstate, canceling, cancelReq, joining, registered, pending>>
threadVars == <<worker, wpc, treeActive>>
clientVars == <<sent, awaiting, restarts>>
vars == <<serverVars, threadVars, clientVars>>

Goals == 1..MaxGoals
Terminal == {"succeeded", "aborted", "canceled"}
GroupFree == joining = 0      \* no callback of the group is blocked

TypeOK ==
    /\ gstate \in [Goals -> {"unsent", "requested", "executing"} \union Terminal]
    /\ canceling \in [Goals -> BOOLEAN]
    /\ cancelReq \in SUBSET Goals
    /\ worker \in 0..MaxGoals
    /\ wpc \in {"none", "create", "loop", "return", "exited"}
    /\ joining \in 0..MaxGoals
    /\ registered \in BOOLEAN /\ treeActive \in BOOLEAN /\ pending \in BOOLEAN
    /\ sent \in 0..MaxGoals
    /\ awaiting \in 0..MaxGoals
    /\ restarts \in 0..MaxRestarts

Init ==
    /\ gstate = [g \in Goals |-> "unsent"]
    /\ canceling = [g \in Goals |-> FALSE]
    /\ cancelReq = {}
    /\ worker = 0 /\ wpc = "none" /\ joining = 0
    /\ registered = FALSE /\ treeActive = FALSE /\ pending = FALSE
    /\ sent = 0 /\ awaiting = 0 /\ restarts = 0

-----------------------------------------------------------------------------
(* Callbacks of the server's group                                           *)

\* The single-shot timer loads plugins and trees.
executeRegistration ==
    /\ GroupFree /\ ~registered
    /\ registered' = TRUE
    /\ UNCHANGED <<gstate, canceling, cancelReq, joining, pending, threadVars,
                   clientVars>>

\* The goal request's callback: handle_goal accepts every goal and has it
\* executed, which makes it executing at once (external: rclcpp_action);
\* handle_accepted then starts by joining the thread of the previous goal.
handle_goal(g) ==
    /\ GroupFree /\ gstate[g] = "requested"
    /\ gstate' = [gstate EXCEPT ![g] = "executing"]
    /\ joining' = g
    /\ UNCHANGED <<canceling, cancelReq, registered, pending, threadVars, clientVars>>

\* Mutant: the previous thread is replaced without being joined.
handle_acceptedNoJoin ==
    /\ ~GroupFree
    /\ worker' = joining
    /\ wpc' = "create"
    /\ joining' = 0
    /\ UNCHANGED <<gstate, canceling, cancelReq, registered, pending, treeActive,
                   clientVars>>

\* The join succeeds (at once when no thread was started or it has ended) and
\* the new thread is started.
handle_accepted ==
    /\ ~GroupFree
    /\ wpc \in {"none", "exited"}
    /\ worker' = joining
    /\ wpc' = "create"
    /\ joining' = 0
    /\ UNCHANGED <<gstate, canceling, cancelReq, registered, pending, treeActive,
                   clientVars>>

\* A cancel request is accepted if the goal is active.
handle_cancel(g) ==
    /\ GroupFree /\ g \in cancelReq
    /\ cancelReq' = cancelReq \ {g}
    /\ canceling' = [canceling EXCEPT ![g] = gstate[g] = "executing"]
    /\ UNCHANGED <<gstate, joining, registered, pending, threadVars, clientVars>>

\* A subscription callback writes the blackboard.
subscribe ==
    /\ GroupFree /\ pending
    /\ pending' = FALSE
    /\ UNCHANGED <<gstate, canceling, cancelReq, joining, registered, threadVars,
                   clientVars>>

-----------------------------------------------------------------------------
(* The execute thread                                                        *)

\* The goal of the thread ends in state s; active says whether the tree is left
\* with RUNNING nodes.
Ends(s, active) ==
    /\ gstate' = [gstate EXCEPT ![worker] = s]
    /\ wpc' = "return"
    /\ treeActive' = active

\* execute() up to its loop: creating the tree replaces the previous one and
\* throws when the trees are not registered yet.
createTree ==
    /\ wpc = "create"
    /\ \/ /\ registered
          /\ wpc' = "loop"
          /\ treeActive' = FALSE
          /\ UNCHANGED gstate
       \/ ~registered /\ Ends("aborted", treeActive)
    /\ UNCHANGED <<canceling, cancelReq, joining, registered, pending, worker, clientVars>>

\* One iteration of the loop: a requested cancel halts the tree and ends the
\* goal.
executeCancel ==
    /\ wpc = "loop" /\ canceling[worker]
    /\ Ends("canceled", FALSE)
    /\ UNCHANGED <<canceling, cancelReq, joining, registered, pending, worker, clientVars>>

\* One iteration without a cancel: the tree is ticked.  It stays RUNNING, a
\* completed tree succeeds or aborts the goal, and an exception aborts it
\* without a halt.
executeTick ==
    /\ wpc = "loop" /\ ~canceling[worker]
    /\ \/ treeActive' = TRUE /\ UNCHANGED <<wpc, gstate>>
       \/ Ends("succeeded", FALSE)
       \/ Ends("aborted", FALSE)
       \/ Ends("aborted", TRUE)
    /\ UNCHANGED <<canceling, cancelReq, joining, registered, pending, worker, clientVars>>

\* The thread function returns after the result was set.
execute ==
    /\ wpc = "return"
    /\ wpc' = "exited"
    /\ UNCHANGED <<worker, treeActive, serverVars, clientVars>>

-----------------------------------------------------------------------------
(* The client                                                                *)

\* The 100 ms timer: it is cancelled first, then the goal is sent.
sendGoal ==
    /\ awaiting = 0 /\ sent < MaxGoals
    /\ sent' = sent + 1
    /\ awaiting' = sent + 1
    /\ gstate' = [gstate EXCEPT ![sent + 1] = "requested"]
    /\ UNCHANGED <<canceling, cancelReq, joining, registered, pending, threadVars, restarts>>

\* Mutant: the timer is armed again only after a goal that succeeded.
resultCallbackOnlySuccess ==
    /\ awaiting # 0
    /\ gstate[awaiting] = "succeeded"
    /\ awaiting' = 0
    /\ UNCHANGED <<sent, restarts, serverVars, threadVars>>

\* Any result arms the timer again.
resultCallback ==
    /\ awaiting # 0
    /\ gstate[awaiting] \in Terminal
    /\ awaiting' = 0
    /\ UNCHANGED <<sent, restarts, serverVars, threadVars>>

\* External: the client process is stopped and started again; the goal it sent
\* goes on at the server.
ClientRestart ==
    /\ restarts < MaxRestarts
    /\ restarts' = restarts + 1
    /\ awaiting' = 0
    /\ UNCHANGED <<sent, serverVars, threadVars>>

\* External: somebody asks for a goal to be cancelled.
AskCancel(g) ==
    /\ gstate[g] = "executing"
    /\ cancelReq' = cancelReq \union {g}
    /\ UNCHANGED <<gstate, canceling, joining, registered, pending, threadVars, clientVars>>

\* External: a referee message arrives.
RefereeMsg ==
    /\ pending' = TRUE
    /\ UNCHANGED <<gstate, canceling, cancelReq, joining, registered, threadVars, clientVars>>

-----------------------------------------------------------------------------
Next ==
    \/ executeRegistration
    \/ \E g \in Goals : handle_goal(g)
    \/ handle_accepted
    \/ \E g \in Goals : handle_cancel(g)
    \/ subscribe
    \/ createTree
    \/ executeCancel
    \/ executeTick
    \/ execute
    \/ sendGoal
    \/ resultCallback
    \/ ClientRestart
    \/ \E g \in Goals : AskCancel(g)
    \/ RefereeMsg

Spec == Init /\ [][Next]_vars

(* The executor runs every callback that stays ready, the execute thread and *)
(* the client keep going.  A tick returns, so that a cancel is noticed, but  *)
(* nothing is assumed of what it returns: a tree may never complete.         *)
Fairness ==
    /\ WF_vars(executeRegistration)
    /\ \A g \in Goals : WF_vars(handle_goal(g)) /\ WF_vars(handle_cancel(g))
    /\ WF_vars(handle_accepted)
    /\ WF_vars(subscribe)
    /\ WF_vars(createTree)
    /\ WF_vars(executeCancel)
    /\ WF_vars(execute)
    /\ WF_vars(sendGoal)
    /\ WF_vars(resultCallback)

FairSpec == Spec /\ Fairness

-----------------------------------------------------------------------------
(* Properties                                                                *)

\* Only one tree is ever executed: a goal that the server counts as executing
\* is the one of the live execute thread, or the one whose handle_accepted still
\* waits for that thread to end, never both.  handle_accepted may replace the
\* thread object, and the tree, only after the previous thread has ended.
ExecutingHasThread ==
    \A g \in Goals :
        LET live == worker = g /\ wpc \in {"create", "loop"}
        IN  /\ gstate[g] = "executing" <=> g = joining \/ live
            /\ ~(g = joining /\ live)

\* The client process is started once, so every goal it sends follows the end
\* of the previous one.
OneClient == [](restarts = 0)

\* A cancel request for a live goal ends the goal, whatever the tree does, as
\* long as no second goal blocks the callbacks.
CancelEndsGoal ==
    OneClient => \A g \in Goals :
        (g \in cancelReq /\ gstate[g] = "executing") ~> gstate[g] \in Terminal

\* The client brings the tree back: after a goal ended for any reason, an
\* exception or trees that were not registered yet included, the execute thread
\* of the next goal is started.
NextGoalExecutes ==
    OneClient => \A g \in Goals :
        (gstate[g] \in Terminal /\ g < MaxGoals) ~> worker > g

\* The client never makes the server block its own callbacks: a referee message
\* that waits for its callback reaches the blackboard although handle_accepted
\* joins the execute thread inside the same callback group.
BlackboardIsServed == OneClient => (pending ~> ~pending)

\* What the comment in handle_accepted gives as the reason for the execute
\* thread: the executor is not blocked, whoever sends goals.
ExecutorIsNotBlocked == pending ~> ~pending

\* With one client the server goes on serving: cancels end goals, ended goals are
\* followed by the next, and messages reach the blackboard.
GoalsAreServed ==
    CancelEndsGoal /\ NextGoalExecutes /\ BlackboardIsServed
=============================================================================

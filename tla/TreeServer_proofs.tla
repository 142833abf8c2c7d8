------------------------- MODULE TreeServer_proofs -------------------------
(***************************************************************************)
(* Proofs about the execution server for every number of goals and client  *)
(* restarts.                                                               *)
(***************************************************************************)
EXTENDS TreeServer, TLAPS

\* Goals are sent in order, and the execute thread and the callback that waits for it
\* are busy with goals that were sent.
ThreadInv ==
    /\ joining # 0 => joining \in Goals
    /\ \A g \in Goals : g > sent => gstate[g] = "unsent"
    /\ wpc \in {"create", "loop"} => worker \in Goals

IInv == TypeOK /\ ThreadInv /\ ExecutingHasThread

\* The inductive invariant holds initially.
LEMMA InitIInv == Init => IInv
<1> SUFFICES ASSUME Init PROVE IInv
  OBVIOUS
<1>1. \A g \in Goals : gstate[g] = "unsent"
  BY DEF Init
<1>2. TypeOK
  <2>1. 0 \in 0..MaxGoals /\ 0 \in 0..MaxRestarts
    BY BoundsAssumption
  <2>2. gstate \in [Goals -> {"unsent", "requested", "executing"} \union Terminal]
        /\ canceling \in [Goals -> BOOLEAN]
    BY DEF Init
  <2> QED BY <2>1, <2>2 DEF Init, TypeOK
<1>3. ThreadInv /\ ExecutingHasThread
  <2>1. wpc = "none" /\ joining = 0 /\ \A g \in Goals : g # joining
    BY DEF Init, Goals
  <2> QED BY <1>1, <2>1 DEF ThreadInv, ExecutingHasThread
<1> QED BY <1>2, <1>3 DEF IInv

\* Every step preserves the types.
LEMMA NextType ==
  ASSUME IInv, Next
  PROVE  TypeOK'
<1> USE BoundsAssumption
<1>1. TypeOK /\ ThreadInv
  BY DEF IInv
<1>2. /\ registered' \in BOOLEAN /\ treeActive' \in BOOLEAN /\ pending' \in BOOLEAN
      /\ cancelReq' \in SUBSET Goals
      /\ wpc' \in {"none", "create", "loop", "return", "exited"}
  <2>1. registered' \in BOOLEAN /\ pending' \in BOOLEAN
    BY <1>1, Zenon DEF TypeOK, Next, executeRegistration, handle_goal, handle_accepted,
       handle_cancel, subscribe, createTree, executeCancel, executeTick, execute,
       sendGoal, resultCallback, ClientRestart, AskCancel, RefereeMsg,
       serverVars, threadVars, clientVars
  <2>2. treeActive' \in BOOLEAN
    BY <1>1, Zenon DEF TypeOK, Next, executeRegistration, handle_goal, handle_accepted,
       handle_cancel, subscribe, createTree, executeCancel, executeTick, execute, Ends,
       sendGoal, resultCallback, ClientRestart, AskCancel, RefereeMsg,
       serverVars, threadVars, clientVars
  <2>3. cancelReq' \in SUBSET Goals /\ wpc' \in {"none", "create", "loop", "return", "exited"}
    BY <1>1 DEF TypeOK, Next, executeRegistration, handle_goal, handle_accepted,
       handle_cancel, subscribe, createTree, executeCancel, executeTick, execute, Ends,
       sendGoal, resultCallback, ClientRestart, AskCancel, RefereeMsg,
       serverVars, threadVars, clientVars
  <2> QED BY <2>1, <2>2, <2>3
<1>3. worker' \in 0..MaxGoals /\ joining' \in 0..MaxGoals
  <2>1. ASSUME NEW g \in Goals, handle_goal(g)
        PROVE  worker' \in 0..MaxGoals /\ joining' \in 0..MaxGoals
    BY <2>1, <1>1 DEF handle_goal, TypeOK, Goals, threadVars
  <2>2. CASE handle_accepted
    BY <2>2, <1>1 DEF handle_accepted, TypeOK
  <2>3. CASE UNCHANGED <<worker, joining>>
    BY <2>3, <1>1 DEF TypeOK
  <2> QED
    BY <2>1, <2>2, <2>3 DEF Next, executeRegistration, handle_cancel, subscribe, createTree,
       executeCancel, executeTick, execute, sendGoal, resultCallback, ClientRestart,
       AskCancel, RefereeMsg, serverVars, threadVars
<1>4. sent' \in 0..MaxGoals /\ awaiting' \in 0..MaxGoals /\ restarts' \in 0..MaxRestarts
  <2>1. CASE sendGoal
    BY <2>1, <1>1 DEF sendGoal, TypeOK
  <2>2. CASE resultCallback
    BY <2>2, <1>1 DEF resultCallback, TypeOK
  <2>3. CASE ClientRestart
    BY <2>3, <1>1 DEF ClientRestart, TypeOK
  <2>4. CASE UNCHANGED clientVars
    BY <2>4, <1>1 DEF clientVars, TypeOK
  <2> QED
    BY <2>1, <2>2, <2>3, <2>4 DEF Next, executeRegistration, handle_goal, handle_accepted,
       handle_cancel, subscribe, createTree, executeCancel, executeTick, execute,
       AskCancel, RefereeMsg
<1>5. canceling' \in [Goals -> BOOLEAN]
  <2>1. ASSUME NEW g \in Goals, handle_cancel(g)
        PROVE  canceling' \in [Goals -> BOOLEAN]
    BY <2>1, <1>1 DEF TypeOK, handle_cancel
  <2>2. CASE UNCHANGED canceling
    BY <2>2, <1>1 DEF TypeOK
  <2> QED BY <2>1, <2>2 DEF Next, executeRegistration, handle_goal, handle_accepted,
     subscribe, createTree, executeCancel, executeTick, execute,
     sendGoal, resultCallback, ClientRestart, AskCancel, RefereeMsg, serverVars
<1>6. gstate' \in [Goals -> {"unsent", "requested", "executing"} \union Terminal]
  <2>1. \/ UNCHANGED gstate
        \/ \E g \in Goals \union {joining, worker}, s \in {"requested", "executing"} \union Terminal :
             gstate' = [gstate EXCEPT ![g] = s]
    BY <1>1 DEF TypeOK, Next, Goals, executeRegistration, handle_goal, handle_accepted,
       handle_cancel, subscribe, createTree, executeCancel, executeTick, execute, Ends,
       sendGoal, resultCallback, ClientRestart, AskCancel, RefereeMsg, serverVars, Terminal
  <2> QED BY <2>1, <1>1 DEF TypeOK
<1> QED BY <1>2, <1>3, <1>4, <1>5, <1>6 DEF TypeOK

\* Every step preserves the correspondence of goals and execute thread.
LEMMA NextThread ==
  ASSUME IInv, Next
  PROVE  ThreadInv' /\ ExecutingHasThread'
<1> USE BoundsAssumption
<1>1. TypeOK /\ ThreadInv /\ ExecutingHasThread
  BY DEF IInv
<1>2. CASE UNCHANGED <<gstate, worker, wpc, joining, sent>>
  BY <1>2, <1>1 DEF ThreadInv, ExecutingHasThread
<1>3. ASSUME NEW g \in Goals, handle_goal(g)
      PROVE  ThreadInv' /\ ExecutingHasThread'
  <2>1. /\ gstate[g] = "requested" /\ joining = 0 /\ joining' = g
        /\ gstate' = [gstate EXCEPT ![g] = "executing"]
        /\ UNCHANGED <<worker, wpc, sent>>
    BY <1>3 DEF handle_goal, GroupFree, threadVars, clientVars
  <2>2. ~(worker = g /\ wpc \in {"create", "loop"})
    BY <2>1, <1>1 DEF ExecutingHasThread
  <2>3. ThreadInv'
    BY <2>1, <1>1 DEF TypeOK, ThreadInv, Goals
  <2>4. gstate'[g] = "executing" /\ \A h \in Goals : h # g => gstate'[h] = gstate[h] /\ h # joining
    BY <2>1, <1>1 DEF TypeOK, Goals
  <2>5. ExecutingHasThread'
    BY <2>1, <2>2, <2>4, <1>1 DEF ExecutingHasThread
  <2> QED BY <2>3, <2>5
<1>4. CASE handle_accepted
  BY <1>4, <1>1 DEF TypeOK, ThreadInv, ExecutingHasThread, handle_accepted, GroupFree,
     clientVars, Goals
<1>5. CASE createTree \/ executeCancel \/ executeTick
  <2>1. /\ wpc \in {"create", "loop"} /\ UNCHANGED <<worker, joining, sent>>
        /\ \/ wpc' = "loop" /\ UNCHANGED gstate
           \/ wpc' = "return" /\ \E s \in Terminal : gstate' = [gstate EXCEPT ![worker] = s]
    BY <1>5 DEF createTree, executeCancel, executeTick, Ends, Terminal, clientVars
  <2>2. worker \in Goals /\ gstate[worker] = "executing"
    BY <2>1, <1>1 DEF ThreadInv, ExecutingHasThread
  <2> QED BY <2>1, <2>2, <1>1 DEF TypeOK, ThreadInv, ExecutingHasThread, Terminal, Goals
<1>6. CASE execute
  BY <1>6, <1>1 DEF ThreadInv, ExecutingHasThread, execute, serverVars, clientVars
<1>7. CASE sendGoal
  BY <1>7, <1>1 DEF TypeOK, ThreadInv, ExecutingHasThread, sendGoal, threadVars, Goals
<1> QED
  BY <1>2, <1>3, <1>4, <1>5, <1>6, <1>7 DEF Next, executeRegistration, handle_cancel,
     subscribe, resultCallback, ClientRestart, AskCancel, RefereeMsg, serverVars,
     threadVars, clientVars

\* IInv is an inductive invariant of the server and its client.
THEOREM Invariance == Spec => []IInv
<1>1. IInv /\ [Next]_vars => IInv'
  <2> SUFFICES ASSUME IInv, [Next]_vars PROVE IInv'
    OBVIOUS
  <2>1. CASE Next
    BY <2>1, NextType, NextThread DEF IInv
  <2>2. CASE UNCHANGED vars
    BY <2>2 DEF vars, serverVars, threadVars, clientVars, IInv, TypeOK, ThreadInv,
       ExecutingHasThread
  <2> QED BY <2>1, <2>2
<1> QED BY InitIInv, <1>1, PTL DEF Spec

\* The variables of the server and its client keep their types.
THEOREM TypeCorrect == Spec => []TypeOK
  BY Invariance, PTL DEF IInv

\* However many goals are sent, cancelled or aborted, a goal is executing just when
\* the live execute thread is its own or its callback waits for that thread to end.
THEOREM OneTreeExecutes == Spec => []ExecutingHasThread
  BY Invariance, PTL DEF IInv
=============================================================================

---------------------- MODULE MappingBootstrap_proofs ----------------------
(***************************************************************************)
(* Proofs for every number of guide goals.  The properties of the mission  *)
(* are not inductive by themselves: IInv adds what holds before the match  *)
(* starts, what an armed timer implies, and what the messages on their way *)
(* to the behaviour server may say.                                        *)
(***************************************************************************)
EXTENDS MappingBootstrap, SequenceTheorems, TLAPS

Saved == pcd = "saved" /\ grid = "saved"

\* Nothing has happened before the constructor and before the match starts.
BeforeStart ==
    /\ ~mgrUp => ~started
    /\ ~started => /\ goalIndex = 0 /\ ~retryTimer /\ ~deadlineTimer /\ ~finished
                   /\ pcd = "idle" /\ grid = "idle"
                   /\ \A g \in Goals : goal[g] = "unsent"

\* An armed retry timer stands for the goal that has still to be sent.
RetryMeansUnsent ==
    retryTimer => \A g \in Goals : g > goalIndex => goal[g] = "unsent"

\* The two saves happen once, one after the other.
SavesInOrder ==
    /\ deadlineTimer => pcd = "idle"
    /\ grid # "idle" => pcd = "saved"
    /\ finished => Saved

\* What the messages on their way may say: true only when the tree may be
\* released, and never false after true.
InboxInv ==
    /\ mgrEnabled => \A i \in 1..Len(inbox) : inbox[i] => Saved
    /\ \A i, j \in 1..Len(inbox) : i < j /\ inbox[i] => inbox[j]
    /\ bbFinished => \A i \in 1..Len(inbox) : inbox[i]
    /\ ~mgrUp \/ ~srvUp => inbox = <<>> /\ ~bbFinished

IInv ==
    /\ TypeOK
    /\ OneGuideGoalChain
    /\ BeforeStart
    /\ RetryMeansUnsent
    /\ SavesInOrder
    /\ InboxInv
    /\ ReleasedOnlyAfterSaves

\* The inductive invariant holds initially.
LEMMA InitIInv == Init => IInv
<1> SUFFICES ASSUME Init PROVE IInv
  OBVIOUS
<1>1. goalIndex \in 0..NumGoals /\ goal \in [Goals -> GoalStates]
  BY NumGoalsAssumption DEF Init, GoalStates
<1>2. inbox \in Seq(BOOLEAN) /\ Len(inbox) = 0
  BY DEF Init
<1>3. TypeOK
  BY <1>1, <1>2 DEF Init, TypeOK, CallStates
<1>4. OneGuideGoalChain
  BY DEF Init, OneGuideGoalChain, Outstanding
<1>5. BeforeStart /\ RetryMeansUnsent /\ SavesInOrder /\ ReleasedOnlyAfterSaves
  BY DEF Init, BeforeStart, RetryMeansUnsent, SavesInOrder, ReleasedOnlyAfterSaves
<1>6. InboxInv
  BY <1>2 DEF Init, InboxInv
<1> QED BY <1>3, <1>4, <1>5, <1>6 DEF IInv

\* sendNextGoal keeps the goals and the retry timer well formed and the chain
\* single, when no goal from index i on has been sent and none is outstanding.
LEMMA SendNextGoal ==
  ASSUME NEW i \in 0..NumGoals, NEW gs \in [Goals -> GoalStates], NEW rt \in BOOLEAN,
         \A g \in Goals : gs[g] \notin Outstanding,
         \A g \in Goals : g > i => gs[g] = "unsent",
         ~rt,
         sendNextGoal(i, gs, rt)
  PROVE  /\ goal' \in [Goals -> GoalStates]
         /\ retryTimer' \in BOOLEAN
         /\ \A g \in Goals : goal'[g] \in Outstanding => g = i + 1 /\ ~retryTimer'
         /\ \A g \in Goals : g > i + 1 => goal'[g] = "unsent"
         /\ retryTimer' => \A g \in Goals : g > i => goal'[g] = "unsent"
<1>0. \A g \in Goals : g > i + 1 => g > i
  BY NumGoalsAssumption DEF Goals
<1>1. CASE retryTimer' = TRUE /\ goal' = gs
  BY <1>0, <1>1, Zenon
<1>2. CASE retryTimer' = rt /\ goal' = gs
  BY <1>0, <1>2, Zenon
<1>3. CASE /\ i < NumGoals
           /\ goal' = [gs EXCEPT ![i + 1] = "requested"]
           /\ retryTimer' = rt
  <2>1. i + 1 \in Goals
    BY <1>3, NumGoalsAssumption DEF Goals
  <2>2. goal' \in [Goals -> GoalStates]
    BY <1>3, <2>1 DEF GoalStates, Outstanding
  <2>3. \A g \in Goals : g # i + 1 => goal'[g] = gs[g]
    BY <1>3, <2>1
  <2>4. \A g \in Goals : goal'[g] \in Outstanding => g = i + 1
    BY <2>3
  <2>5. \A g \in Goals : g > i + 1 => goal'[g] = "unsent"
    BY <1>0, <2>3
  <2> QED BY <1>3, <2>2, <2>4, <2>5
<1> QED BY <1>1, <1>2, <1>3 DEF sendNextGoal

\* Every step preserves the part of the invariant about the guide goals.
LEMMA NextChain ==
  ASSUME IInv, Next
  PROVE  /\ goalIndex' \in 0..NumGoals /\ retryTimer' \in BOOLEAN
         /\ goal' \in [Goals -> GoalStates]
         /\ OneGuideGoalChain' /\ RetryMeansUnsent'
<1> USE NumGoalsAssumption
<1>t. TypeOK /\ OneGuideGoalChain /\ BeforeStart /\ RetryMeansUnsent
  BY DEF IInv
<1>k. SUFFICES ASSUME UNCHANGED <<goalIndex, retryTimer, goal>> => FALSE
               PROVE  /\ goalIndex' \in 0..NumGoals /\ retryTimer' \in BOOLEAN
                      /\ goal' \in [Goals -> GoalStates]
                      /\ OneGuideGoalChain' /\ RetryMeansUnsent'
  BY <1>t DEF TypeOK, OneGuideGoalChain, RetryMeansUnsent
<1>1. CASE onGameStatus
  <2>1. goalIndex = 0 /\ ~retryTimer /\ goalIndex' = 0
    BY <1>1, <1>t DEF onGameStatus, BeforeStart
  <2>2. \A g \in Goals : goal[g] = "unsent"
    BY <1>1, <1>t DEF onGameStatus, BeforeStart
  <2>3. sendNextGoal(0, goal, retryTimer)
    BY <1>1, <2>1 DEF onGameStatus
  <2> QED
    BY <2>1, <2>2, <2>3, <1>t, SendNextGoal
    DEF TypeOK, OneGuideGoalChain, RetryMeansUnsent, Outstanding
<1>2. CASE retrySendGoal
  <2>1. retryTimer /\ goalIndex' = goalIndex /\ sendNextGoal(goalIndex, goal, FALSE)
    BY <1>2 DEF retrySendGoal
  <2>2. \A g \in Goals : goal[g] \notin Outstanding
    BY <2>1, <1>t DEF OneGuideGoalChain
  <2>3. \A g \in Goals : g > goalIndex => goal[g] = "unsent"
    BY <2>1, <1>t DEF RetryMeansUnsent
  <2> QED
    BY <2>1, <2>2, <2>3, <1>t, SendNextGoal
    DEF TypeOK, OneGuideGoalChain, RetryMeansUnsent
<1>3. ASSUME NEW g \in Goals, onNavResult(g)
      PROVE  /\ goalIndex' \in 0..NumGoals /\ retryTimer' \in BOOLEAN
             /\ goal' \in [Goals -> GoalStates]
             /\ OneGuideGoalChain' /\ RetryMeansUnsent'
  <2> DEFINE gs == [goal EXCEPT ![g] = "closed"]
  <2>1. goal[g] \in Outstanding
    BY <1>3 DEF onNavResult, ResultCodes, Outstanding
  <2>2. g = goalIndex + 1 /\ ~retryTimer
    BY <2>1, <1>t DEF OneGuideGoalChain
  <2>3. gs \in [Goals -> GoalStates]
    BY <1>t DEF TypeOK, GoalStates
  <2>4. \A h \in Goals : gs[h] \notin Outstanding
    BY <2>2, <1>t DEF TypeOK, OneGuideGoalChain, Outstanding
  <2>5. \A h \in Goals : h > g => gs[h] = "unsent"
    BY <2>2, <1>t DEF TypeOK, OneGuideGoalChain
  <2>6. CASE finished
    <3>1. goal' = gs /\ goalIndex' = goalIndex /\ retryTimer' = retryTimer
      BY <1>3, <2>6 DEF onNavResult
    <3>2. \A h \in Goals : h > goalIndex + 1 => gs[h] = "unsent"
      BY <2>2, <2>5 
    <3> HIDE DEF gs
    <3> QED BY <3>1, <3>2, <2>2, <2>3, <2>4, <1>t
            DEF TypeOK, OneGuideGoalChain, RetryMeansUnsent
  <2>7. CASE ~finished
    <3>1. goalIndex' = goalIndex + 1 /\ sendNextGoal(goalIndex + 1, gs, retryTimer)
      BY <1>3, <2>7 DEF onNavResult
    <3>2. goalIndex' = g /\ g \in 0..NumGoals
      BY <3>1, <2>2 DEF Goals
    <3>3. sendNextGoal(g, gs, retryTimer) /\ retryTimer \in BOOLEAN
      BY <3>1, <2>2, <1>t DEF TypeOK
    <3> HIDE DEF gs
    <3> QED BY <3>2, <3>3, <2>2, <2>3, <2>4, <2>5, SendNextGoal
            DEF OneGuideGoalChain, RetryMeansUnsent
  <2> QED BY <2>6, <2>7
<1>4. ASSUME NEW g \in Goals, NavAnswer(g)
      PROVE  /\ goalIndex' \in 0..NumGoals /\ retryTimer' \in BOOLEAN
             /\ goal' \in [Goals -> GoalStates]
             /\ OneGuideGoalChain' /\ RetryMeansUnsent'
  BY <1>4, <1>t DEF NavAnswer, mgrVars, TypeOK, OneGuideGoalChain, RetryMeansUnsent,
     GoalStates, Outstanding, Goals
<1>5. ASSUME NEW g \in Goals, NavFinish(g)
      PROVE  /\ goalIndex' \in 0..NumGoals /\ retryTimer' \in BOOLEAN
             /\ goal' \in [Goals -> GoalStates]
             /\ OneGuideGoalChain' /\ RetryMeansUnsent'
  BY <1>5, <1>t DEF NavFinish, mgrVars, TypeOK, OneGuideGoalChain, RetryMeansUnsent,
     GoalStates, Outstanding, Goals
<1>6. CASE NavCancelAll
  BY <1>6, <1>t DEF NavCancelAll, mgrVars, TypeOK, OneGuideGoalChain, RetryMeansUnsent,
     GoalStates, Outstanding, Goals
<1>7. CASE MappingMissionManager \/ onBootstrapTimeout \/ onPcdSaved
           \/ onGridMapSaved \/ SentryBehaviorServer \/ subscribe
  BY <1>7, <1>k DEF MappingMissionManager, onBootstrapTimeout, onPcdSaved,
     onGridMapSaved, SentryBehaviorServer, subscribe, mgrVars, navVars
<1> QED BY <1>1, <1>2, <1>3, <1>4, <1>5, <1>6, <1>7 DEF Next

\* What publishBootstrapFinished leaves on its way.
LEMMA Publish ==
  ASSUME inbox \in Seq(BOOLEAN), NEW values \in Seq(BOOLEAN),
         publishBootstrapFinished(values)
  PROVE  /\ inbox' \in Seq(BOOLEAN)
         /\ ~srvUp => inbox' = inbox
         /\ \A i \in 1..Len(inbox') :
              \/ i \in 1..Len(inbox) /\ inbox'[i] = inbox[i]
              \/ /\ i > Len(inbox) /\ i - Len(inbox) \in 1..Len(values)
                 /\ inbox'[i] = values[i - Len(inbox)]
<1>1. CASE ~srvUp
  BY <1>1 DEF publishBootstrapFinished
<1>2. CASE srvUp
  <2>1. inbox' = inbox \o values
    BY <1>2 DEF publishBootstrapFinished
  <2>2. inbox' \in Seq(BOOLEAN) /\ Len(inbox') = Len(inbox) + Len(values)
    BY <2>1, ConcatProperties
  <2>3. \A i \in 1..Len(inbox) + Len(values) :
          inbox'[i] = IF i <= Len(inbox) THEN inbox[i] ELSE values[i - Len(inbox)]
    BY <2>1, ConcatProperties
  <2>4. Len(inbox) \in Nat /\ Len(values) \in Nat
    BY LenProperties
  <2> QED BY <1>2, <2>2, <2>3, <2>4
<1> QED BY <1>1, <1>2

\* Every step preserves the types of the other variables.
LEMMA NextType ==
  ASSUME IInv, Next
  PROVE  TypeOK'
<1>1. TypeOK /\ goalIndex' \in 0..NumGoals /\ retryTimer' \in BOOLEAN
      /\ goal' \in [Goals -> GoalStates]
  BY NextChain DEF IInv
<1>2. /\ mgrEnabled' \in BOOLEAN /\ srvEnabled' \in BOOLEAN
      /\ mgrUp' \in BOOLEAN /\ srvUp' \in BOOLEAN
      /\ started' \in BOOLEAN /\ finished' \in BOOLEAN
      /\ deadlineTimer' \in BOOLEAN /\ cancelAll' \in BOOLEAN
  BY <1>1, Zenon DEF Next, TypeOK, MappingMissionManager, onGameStatus, retrySendGoal,
     onNavResult, onBootstrapTimeout, onPcdSaved, onGridMapSaved,
     SentryBehaviorServer, subscribe, NavAnswer, NavFinish, NavCancelAll,
     mgrVars, navVars, saveVars, srvVars
<1>3. pcd' \in CallStates /\ grid' \in CallStates
  BY <1>1 DEF Next, TypeOK, CallStates, MappingMissionManager, onGameStatus,
     retrySendGoal, onNavResult, onBootstrapTimeout, saveMaps, onPcdSaved,
     onGridMapSaved, SentryBehaviorServer, subscribe, NavAnswer, NavFinish,
     NavCancelAll, saveVars
<1>4. inbox' \in Seq(BOOLEAN) /\ bbFinished' \in BOOLEAN
  <2>1. CASE subscribe
    <3>1. inbox # <<>> /\ inbox \in Seq(BOOLEAN)
      BY <2>1, <1>1 DEF subscribe, TypeOK
    <3>2. Head(inbox) \in BOOLEAN /\ Tail(inbox) \in Seq(BOOLEAN)
      BY <3>1
    <3> QED BY <2>1, <3>2 DEF subscribe
  <2>2. CASE MappingMissionManager
    <3> DEFINE values == IF mgrEnabled THEN <<FALSE>> ELSE <<FALSE, TRUE>>
    <3>a. <<FALSE>> \in Seq(BOOLEAN) /\ <<FALSE, TRUE>> \in Seq(BOOLEAN)
      OBVIOUS
    <3>0. values \in Seq(BOOLEAN)
      BY <3>a, Zenon
    <3>1. publishBootstrapFinished(values)
      BY <2>2 DEF MappingMissionManager
    <3> HIDE DEF values
    <3> QED BY <3>0, <2>2, <3>1, <1>1, Publish DEF MappingMissionManager, TypeOK, srvVars
  <2>3. CASE onGridMapSaved
    <3>1. <<TRUE>> \in Seq(BOOLEAN)
      OBVIOUS
    <3> QED BY <2>3, <3>1, <1>1, Publish DEF onGridMapSaved, TypeOK, srvVars
  <2>4. CASE SentryBehaviorServer
    BY <2>4, <1>1 DEF SentryBehaviorServer, TypeOK
  <2>5. CASE UNCHANGED <<inbox, bbFinished>>
    BY <2>5, <1>1 DEF TypeOK
  <2> QED
    BY <2>1, <2>2, <2>3, <2>4, <2>5 DEF Next, onGameStatus, retrySendGoal, onNavResult,
       onBootstrapTimeout, onPcdSaved, NavAnswer, NavFinish, NavCancelAll, srvVars
<1> QED BY <1>1, <1>2, <1>3, <1>4 DEF TypeOK

\* Every step preserves what holds before the start and the order of the saves.
LEMMA NextSaves ==
  ASSUME IInv, Next
  PROVE  BeforeStart' /\ SavesInOrder'
<1>1. TypeOK /\ BeforeStart /\ SavesInOrder /\ OneGuideGoalChain
  BY DEF IInv
<1>2. CASE onGameStatus
  BY <1>1, <1>2 DEF onGameStatus, BeforeStart, SavesInOrder, Saved, saveVars
<1>3. CASE retrySendGoal
  BY <1>1, <1>3 DEF retrySendGoal, BeforeStart, SavesInOrder, Saved, saveVars
<1>4. ASSUME NEW g \in Goals, onNavResult(g)
      PROVE  BeforeStart' /\ SavesInOrder'
  <2>1. started
    BY <1>1, <1>4 DEF onNavResult, BeforeStart, ResultCodes
  <2> QED
    BY <2>1, <1>1, <1>4 DEF onNavResult, BeforeStart, SavesInOrder, Saved, saveVars
<1>5. CASE onBootstrapTimeout
  BY <1>1, <1>5 DEF onBootstrapTimeout, saveMaps, BeforeStart, SavesInOrder, Saved
<1>6. CASE onPcdSaved
  BY <1>1, <1>6 DEF onPcdSaved, BeforeStart, SavesInOrder, Saved, mgrVars, navVars
<1>7. CASE onGridMapSaved
  BY <1>1, <1>7 DEF onGridMapSaved, BeforeStart, SavesInOrder, Saved, navVars
<1>8. ASSUME NEW g \in Goals, NavAnswer(g) \/ NavFinish(g)
      PROVE  BeforeStart' /\ SavesInOrder'
  <2>1. started
    BY <1>1, <1>8 DEF NavAnswer, NavFinish, BeforeStart
  <2>2. UNCHANGED <<mgrVars, saveVars>>
    BY <1>8 DEF NavAnswer, NavFinish
  <2> QED
    BY <2>1, <2>2, <1>1 DEF BeforeStart, SavesInOrder, Saved, saveVars, mgrVars
<1>9. CASE NavCancelAll
  BY <1>1, <1>9 DEF NavCancelAll, BeforeStart, SavesInOrder, Saved, saveVars, mgrVars
<1>10. CASE MappingMissionManager \/ SentryBehaviorServer \/ subscribe
  BY <1>1, <1>10 DEF MappingMissionManager, SentryBehaviorServer, subscribe,
     BeforeStart, SavesInOrder, Saved, saveVars, mgrVars, navVars
<1> QED
  BY <1>2, <1>3, <1>4, <1>5, <1>6, <1>7, <1>8, <1>9, <1>10 DEF Next

\* Every step preserves what the messages and the blackboard may say.
LEMMA NextInbox ==
  ASSUME IInv, Next
  PROVE  InboxInv' /\ ReleasedOnlyAfterSaves'
<1>1. TypeOK /\ BeforeStart /\ SavesInOrder /\ InboxInv /\ ReleasedOnlyAfterSaves
  BY DEF IInv
<1>0. inbox \in Seq(BOOLEAN) /\ Len(inbox) \in Nat
  BY <1>1, LenProperties DEF TypeOK
\* Once both maps are saved they stay saved.
<1>s. Saved => Saved'
  BY <1>1 DEF Next, Saved, SavesInOrder, MappingMissionManager, onGameStatus,
     retrySendGoal, onNavResult, onBootstrapTimeout, onPcdSaved, onGridMapSaved,
     SentryBehaviorServer, subscribe, NavAnswer, NavFinish, NavCancelAll, saveVars
<1>2. CASE UNCHANGED <<mgrEnabled, mgrUp, srvUp, inbox, bbFinished>>
  BY <1>2, <1>1, <1>s DEF InboxInv, ReleasedOnlyAfterSaves, Saved
<1>3. CASE MappingMissionManager
  <2> DEFINE values == IF mgrEnabled THEN <<FALSE>> ELSE <<FALSE, TRUE>>
  <2>1. /\ publishBootstrapFinished(values) /\ inbox = <<>> /\ ~bbFinished /\ mgrUp'
        /\ UNCHANGED <<mgrEnabled, srvUp, bbFinished>>
    BY <1>3, <1>1 DEF MappingMissionManager, InboxInv, srvVars
  <2>2. inbox' = values \/ (~srvUp /\ inbox' = <<>>)
    BY <2>1 DEF publishBootstrapFinished
  <2>3. CASE inbox' = <<>>
    BY <2>1, <2>3 DEF InboxInv, ReleasedOnlyAfterSaves
  <2>4. CASE inbox' = values /\ srvUp /\ mgrEnabled
    <3>1. inbox' = <<FALSE>>
      BY <2>4
    <3>2. Len(inbox') = 1 /\ ~inbox'[1]
      BY <3>1
    <3>3. \A i \in 1..Len(inbox') : ~inbox'[i]
      BY <3>2
    <3> QED BY <2>1, <2>4, <3>3, Zenon DEF InboxInv, ReleasedOnlyAfterSaves
  <2>5. CASE inbox' = values /\ srvUp /\ ~mgrEnabled
    <3>1. inbox' = <<FALSE, TRUE>>
      BY <2>5
    <3>2. Len(inbox') = 2 /\ ~inbox'[1] /\ inbox'[2]
      BY <3>1
    <3>3. \A i, j \in 1..Len(inbox') : i < j => j = 2
      BY <3>2
    <3>4. \A i, j \in 1..Len(inbox') : i < j => inbox'[j]
      BY <3>2, <3>3, Zenon
    <3> QED BY <2>1, <2>5, <3>4, Zenon DEF InboxInv, ReleasedOnlyAfterSaves
  <2> QED BY <2>1, <2>2, <2>3, <2>4, <2>5 DEF publishBootstrapFinished
<1>4. CASE SentryBehaviorServer
  BY <1>4, <1>1, <1>s DEF SentryBehaviorServer, InboxInv, ReleasedOnlyAfterSaves, mgrVars,
     saveVars, Saved
<1>5. CASE subscribe
  <2>1. /\ inbox # <<>> /\ bbFinished' = Head(inbox) /\ inbox' = Tail(inbox)
        /\ UNCHANGED <<mgrEnabled, mgrUp, srvUp, pcd, grid>>
    BY <1>5 DEF subscribe, mgrVars, saveVars
  <2>2. /\ Len(inbox') = Len(inbox) - 1 /\ Len(inbox) >= 1 /\ Head(inbox) = inbox[1]
        /\ \A i \in 1..Len(inbox') : inbox'[i] = inbox[i + 1] /\ i + 1 \in 1..Len(inbox)
    BY <2>1, <1>0, HeadTailProperties
  <2>3. mgrUp /\ srvUp
    BY <2>1, <1>1 DEF InboxInv
  <2>4. mgrEnabled => \A i \in 1..Len(inbox') : inbox'[i] => Saved'
    BY <2>1, <2>2, <1>1 DEF InboxInv, Saved
  <2>5. \A i, j \in 1..Len(inbox') : i < j /\ inbox'[i] => inbox'[j]
    <3> SUFFICES ASSUME NEW i \in 1..Len(inbox'), NEW j \in 1..Len(inbox'),
                        i < j, inbox'[i]
                 PROVE  inbox'[j]
      OBVIOUS
    <3>1. i + 1 < j + 1
      BY <2>2, <1>0
    <3>2. inbox[i + 1]
      BY <2>2, Zenon
    <3>3. inbox[j + 1]
      BY <3>1, <3>2, <2>2, <1>1, Zenon DEF InboxInv
    <3> QED BY <3>3, <2>2, Zenon
  <2>6. bbFinished' => \A i \in 1..Len(inbox') : inbox'[i]
    <3> SUFFICES ASSUME bbFinished', NEW i \in 1..Len(inbox') PROVE inbox'[i]
      OBVIOUS
    <3>0. inbox[1]
      BY <2>1, <2>2, Zenon
    <3>1. 1 \in 1..Len(inbox) /\ i + 1 \in 1..Len(inbox) /\ 1 < i + 1
      BY <2>2, <1>0
    <3>2. inbox[i + 1]
      BY <3>0, <3>1, <1>1, Zenon DEF InboxInv
    <3> QED BY <3>2, <2>2, Zenon
  <2>7. mgrEnabled' /\ bbFinished' => Saved'
    <3>1. 1 \in 1..Len(inbox)
      BY <2>2, <1>0
    <3> QED BY <3>1, <2>1, <2>2, <1>1 DEF InboxInv, Saved
  <2> QED BY <2>1, <2>3, <2>4, <2>5, <2>6, <2>7 DEF InboxInv, ReleasedOnlyAfterSaves, Saved
<1>6. CASE onGridMapSaved
  <2>1. CASE grid' = "saved" /\ publishBootstrapFinished(<<TRUE>>)
    <3>1. Saved'
      BY <1>6, <2>1, <1>1 DEF onGridMapSaved, Saved, SavesInOrder
    <3>2. mgrUp /\ UNCHANGED <<mgrEnabled, mgrUp, srvUp, bbFinished>>
      BY <1>6, <1>1 DEF onGridMapSaved, BeforeStart, srvVars
    <3>t. <<TRUE>> \in Seq(BOOLEAN) /\ Len(<<TRUE>>) = 1 /\ <<TRUE>>[1] = TRUE
      OBVIOUS
    <3>4. Len(inbox') \in Nat /\ (~srvUp => inbox' = inbox)
      BY <2>1, <3>t, <1>0, Publish, LenProperties
    <3>3. \A i \in 1..Len(inbox') :
            \/ i \in 1..Len(inbox) /\ inbox'[i] = inbox[i]
            \/ i = Len(inbox) + 1 /\ inbox'[i] = TRUE
      <4>1. \A i \in 1..Len(inbox') :
              \/ i \in 1..Len(inbox) /\ inbox'[i] = inbox[i]
              \/ /\ i > Len(inbox) /\ i - Len(inbox) \in 1..1
                 /\ inbox'[i] = <<TRUE>>[i - Len(inbox)]
        BY <2>1, <3>t, <1>0, Publish, Zenon
      <4>2. \A i \in 1..Len(inbox') : i - Len(inbox) \in 1..1 =>
              i - Len(inbox) = 1 /\ i = Len(inbox) + 1
        BY <1>0, <3>4
      <4> QED BY <4>1, <4>2, <3>t, Zenon
    <3>5. \A i, j \in 1..Len(inbox') : i < j /\ inbox'[i] => inbox'[j]
      BY <3>3, <3>4, <1>0, <1>1 DEF InboxInv
    <3>6. bbFinished' => \A i \in 1..Len(inbox') : inbox'[i]
      BY <3>2, <3>3, <1>1 DEF InboxInv
    <3> QED BY <3>1, <3>2, <3>4, <3>5, <3>6, <1>1 DEF InboxInv, ReleasedOnlyAfterSaves, Saved
  <2>2. CASE grid' = "failed" /\ UNCHANGED inbox
    BY <1>6, <2>2, <1>2 DEF onGridMapSaved, srvVars
  <2> QED BY <1>6, <2>1, <2>2 DEF onGridMapSaved
<1> QED
  BY <1>2, <1>3, <1>4, <1>5, <1>6 DEF Next, onGameStatus, retrySendGoal, onNavResult,
     onBootstrapTimeout, onPcdSaved, NavAnswer, NavFinish, NavCancelAll, mgrVars, srvVars

\* IInv is an inductive invariant of the mission.
THEOREM Invariance == Spec => []IInv
<1>1. IInv /\ [Next]_vars => IInv'
  <2> SUFFICES ASSUME IInv, [Next]_vars PROVE IInv'
    OBVIOUS
  <2>1. CASE Next
    BY <2>1, NextChain, NextType, NextSaves, NextInbox DEF IInv
  <2>2. CASE UNCHANGED vars
    BY <2>2 DEF vars, mgrVars, navVars, saveVars, srvVars, IInv, TypeOK,
       OneGuideGoalChain, BeforeStart, RetryMeansUnsent, SavesInOrder, InboxInv,
       ReleasedOnlyAfterSaves, Saved
  <2> QED BY <2>1, <2>2
<1> QED BY InitIInv, <1>1, PTL DEF Spec

\* The mission's variables keep their types, goal_index_ its bound included.
THEOREM TypeCorrect == Spec => []TypeOK
  BY Invariance, PTL DEF IInv

\* For every number of guide goals, results, retries and repeated referee
\* messages never fork the chain of guide goals.
THEOREM ChainCorrect == Spec => []OneGuideGoalChain
  BY Invariance, PTL DEF IInv

\* The behaviour tree never sees the flag of an enabled bootstrap before both
\* maps are saved.
THEOREM ReleaseCorrect == Spec => []ReleasedOnlyAfterSaves
  BY Invariance, PTL DEF IInv

\* No message closes the behaviour tree's gate again once it is open.
THEOREM GateCorrect == Spec => GateStaysOpen
<1>1. IInv /\ [Next]_vars => [checkBootstrapStatus => checkBootstrapStatus']_vars
  <2> SUFFICES ASSUME IInv, Next, checkBootstrapStatus PROVE checkBootstrapStatus'
    OBVIOUS
  <2>1. srvUp /\ srvUp' /\ srvEnabled' = srvEnabled
    BY DEF Next, checkBootstrapStatus, MappingMissionManager, onGameStatus,
       retrySendGoal, onNavResult, onBootstrapTimeout, onPcdSaved, onGridMapSaved,
       SentryBehaviorServer, subscribe, NavAnswer, NavFinish, NavCancelAll, srvVars
  <2>2. CASE bbFinished' = bbFinished
    BY <2>1, <2>2 DEF checkBootstrapStatus
  <2>3. CASE subscribe
    <3>1. inbox # <<>> /\ inbox \in Seq(BOOLEAN)
      BY <2>3 DEF subscribe, IInv, TypeOK
    <3>2. 1 \in 1..Len(inbox) /\ Head(inbox) = inbox[1]
      BY <3>1
    <3>3. bbFinished => inbox[1]
      BY <3>2, Zenon DEF IInv, InboxInv
    <3>4. bbFinished' = inbox[1]
      BY <2>3, <3>2 DEF subscribe
    <3> QED BY <2>1, <3>3, <3>4 DEF checkBootstrapStatus
  <2> QED
    BY <2>1, <2>2, <2>3 DEF Next, MappingMissionManager, onGameStatus,
       retrySendGoal, onNavResult, onBootstrapTimeout, onPcdSaved, onGridMapSaved,
       SentryBehaviorServer, NavAnswer, NavFinish, NavCancelAll, srvVars
<1> QED BY Invariance, <1>1, PTL DEF Spec, GateStaysOpen
=============================================================================

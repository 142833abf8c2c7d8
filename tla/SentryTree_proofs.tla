------------------------- MODULE SentryTree_proofs -------------------------
(***************************************************************************)
(* Proofs about the match tree for every set of referee messages, timeout, *)
(* hold time, number of attempts and queue depth.  IInv adds to the two    *)
(* properties how the nodes of a branch depend on its phase, in which      *)
(* phase the dwell check runs, and that an aborted tree is idle.           *)
(***************************************************************************)
EXTENDS SentryTree, SequenceTheorems, TLAPS

BranchInv ==
    /\ \A b \in Branches :
         /\ br[b].nav # "idle" => br[b].phase = "nav"
         /\ br[b].phase = "convert" => b \in Fighting /\ br[b].orig \in {Attack, Defend}
    /\ pc = "baseDwell" => br["base"].phase = "dwell"
    /\ pc = "attackDwell" => br["attack"].phase = "dwell"
    /\ ~treeUp => pc = "idle" /\ \A b \in Branches : br[b].phase = "idle"

IInv == TypeOK /\ OneBranchActive /\ TemporaryStatusOwned /\ BranchInv

\* What a step of the tree changes: the invariant without the other variables.
TreePart ==
    /\ queue \in Seq(Statuses) /\ lastPub \in Statuses \union {NoStatus}
    /\ pc \in StepNames
    /\ br \in [Branches -> BranchStates]
    /\ OneBranchActive /\ TemporaryStatusOwned /\ BranchInv

\* The children of the ReactiveSequence.
Children == {"game", "gate"} \union Branches

\* An idle branch is well formed.
LEMMA IdleState == Idle \in BranchStates
  BY BoundsAssumption DEF Idle, BranchStates, Statuses

\* The inductive invariant holds initially.
LEMMA InitIInv == Init => IInv
<1> SUFFICES ASSUME Init PROVE IInv
  OBVIOUS
<1>1. br \in [Branches -> BranchStates] /\ \A b \in Branches : br[b] = Idle
  BY IdleState DEF Init
<1>2. timer \in [Fighting -> TimerStates]
  BY BoundsAssumption DEF Init, TimerStates, StoppedTimer
<1>3. queue \in Seq(Statuses)
  BY DEF Init
<1>4. TypeOK
  BY <1>1, <1>2, <1>3 DEF Init, TypeOK, StepNames
<1>5. OneBranchActive /\ TemporaryStatusOwned
  BY <1>1 DEF Init, OneBranchActive, TemporaryStatusOwned, Idle, Temporary, NoStatus
<1>6. BranchInv
  BY <1>1 DEF Init, BranchInv, Idle
<1> QED BY <1>4, <1>5, <1>6 DEF IInv

\* The KeepLast history of the subscription holds messages that were published.
LEMMA KeepLastType ==
  ASSUME NEW s \in Seq(Statuses)
  PROVE  KeepLast(s) \in Seq(Statuses)
<1>1. CASE Len(s) <= QueueDepth
  BY <1>1 DEF KeepLast
<1>2. CASE ~(Len(s) <= QueueDepth)
  <2>1. Len(s) \in Nat /\ Len(s) - QueueDepth + 1 \in 1..Len(s)
    BY <1>2, BoundsAssumption, LenProperties
  <2>2. \A i \in Len(s) - QueueDepth + 1..Len(s) : s[i] \in Statuses
    BY <2>1, BoundsAssumption, ElementOfSeq
  <2>3. SubSeq(s, Len(s) - QueueDepth + 1, Len(s)) \in Seq(Statuses)
    BY <2>1, <2>2, SubSeqProperties
  <2> QED BY <1>2, <2>3 DEF KeepLast
<1> QED BY <1>1, <1>2

\* Only two branches hold a StatusConvert and at most one of them is active:
\* halting the others publishes nothing, or one original status.
LEMMA HaltOthersValue ==
  ASSUME IInv, NEW b \in Children
  PROVE  \/ /\ HaltOthers(b) = <<>>
            /\ \A a \in Fighting : br[a].phase = "convert" => a = b
         \/ \E o \in {Attack, Defend} : HaltOthers(b) = <<o>>
<1>1. \A a \in Fighting : br[a].phase = "convert" => br[a].orig \in {Attack, Defend}
  BY DEF IInv, BranchInv, Fighting, Branches
<1>2. ~(br["base"].phase = "convert" /\ br["attack"].phase = "convert")
  BY DEF IInv, OneBranchActive, Branches
<1>3. CASE b # "base" /\ br["base"].phase = "convert"
  <2>1. onHalted("base") = <<br["base"].orig>> /\ onHalted("attack") = <<>>
    BY <1>2, <1>3 DEF onHalted
  <2>2. <<br["base"].orig>> \in Seq(Statuses)
    BY <1>1, <1>3 DEF Fighting, Statuses
  <2>3. HaltOthers(b) = <<br["base"].orig>>
    BY <2>1, <2>2, <1>3, ConcatEmptySeq DEF HaltOthers
  <2> QED BY <2>3, <1>1, <1>3 DEF Fighting
<1>4. CASE b # "attack" /\ br["attack"].phase = "convert"
  <2>1. onHalted("attack") = <<br["attack"].orig>> /\ onHalted("base") = <<>>
    BY <1>2, <1>4 DEF onHalted
  <2>2. <<br["attack"].orig>> \in Seq(Statuses)
    BY <1>1, <1>4 DEF Fighting, Statuses
  <2>3. HaltOthers(b) = <<br["attack"].orig>>
    BY <2>1, <2>2, <1>4, ConcatEmptySeq DEF HaltOthers
  <2> QED BY <2>3, <1>1, <1>4 DEF Fighting
<1>5. CASE /\ b # "base" => br["base"].phase # "convert"
           /\ b # "attack" => br["attack"].phase # "convert"
  BY <1>5 DEF HaltOthers, onHalted, Fighting
<1> QED BY <1>3, <1>4, <1>5

\* What is left on /sentry_status when child b has published pubs and the
\* others are halted.  Only a conversion of b itself leaves the temporary one.
LEMMA PublishHalting ==
  ASSUME IInv, NEW b \in Children, NEW pubs \in Seq(Statuses), Len(pubs) <= 1,
         Publish(pubs \o HaltOthers(b))
  PROVE  /\ queue' \in Seq(Statuses) /\ lastPub' \in Statuses \union {NoStatus}
         /\ \/ lastPub' # Temporary
            \/ pubs # <<>> /\ pubs[1] = Temporary
            \/ pubs = <<>> /\ b \in Fighting /\ br[b].phase = "convert"
<1>t. queue \in Seq(Statuses) /\ lastPub \in Statuses \union {NoStatus}
  BY DEF IInv, TypeOK
<1>q. ASSUME NEW s \in Seq(Statuses), queue' = KeepLast(queue \o s)
      PROVE  queue' \in Seq(Statuses)
  BY <1>q, <1>t, KeepLastType, ConcatProperties
<1>l. pubs # <<>> => Len(pubs) = 1 /\ pubs[1] \in Statuses
  <2>1. Len(pubs) \in Nat /\ (pubs # <<>> => Len(pubs) # 0)
    BY EmptySeq, LenProperties
  <2>2. \A n \in Nat : n <= 1 /\ n # 0 => n = 1
    OBVIOUS
  <2>3. Len(pubs) = 1 => pubs[1] \in Statuses
    BY ElementOfSeq
  <2> QED BY <2>1, <2>2, <2>3
<1>1. CASE /\ HaltOthers(b) = <<>>
           /\ \A a \in Fighting : br[a].phase = "convert" => a = b
  <2>1. pubs \o HaltOthers(b) = pubs
    BY <1>1, ConcatEmptySeq
  <2>2. queue' = KeepLast(queue \o pubs) /\ lastPub' = IF pubs = <<>> THEN lastPub ELSE LastOf(pubs)
    BY <2>1 DEF Publish
  <2>3. CASE pubs = <<>>
    <3>1. lastPub' = lastPub
      BY <2>2, <2>3
    <3>2. lastPub = Temporary => b \in Fighting /\ br[b].phase = "convert"
      BY <1>1 DEF IInv, TemporaryStatusOwned
    <3> QED BY <3>1, <3>2, <2>2, <2>3, <1>q, <1>t
  <2>4. CASE pubs # <<>>
    <3>1. lastPub' = pubs[1]
      BY <2>2, <2>4, <1>l DEF LastOf
    <3> QED BY <3>1, <2>2, <2>4, <1>q, <1>l
  <2> QED BY <2>3, <2>4
<1>2. ASSUME NEW o \in {Attack, Defend}, HaltOthers(b) = <<o>>
      PROVE  queue' \in Seq(Statuses) /\ lastPub' \in Statuses /\ lastPub' # Temporary
  <2>1. <<o>> \in Seq(Statuses) /\ Len(<<o>>) = 1 /\ <<o>>[1] = o /\ Len(pubs) \in Nat
    BY LenProperties DEF Statuses
  <2> DEFINE s == pubs \o <<o>>
  <2>2. s \in Seq(Statuses) /\ Len(s) = Len(pubs) + 1 /\ s[Len(pubs) + 1] = o
    <3>1. /\ s \in Seq(Statuses) /\ Len(s) = Len(pubs) + Len(<<o>>)
          /\ \A i \in 1..Len(pubs) + Len(<<o>>) :
               s[i] = IF i <= Len(pubs) THEN pubs[i] ELSE <<o>>[i - Len(pubs)]
      BY <2>1, ConcatProperties
    <3>2. Len(pubs) + 1 \in 1..Len(pubs) + Len(<<o>>) /\ ~(Len(pubs) + 1 <= Len(pubs))
          /\ Len(pubs) + 1 - Len(pubs) = 1
      BY <2>1
    <3> HIDE DEF s
    <3> QED BY <3>1, <3>2, <2>1
  <2>3. Publish(s)
    BY <1>2
  <2> HIDE DEF s
  <2>4. s # <<>>
    BY <2>2, <2>1
  <2>5. lastPub' = o /\ queue' = KeepLast(queue \o s)
    BY <2>2, <2>3, <2>4 DEF Publish, LastOf
  <2>6. queue' \in Seq(Statuses)
    BY <2>5, <2>2, <1>q
  <2> QED BY <2>5, <2>6 DEF Statuses, Attack, Defend, Temporary
<1> QED BY <1>1, <1>2, HaltOthersValue

\* Running keeps the invariant: b may hold the temporary status only while it
\* is converting.
LEMMA RunningInv ==
  ASSUME IInv, treeUp, UNCHANGED treeUp,
         NEW b \in Branches, NEW s \in BranchStates, NEW pubs \in Seq(Statuses),
         Len(pubs) <= 1,
         s.nav # "idle" => s.phase = "nav",
         s.phase = "convert" => b \in Fighting /\ s.orig \in {Attack, Defend},
         s.phase # "convert" => /\ br[b].phase # "convert"
                                /\ pubs # <<>> => pubs[1] # Temporary,
         Running(b, s, pubs)
  PROVE  TreePart'
<1>1. \A x \in Branches : br'[x] = IF x = b THEN s ELSE Idle
  BY DEF Running
<1>2. br' \in [Branches -> BranchStates] /\ pc' = "idle"
  BY IdleState DEF Running
<1>3. b \in Children /\ Publish(pubs \o HaltOthers(b))
  BY DEF Children, Running
<1>4. /\ queue' \in Seq(Statuses) /\ lastPub' \in Statuses \union {NoStatus}
      /\ \/ lastPub' # Temporary
         \/ pubs # <<>> /\ pubs[1] = Temporary
         \/ pubs = <<>> /\ b \in Fighting /\ br[b].phase = "convert"
  BY <1>3, PublishHalting
<1>5. OneBranchActive'
  BY <1>1 DEF OneBranchActive, Idle
<1>6. TemporaryStatusOwned'
  <2> SUFFICES ASSUME lastPub' = Temporary
               PROVE  \E a \in Fighting : br'[a].phase = "convert"
    BY DEF TemporaryStatusOwned
  <2>1. s.phase = "convert" /\ b \in Fighting
    BY <1>4
  <2> QED BY <2>1, <1>1
<1>7. BranchInv'
  BY <1>1, <1>2 DEF BranchInv, Idle
<1> QED BY <1>2, <1>4, <1>5, <1>6, <1>7 DEF TreePart, StepNames

\* Finished keeps the invariant: every branch is idle and the temporary status
\* is gone.
LEMMA FinishedInv ==
  ASSUME IInv, treeUp, UNCHANGED treeUp,
         NEW b \in Children, NEW pubs \in Seq(Statuses), Len(pubs) <= 1,
         pubs # <<>> => pubs[1] # Temporary,
         pubs = <<>> => (b \in Branches => br[b].phase # "convert"),
         Finished(b, pubs)
  PROVE  TreePart'
<1>1. (\A x \in Branches : br'[x] = Idle) /\ br' \in [Branches -> BranchStates] /\ pc' = "idle"
  BY IdleState DEF Finished
<1>2. queue' \in Seq(Statuses) /\ lastPub' \in Statuses \union {NoStatus} /\ lastPub' # Temporary
  <2>1. Publish(pubs \o HaltOthers(b)) /\ (b \in Fighting => b \in Branches)
    BY DEF Finished, Fighting, Branches
  <2> QED BY <2>1, PublishHalting
<1>3. OneBranchActive' /\ TemporaryStatusOwned' /\ BranchInv'
  BY <1>1, <1>2 DEF OneBranchActive, TemporaryStatusOwned, BranchInv, Idle
<1> QED BY <1>1, <1>2, <1>3 DEF TreePart, StepNames

\* The outcomes of the retry decorator in a well-formed branch state.
LEMMA RetryOutcomes ==
  ASSUME NEW s \in BranchStates, NEW o \in RetryUntilSuccessful(s)
  PROVE  /\ o.result = "RUNNING" =>
              /\ o.nav \in {"idle", "running"} /\ o.tries \in 0..NumAttempts - 1
              /\ Navigating(o.nav, o.tries) \in BranchStates
         /\ o.result = "SUCCESS" => s.nav = "succeeded"
<1>1. s.nav \in {"idle", "running", "succeeded", "failed"} /\ s.tries \in 0..NumAttempts - 1
  BY DEF BranchStates
<1>2. \A n \in 0..NumAttempts - 1 : \A p \in Attempt(n) :
        /\ p.result \in {"RUNNING", "FAILURE"}
        /\ p.result = "RUNNING" => p.nav \in {"idle", "running"} /\ p.tries \in 0..NumAttempts - 1
  BY BoundsAssumption DEF Attempt
<1>3. /\ o.result = "RUNNING" => o.nav \in {"idle", "running"} /\ o.tries \in 0..NumAttempts - 1
      /\ o.result = "SUCCESS" => s.nav = "succeeded"
  <2>1. CASE s.nav = "running"
    BY <2>1, <1>1 DEF RetryUntilSuccessful
  <2>2. CASE s.nav = "succeeded"
    BY <2>2 DEF RetryUntilSuccessful
  <2>3. CASE s.nav = "failed" /\ s.tries + 1 >= NumAttempts
    BY <2>3 DEF RetryUntilSuccessful
  <2>4. CASE s.nav = "failed" /\ ~(s.tries + 1 >= NumAttempts)
    <3>1. o \in Attempt(s.tries + 1) /\ s.tries + 1 \in 0..NumAttempts - 1
      BY <2>4, <1>1, BoundsAssumption DEF RetryUntilSuccessful
    <3> QED BY <3>1, <1>2
  <2>5. CASE s.nav = "idle"
    <3>1. o \in Attempt(s.tries)
      BY <2>5 DEF RetryUntilSuccessful
    <3> QED BY <3>1, <1>1, <1>2
  <2> QED BY <1>1, <2>1, <2>2, <2>3, <2>4, <2>5
<1>4. o.result = "RUNNING" =>
        Navigating(o.nav, o.tries) \in BranchStates
  <2> SUFFICES ASSUME o.result = "RUNNING"
               PROVE  Navigating(o.nav, o.tries)
                        \in BranchStates
    OBVIOUS
  <2>1. o.nav \in {"idle", "running"} /\ o.tries \in 0..NumAttempts - 1
    BY <1>3
  <2> QED BY <2>1, BoundsAssumption DEF Navigating, BranchStates
<1> QED BY <1>3, <1>4

\* The navigation child of a branch that is not converting keeps the invariant.
LEMMA NavigateInv ==
  ASSUME IInv, treeUp, UNCHANGED treeUp,
         NEW b \in Fighting, br[b].phase # "convert",
         NEW pubs \in {<<>>, <<Defend>>}, NEW onSuccess \in {<<>>, <<Attack>>},
         br[b].phase = "nav" => pubs = <<>>,
         Navigate(b, pubs, onSuccess)
  PROVE  TreePart'
<1>t. /\ br \in [Branches -> BranchStates] /\ b \in Branches /\ b \in Children
      /\ lastPub \in Statuses \union {NoStatus} /\ queue \in Seq(Statuses)
  BY DEF IInv, TypeOK, Fighting, Branches, Children
<1>p. pubs \in Seq(Statuses) /\ Len(pubs) <= 1 /\ (pubs # <<>> => pubs[1] # Temporary)
  <2>1. CASE pubs = <<>>
    BY <2>1
  <2>2. CASE pubs = <<Defend>>
    BY <2>2 DEF Statuses, Defend, Temporary
  <2> QED BY <2>1, <2>2
<1>1. PICK o \in RetryUntilSuccessful(br[b]) :
        \/ /\ o.result = "RUNNING"
           /\ Running(b, Navigating(o.nav, o.tries), pubs)
        \/ o.result = "FAILURE" /\ Finished(b, pubs)
        \/ /\ o.result = "SUCCESS"
           /\ Publish(pubs \o onSuccess)
           /\ br' = [br EXCEPT ![b] = Dwelling]
           /\ pc' = IF b = "base" THEN "baseDwell" ELSE "attackDwell"
  BY DEF Navigate
<1>2. CASE /\ o.result = "RUNNING"
           /\ Running(b, Navigating(o.nav, o.tries), pubs)
  <2> DEFINE s == Navigating(o.nav, o.tries)
  <2>1. s \in BranchStates
    BY <1>2, <1>t, RetryOutcomes
  <2>2. s.phase = "nav" /\ Running(b, s, pubs)
    BY <1>2 DEF Navigating
  <2> HIDE DEF s
  <2> QED BY <2>1, <2>2, <1>t, <1>p, RunningInv
<1>3. CASE Finished(b, pubs)
  BY <1>3, <1>t, <1>p, FinishedInv
<1>4. CASE /\ o.result = "SUCCESS"
           /\ Publish(pubs \o onSuccess)
           /\ br' = [br EXCEPT ![b] = Dwelling]
           /\ pc' = IF b = "base" THEN "baseDwell" ELSE "attackDwell"
  <2> DEFINE s == Dwelling
  <2>1. br[b].phase = "nav" /\ pubs = <<>>
    <3>1. br[b].nav = "succeeded"
      BY <1>4, <1>t, RetryOutcomes
    <3> QED BY <3>1, <1>t DEF IInv, BranchInv
  <2>2. \A x \in Branches : x # b => br[x].phase = "idle"
    BY <2>1, <1>t DEF IInv, OneBranchActive
  <2>3. lastPub # Temporary
    BY <2>1, <2>2 DEF IInv, TemporaryStatusOwned, Fighting, Branches
  <2>4. s \in BranchStates /\ s.phase = "dwell" /\ s.nav = "idle"
    BY BoundsAssumption DEF Dwelling, BranchStates, Statuses
  <2>5. br' = [br EXCEPT ![b] = s]
    BY <1>4
  <2> HIDE DEF s
  <2>6. br' \in [Branches -> BranchStates] /\ br'[b] = s
        /\ \A x \in Branches : x # b => br'[x] = br[x]
    BY <2>4, <2>5, <1>t
  <2>7. queue' \in Seq(Statuses) /\ lastPub' \in Statuses \union {NoStatus} /\ lastPub' # Temporary
    <3>1. CASE onSuccess = <<>>
      <4>1. Publish(<<>>)
        BY <3>1, <2>1, <1>4
      <4>2. queue' = KeepLast(queue) /\ lastPub' = lastPub
        BY <4>1, <1>t, ConcatEmptySeq DEF Publish
      <4> QED BY <4>2, <2>3, <1>t, KeepLastType
    <3>2. CASE onSuccess = <<Attack>>
      <4>0. <<Attack>> \in Seq(Statuses) /\ <<Attack>> # <<>> /\ <<Attack>>[1] = Attack
            /\ Len(<<Attack>>) = 1
        BY DEF Statuses
      <4>1. Publish(<<Attack>>)
        BY <3>2, <2>1, <1>4, <4>0, ConcatEmptySeq
      <4>2. queue' = KeepLast(queue \o <<Attack>>) /\ lastPub' = Attack
        BY <4>1, <4>0 DEF Publish, LastOf
      <4>3. queue' \in Seq(Statuses)
        BY <4>2, <4>0, <1>t, KeepLastType, ConcatProperties
      <4> QED BY <4>2, <4>3 DEF Statuses, Attack, Temporary
    <3> QED BY <3>1, <3>2
  <2>8. OneBranchActive' /\ TemporaryStatusOwned'
    BY <2>2, <2>6, <2>7 DEF OneBranchActive, TemporaryStatusOwned
  <2>9. BranchInv'
    BY <2>2, <2>4, <2>6, <1>4 DEF BranchInv, IInv, Fighting, Branches
  <2> QED BY <2>6, <2>7, <2>8, <2>9, <1>4 DEF TreePart, StepNames
<1> QED BY <1>1, <1>2, <1>3, <1>4

\* StatusConvert::onRunning keeps the invariant.
LEMMA OnRunningInv ==
  ASSUME IInv, treeUp, UNCHANGED treeUp,
         NEW b \in Fighting, br[b].phase = "convert", onRunning(b)
  PROVE  TreePart'
<1>t. br[b] \in BranchStates /\ b \in Branches /\ b \in Children
  BY DEF IInv, TypeOK, Fighting, Branches, Children
<1>o. /\ br[b].nav # "idle" => br[b].phase = "nav"
      /\ br[b].orig \in {Attack, Defend}
  BY <1>t DEF IInv, BranchInv
<1>1. CASE Running(b, br[b], <<>>)
  <2>1. <<>> \in Seq(Statuses) /\ Len(<<>>) <= 1
    OBVIOUS
  <2> QED BY <1>1, <2>1, <1>t, <1>o, RunningInv
<1>2. CASE Finished(b, <<br[b].orig>>)
  <2>1. /\ <<br[b].orig>> \in Seq(Statuses) /\ Len(<<br[b].orig>>) <= 1
        /\ <<br[b].orig>> # <<>> /\ <<br[b].orig>>[1] # Temporary
    BY <1>o DEF Statuses, Attack, Defend, Temporary
  <2> QED BY <1>2, <2>1, <1>t, FinishedInv
<1> QED BY <1>1, <1>2 DEF onRunning

\* A child that returns SUCCESS keeps the invariant.
LEMMA PassedInv ==
  ASSUME IInv, treeUp, UNCHANGED treeUp,
         NEW step \in {"gate", "robot", "base", "attack"}, Passed(step)
  PROVE  TreePart'
  BY DEF IInv, TypeOK, Passed, TreePart, topicVars, StepNames, OneBranchActive,
     TemporaryStatusOwned, BranchInv

\* Every child of the ReactiveSequence keeps the invariant.
LEMMA ChildrenInv ==
  ASSUME IInv, \/ check_game_start \/ check_mapping_bootstrap
               \/ check_robot_status \/ IsBaseOK \/ OffenceAndDefence
  PROVE  TreePart'
<1>t. /\ treeUp /\ UNCHANGED treeUp
      /\ br \in [Branches -> BranchStates]
  BY DEF check_game_start, check_mapping_bootstrap, check_robot_status, IsBaseOK,
     OffenceAndDefence, IInv, TypeOK, BranchInv
<1>p. /\ <<>> \in Seq(Statuses) /\ Len(<<>>) <= 1
      /\ <<Defend>> \in Seq(Statuses) /\ Len(<<Defend>>) <= 1
      /\ <<Defend>>[1] # Temporary /\ <<Defend>> # <<>>
  BY DEF Statuses, Defend, Temporary
<1>b. /\ "robot" \in Branches /\ {"game", "gate", "robot"} \subseteq Children
      /\ {"base", "attack"} = Fighting /\ "game" \notin Branches /\ "gate" \notin Branches
  BY DEF Branches, Children, Fighting
<1>1. CASE check_game_start
  <2>1. Passed("gate") \/ Finished("game", <<Defend>>)
    BY <1>1 DEF check_game_start
  <2> QED BY <2>1, <1>t, <1>p, <1>b, PassedInv, FinishedInv
<1>2. CASE check_mapping_bootstrap
  <2>1. Passed("robot") \/ Finished("gate", <<>>)
    BY <1>2 DEF check_mapping_bootstrap
  <2> QED BY <2>1, <1>t, <1>p, <1>b, PassedInv, FinishedInv
<1>3. CASE check_robot_status
  <2>0. br["robot"].phase # "convert" /\ br["robot"] \in BranchStates
        /\ (br["robot"].nav # "idle" => br["robot"].phase = "nav")
    BY <1>t, <1>b DEF IInv, BranchInv, Fighting
  <2>1. \/ Passed("base")
        \/ Finished("robot", <<>>) \/ Finished("robot", <<Defend>>)
        \/ Running("robot", Navigating("running", 0), <<Defend>>)
        \/ Running("robot", br["robot"], <<>>)
    BY <1>3 DEF check_robot_status
  <2>2. CASE Passed("base")
    BY <2>2, <1>t, PassedInv
  <2>3. CASE Finished("robot", <<>>) \/ Finished("robot", <<Defend>>)
    BY <2>3, <2>0, <1>t, <1>p, <1>b, FinishedInv
  <2>4. CASE Running("robot", Navigating("running", 0), <<Defend>>)
    <3>1. Navigating("running", 0) \in BranchStates /\ Navigating("running", 0).phase = "nav"
      BY BoundsAssumption DEF Navigating, BranchStates
    <3> QED BY <3>1, <2>4, <2>0, <1>t, <1>p, <1>b, RunningInv
  <2>5. CASE Running("robot", br["robot"], <<>>)
    BY <2>5, <2>0, <1>t, <1>p, <1>b, RunningInv
  <2> QED BY <2>1, <2>2, <2>3, <2>4, <2>5
<1>4. CASE IsBaseOK
  <2>1. CASE br["base"].phase = "idle" /\ Passed("attack")
    BY <2>1, <1>t, PassedInv
  <2>2. CASE br["base"].phase = "idle" /\ Navigate("base", <<Defend>>, <<>>)
    BY <2>2, <1>t, <1>b, NavigateInv
  <2>3. CASE br["base"].phase = "nav" /\ Navigate("base", <<>>, <<>>)
    BY <2>3, <1>t, <1>b, NavigateInv
  <2>4. CASE br["base"].phase = "convert" /\ onRunning("base")
    BY <2>4, <1>t, <1>b, OnRunningInv
  <2> QED BY <1>4, <2>1, <2>2, <2>3, <2>4 DEF IsBaseOK
<1>5. CASE OffenceAndDefence
  <2>1. CASE br["attack"].phase \in {"idle", "nav"} /\ Navigate("attack", <<>>, <<Attack>>)
    BY <2>1, <1>t, <1>b, NavigateInv
  <2>2. CASE br["attack"].phase = "convert" /\ onRunning("attack")
    BY <2>2, <1>t, <1>b, OnRunningInv
  <2> QED BY <1>5, <2>1, <2>2 DEF OffenceAndDefence
<1> QED BY <1>1, <1>2, <1>3, <1>4, <1>5

\* The dwell check and StatusConvert::onStart keep the invariant.
LEMMA DwellInv ==
  ASSUME IInv, NEW b \in Fighting, StatusOuttimeConvert(b)
  PROVE  TreePart' /\ timer' \in [Fighting -> TimerStates] /\ treeUp' \in BOOLEAN
<1>t. /\ treeUp /\ br \in [Branches -> BranchStates] /\ timer \in [Fighting -> TimerStates]
      /\ br[b].phase = "dwell" /\ b \in Branches /\ b \in Children
      /\ bbStatus \in Statuses \union {NoStatus}
      /\ queue \in Seq(Statuses) /\ lastPub \in Statuses \union {NoStatus}
  BY DEF StatusOuttimeConvert, IInv, TypeOK, BranchInv, Fighting, Branches, Children
<1>p. /\ <<>> \in Seq(Statuses) /\ Len(<<>>) <= 1
      /\ <<Temporary>> \in Seq(Statuses) /\ Len(<<Temporary>>) <= 1
  BY DEF Statuses, Temporary
<1>i. \A x \in Branches : x # b => br[x].phase = "idle"
  BY <1>t DEF IInv, OneBranchActive
<1>l. lastPub # Temporary
  BY <1>t, <1>i DEF IInv, TemporaryStatusOwned, Fighting, Branches
<1>1. CASE MissingStatus(b)
  <2>1. /\ treeUp' = FALSE /\ pc' = "idle" /\ br' \in [Branches -> BranchStates]
        /\ br'[b] = Idle /\ \A x \in Branches : x # b => br'[x] = br[x]
        /\ UNCHANGED <<queue, lastPub, timer>>
    BY <1>1, <1>t, IdleState DEF MissingStatus, topicVars
  <2>2. \A x \in Branches : br'[x].phase = "idle"
    BY <2>1, <1>i DEF Idle
  <2>3. OneBranchActive' /\ TemporaryStatusOwned'
    BY <2>1, <2>2, <1>l DEF OneBranchActive, TemporaryStatusOwned
  <2>4. BranchInv'
    BY <2>1, <2>2, <1>i DEF BranchInv, IInv, Idle
  <2> QED BY <2>1, <2>3, <2>4, <1>t DEF TreePart, StepNames
<1>2. ASSUME NEW t \in TimerStates, TimeOK(b, t)
      PROVE  TreePart' /\ timer' \in [Fighting -> TimerStates] /\ treeUp' \in BOOLEAN
  <2>1. timer' \in [Fighting -> TimerStates] /\ UNCHANGED treeUp /\ Finished(b, <<>>)
    BY <1>2, <1>t DEF TimeOK
  <2>2. TreePart'
    BY <2>1, <1>t, <1>p, FinishedInv
  <2> QED BY <2>1, <2>2, <1>t
<1>3. CASE bbStatus # NoStatus /\ onStart(b)
  <2>0. timer' = timer /\ treeUp' = treeUp
    BY <1>3 DEF onStart
  <2>1. CASE Finished(b, <<>>)
    BY <2>0, <2>1, <1>t, <1>p, FinishedInv
  <2>2. CASE bbStatus # Temporary /\ Running(b, Converting(bbStatus, Hold), <<Temporary>>)
    <3> DEFINE s == Converting(bbStatus, Hold)
    <3>1. bbStatus \in {Attack, Defend}
      BY <1>3, <2>2, <1>t DEF Statuses
    <3>2. /\ s \in BranchStates /\ s.phase = "convert" /\ s.nav = "idle" /\ s.orig = bbStatus
      BY <3>1, BoundsAssumption DEF Converting, BranchStates, Statuses
    <3>3. Running(b, s, <<Temporary>>)
      BY <2>2
    <3> HIDE DEF s
    <3>4. TreePart'
      BY <3>1, <3>2, <3>3, <2>0, <1>t, <1>p, RunningInv
    <3> QED BY <3>4, <2>0, <1>t
  <2> QED BY <1>3, <2>1, <2>2 DEF onStart
<1>4. /\ StoppedTimer \in TimerStates /\ timer[b] \in TimerStates
      /\ [started |-> TRUE, last |-> bbStatus, age |-> 0] \in TimerStates
  BY <1>t, BoundsAssumption DEF StoppedTimer, TimerStates
<1> QED BY <1>1, <1>2, <1>3, <1>4 DEF StatusOuttimeConvert, checkStatusTime

\* The parts of a step that change no branch's phase keep the invariant.
LEMMA SamePhases ==
  ASSUME IInv, br' \in [Branches -> BranchStates], UNCHANGED <<queue, lastPub, treeUp>>,
         \A b \in Branches : /\ br'[b].phase = br[b].phase /\ br'[b].orig = br[b].orig
                             /\ br'[b].nav # "idle" => br[b].nav # "idle",
         \/ pc' = pc
         \/ treeUp /\ pc' = "game"
  PROVE  TreePart'
<1>1. \A b \in Fighting : b \in Branches
  BY DEF Fighting, Branches
<1>2. OneBranchActive' /\ TemporaryStatusOwned'
  BY <1>1 DEF IInv, OneBranchActive, TemporaryStatusOwned
<1>3. BranchInv'
  BY DEF IInv, BranchInv, Branches
<1> QED BY <1>2, <1>3 DEF IInv, TypeOK, TreePart, StepNames

\* Every step preserves the invariant.
LEMMA NextIInv == IInv /\ [Next]_vars => IInv'
<1> SUFFICES ASSUME IInv, [Next]_vars PROVE IInv'
  OBVIOUS
<1>t. TypeOK /\ TreePart
  BY DEF IInv, TypeOK, TreePart
<1>r. ASSUME UNCHANGED <<refereeVars, bbStatus>>, TreePart', treeUp' \in BOOLEAN,
             timer' \in [Fighting -> TimerStates]
      PROVE  IInv'
  BY <1>r, <1>t DEF refereeVars, TypeOK, TreePart, IInv
<1>1. CASE \/ check_game_start \/ check_mapping_bootstrap
           \/ check_robot_status \/ IsBaseOK \/ OffenceAndDefence
  <2>1. UNCHANGED <<refereeVars, bbStatus, treeUp, timer>>
    BY <1>1 DEF check_game_start, check_mapping_bootstrap, check_robot_status, IsBaseOK,
       OffenceAndDefence
  <2>2. TreePart'
    BY <1>1, ChildrenInv
  <2> QED BY <2>1, <2>2, <1>t, <1>r DEF TypeOK
<1>2. ASSUME NEW b \in Fighting, StatusOuttimeConvert(b)
      PROVE  IInv'
  <2>1. UNCHANGED <<refereeVars, bbStatus>>
    BY <1>2 DEF StatusOuttimeConvert
  <2>2. TreePart' /\ timer' \in [Fighting -> TimerStates] /\ treeUp' \in BOOLEAN
    BY <1>2, DwellInv
  <2> QED BY <2>1, <2>2, <1>r
<1>3. CASE StartTick
  <2>2. timer' \in [Fighting -> TimerStates]
    <3> SUFFICES ASSUME NEW b \in Fighting
                 PROVE  (IF timer[b].started
                         THEN [timer[b] EXCEPT !.age = Lesser(@ + 1, Timeout + 1)]
                         ELSE timer[b]) \in TimerStates
      BY <1>3 DEF StartTick
    <3>1. timer[b] \in TimerStates /\ Lesser(timer[b].age + 1, Timeout + 1) \in 0..Timeout + 1
      BY <1>t, BoundsAssumption DEF TypeOK, TimerStates, Lesser
    <3> QED BY <3>1 DEF TimerStates
  <2>3. \A b \in Branches :
          /\ br'[b] = IF br[b].left > 0 THEN [br[b] EXCEPT !.left = br[b].left - 1] ELSE br[b]
          /\ br[b] \in BranchStates
    BY <1>3, <1>t DEF StartTick, TypeOK
  <2>4. \A b \in Branches :
          /\ br'[b] \in BranchStates /\ br'[b].phase = br[b].phase
          /\ br'[b].nav = br[b].nav /\ br'[b].orig = br[b].orig
    <3> SUFFICES ASSUME NEW b \in Branches
                 PROVE  /\ br'[b] \in BranchStates /\ br'[b].phase = br[b].phase
                        /\ br'[b].nav = br[b].nav /\ br'[b].orig = br[b].orig
      OBVIOUS
    <3>1. CASE br[b].left > 0
      <4>1. br'[b] = [br[b] EXCEPT !.left = br[b].left - 1] /\ br[b] \in BranchStates
        BY <3>1, <2>3
      <4>2. br[b].left - 1 \in 0..Hold
        <5>1. br[b].left \in 0..Hold
          BY <4>1 DEF BranchStates
        <5> QED BY <5>1, <3>1, BoundsAssumption
      <4> QED BY <4>1, <4>2 DEF BranchStates
    <3>2. CASE ~(br[b].left > 0)
      BY <3>2, <2>3
    <3> QED BY <3>1, <3>2
  <2>5. br' \in [Branches -> BranchStates]
    BY <1>3, <2>4 DEF StartTick
  <2>6. UNCHANGED <<refereeVars, queue, lastPub, bbStatus, treeUp>> /\ treeUp /\ pc' = "game"
    BY <1>3 DEF StartTick, topicVars
  <2>7. TreePart'
    BY <2>4, <2>5, <2>6, SamePhases
  <2> QED BY <2>2, <2>6, <2>7, <1>t DEF refereeVars, TypeOK, TreePart, IInv
<1>4. CASE ExecuteAgain
  <2>1. /\ \A b \in Branches : br'[b] = Idle
        /\ br' \in [Branches -> BranchStates] /\ treeUp' = TRUE /\ pc' = "idle"
    BY <1>4, IdleState DEF ExecuteAgain, IInv, BranchInv
  <2>2. timer' \in [Fighting -> TimerStates]
    BY <1>4, BoundsAssumption DEF ExecuteAgain, StoppedTimer, TimerStates
  <2>3. lastPub # Temporary
    BY <1>4 DEF ExecuteAgain, IInv, BranchInv, TemporaryStatusOwned, Fighting, Branches
  <2>4. UNCHANGED <<refereeVars, queue, lastPub, bbStatus>>
    BY <1>4 DEF ExecuteAgain, topicVars
  <2>5. OneBranchActive' /\ TemporaryStatusOwned' /\ BranchInv'
    BY <2>1, <2>3, <2>4 DEF OneBranchActive, TemporaryStatusOwned, BranchInv, Idle
  <2>6. TreePart'
    BY <2>1, <2>4, <2>5, <1>t DEF TreePart, StepNames
  <2> QED BY <2>1, <2>2, <2>4, <2>6, <1>r
<1>5. CASE RefereeMsg
  <2>1. UNCHANGED <<queue, lastPub, bbStatus, treeUp, pc, br, timer>>
    BY <1>5 DEF RefereeMsg, topicVars
  <2>2. TreePart'
    BY <2>1, <1>t, SamePhases DEF TypeOK
  <2>3. /\ bbGame' \in GameMsgs \union {NoMsg} /\ bbRobot' \in RobotMsgs \union {NoMsg}
        /\ bbRfid' \in RfidMsgs \union {NoMsg} /\ bbEvent' \in EventMsgs \union {NoMsg}
        /\ gate' \in BOOLEAN
    BY <1>5, <1>t, Zenon DEF RefereeMsg, TypeOK
  <2> QED BY <2>1, <2>2, <2>3, <1>t DEF TypeOK, TreePart, IInv
<1>6. CASE StatusMsg
  <2>1. UNCHANGED <<refereeVars, lastPub, treeUp, pc, br, timer>>
    BY <1>6 DEF StatusMsg
  <2>2. Head(queue) \in Statuses /\ Tail(queue) \in Seq(Statuses)
    BY <1>6, <1>t, HeadTailProperties DEF StatusMsg, TypeOK
  <2>4. TypeOK'
    BY <1>6, <2>1, <2>2, <1>t DEF StatusMsg, refereeVars, TypeOK
  <2>5. OneBranchActive' /\ TemporaryStatusOwned' /\ BranchInv'
    BY <2>1 DEF IInv, OneBranchActive, TemporaryStatusOwned, BranchInv
  <2> QED BY <2>4, <2>5 DEF IInv
<1>7. ASSUME NEW b \in Branches, NavResult(b)
      PROVE  IInv'
  <2>1. UNCHANGED <<refereeVars, queue, lastPub, bbStatus, treeUp, pc, timer>>
    BY <1>7 DEF NavResult, topicVars
  <2>2. PICK r \in {"succeeded", "failed"} : br' = [br EXCEPT ![b].nav = r]
    BY <1>7 DEF NavResult
  <2>3. br[b] \in BranchStates /\ br \in [Branches -> BranchStates] /\ br[b].nav = "running"
    BY <1>7, <1>t DEF TypeOK, NavResult
  <2>4. br' = [br EXCEPT ![b] = [br[b] EXCEPT !.nav = r]]
    BY <2>2, <2>3
  <2>5. /\ [br[b] EXCEPT !.nav = r] \in BranchStates
        /\ [br[b] EXCEPT !.nav = r].phase = br[b].phase
        /\ [br[b] EXCEPT !.nav = r].orig = br[b].orig
    BY <2>3 DEF BranchStates
  <2>6. TreePart'
    BY <2>1, <2>3, <2>4, <2>5, SamePhases
  <2> QED BY <2>1, <2>6, <1>t, <1>r DEF TypeOK
<1>8. CASE UNCHANGED vars
  BY <1>8 DEF vars, refereeVars, topicVars, IInv, TypeOK, OneBranchActive,
     TemporaryStatusOwned, BranchInv
<1> QED
  BY <1>1, <1>2, <1>3, <1>4, <1>5, <1>6, <1>7, <1>8 DEF Next, Tick

\* IInv is an inductive invariant of the tree.
THEOREM Invariance == Spec => []IInv
  BY InitIInv, NextIInv, PTL DEF Spec

\* The blackboard, the nodes and the timers keep their types; the retry counter
\* stays below num_attempts and the dwell age within the timeout.
THEOREM TypeCorrect == Spec => []TypeOK
  BY Invariance, PTL DEF IInv

\* At most one of the retreat, defence and attack branches is ever active.
THEOREM OneBranchCorrect == Spec => []OneBranchActive
  BY Invariance, PTL DEF IInv

\* Whenever the temporary status is the last one published, a StatusConvert
\* that will restore the original one is running.
THEOREM TemporaryStatusCorrect == Spec => []TemporaryStatusOwned
  BY Invariance, PTL DEF IInv
=============================================================================

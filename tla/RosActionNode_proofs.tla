------------------------ MODULE RosActionNode_proofs ------------------------
(***************************************************************************)
(* Proofs about the action node for every number of goals, a prompt or a   *)
(* slow server, with or without rejected goals.                            *)
(***************************************************************************)
EXTENDS RosActionNode, TLAPS

\* Goals are sent in order; a result is taken only for a goal whose response
\* was taken; with a client of its own, a running node that has not seen the
\* response of its goal has not had it taken by anybody.
ClientInv ==
    /\ \A g \in Goals : g > cur => ack[g] = "unsent"
    /\ \A g \in Goals : resultTaken[g] => ack[g] = "known"
    /\ status = "RUNNING" => cur \in Goals
    /\ status = "RUNNING" /\ err = "none" /\ ~received /\ ~shared =>
         ack[cur] \in {"requested", "accepted", "rejected"}

\* Nothing is left to do for the goal: it was refused, or the client has taken
\* the result that ended it.
Settled(g) ==
    \/ ack[g] = "refused"
    \/ ack[g] = "known" /\ resultTaken[g] /\ code[g] # "unknown"

\* With a prompt server: every goal but the one of a running node is settled;
\* a running node that has not seen its goal's response keeps at most the
\* handle of an earlier goal; a result it holds is that of its own goal.
PromptInv ==
    prompt =>
      /\ \A g \in Goals : ~cancelReq[g]
      /\ \A g \in Goals : g < cur \/ (g = cur /\ status = "IDLE") => Settled(g)
      /\ handle <= cur
      /\ status = "RUNNING" /\ ~received => handle < cur
      /\ status = "RUNNING" /\ result # "unknown" => result = code[cur] /\ Settled(cur)

IInv == TypeOK /\ ClientInv /\ HaltReachesAcknowledgedGoal

\* The inductive invariant holds initially.
LEMMA InitIInv == Init => IInv
<1> SUFFICES ASSUME Init PROVE IInv
  OBVIOUS
<1>1. TypeOK
  <2>1. 0 \in 0..MaxGoals
    BY MaxGoalsAssumption
  <2>2. /\ ack \in [Goals -> Acks] /\ code \in [Goals -> Codes]
        /\ resultTaken \in [Goals -> BOOLEAN] /\ cancelReq \in [Goals -> BOOLEAN]
        /\ outcome \in [Goals -> {"none", "failed"} \union ResultCodes]
    BY DEF Init, Acks, Codes
  <2> QED BY <2>1, <2>2 DEF Init, TypeOK, Null, Codes, Errors
<1>2. ClientInv /\ HaltReachesAcknowledgedGoal
  BY DEF Init, ClientInv, HaltReachesAcknowledgedGoal
<1> QED BY <1>1, <1>2 DEF IInv

\* What a spin does to the client's book-keeping.
LEMMA SpinInv ==
  ASSUME IInv, NEW R \in SUBSET Responses, NEW Q \in SUBSET Results, Taken(R, Q)
  PROVE  /\ ack' \in [Goals -> Acks] /\ resultTaken' \in [Goals -> BOOLEAN]
         /\ ack' = Acked(R)
         /\ result_callback(Q) \in Codes
         /\ \A g \in Goals : g > cur => ack'[g] = "unsent"
         /\ \A g \in Goals : resultTaken'[g] => ack'[g] = "known"
         /\ \A g \in Goals : ack[g] = "known" => ack'[g] = "known"
         /\ \A g \in Goals : resultTaken'[g] => resultTaken[g] \/ g \in Q
         /\ \A g \in Goals : g \in Q => ack[g] = "known" /\ code[g] # "unknown"
         /\ \A g \in Goals : ack'[g] = ack[g] \/ ack'[g] \in {"known", "refused"}
<1>1. TypeOK /\ ClientInv
  BY DEF IInv
<1>2. \A g \in Goals : ack'[g] = IF g \notin R THEN ack[g]
                                ELSE IF ack[g] = "accepted" THEN "known" ELSE "refused"
  BY DEF Taken, Acked
<1>3. \A g \in Goals : g \in R => ack[g] \in {"accepted", "rejected"}
  BY DEF Responses
<1>4. \A g \in Goals : g \in Q => ack[g] = "known" /\ code[g] # "unknown"
  BY DEF Results
<1>5. ack' \in [Goals -> Acks]
  BY <1>1, <1>2 DEF Taken, Acked, TypeOK, Acks
<1>6. resultTaken' \in [Goals -> BOOLEAN]
      /\ \A g \in Goals : resultTaken'[g] <=> resultTaken[g] \/ g \in Q
  BY <1>1 DEF Taken, TypeOK
<1>7. result_callback(Q) \in Codes
  <2>1. handle \in Q => handle \in Goals
    BY DEF Results
  <2> QED BY <2>1, <1>1 DEF result_callback, TypeOK
<1>8. \A g \in Goals : g > cur => ack'[g] = "unsent"
  BY <1>1, <1>2, <1>3 DEF ClientInv
<1>9. \A g \in Goals : resultTaken'[g] => ack'[g] = "known"
  BY <1>1, <1>2, <1>3, <1>4, <1>6 DEF ClientInv
<1> QED BY <1>2, <1>3, <1>4, <1>5, <1>6, <1>7, <1>8, <1>9 DEF Taken

\* A tick of a running node preserves the invariant.
LEMMA TickRunningInv ==
  ASSUME IInv, TickRunning, UNCHANGED deployment
  PROVE  IInv'
<1>t. TypeOK /\ ClientInv /\ HaltReachesAcknowledgedGoal /\ cur \in Goals
      /\ status = "RUNNING" /\ err = "none"
  BY DEF IInv, ClientInv, TickRunning
<1>1. PICK R \in SUBSET Responses, Q \in SUBSET Results :
        /\ Taken(R, Q)
        /\ \/ /\ NullDereference(Q)
              /\ err' = "null_handle"
              /\ UNCHANGED <<status, received, handle, result, outcome>>
           \/ /\ ~NullDereference(Q)
              /\ result' = result_callback(Q)
              /\ AfterSpin(Acked(R), result_callback(Q))
              /\ UNCHANGED err
  BY DEF TickRunning
<1>u. UNCHANGED <<prompt, shared, cur, code, cancelReq>>
  BY DEF TickRunning, serverVars, deployment
<1>s. /\ ack' \in [Goals -> Acks] /\ resultTaken' \in [Goals -> BOOLEAN]
      /\ ack' = Acked(R)
      /\ result_callback(Q) \in Codes
      /\ \A g \in Goals : g > cur => ack'[g] = "unsent"
      /\ \A g \in Goals : resultTaken'[g] => ack'[g] = "known"
      /\ \A g \in Goals : ack[g] = "known" => ack'[g] = "known"
      /\ \A g \in Goals : resultTaken'[g] => resultTaken[g] \/ g \in Q
      /\ \A g \in Goals : g \in Q => ack[g] = "known" /\ code[g] # "unknown"
      /\ \A g \in Goals : ack'[g] = ack[g] \/ ack'[g] \in {"known", "refused"}
  BY <1>1, SpinInv
<1>o. ASSUME NEW o \in {"failed"} \union ResultCodes, Completes(o)
      PROVE  outcome' \in [Goals -> {"none", "failed"} \union ResultCodes] /\ status' = "IDLE"
  BY <1>o, <1>t DEF Completes, TypeOK
<1>2. CASE NullDereference(Q)
  <2>1. err' = "null_handle" /\ UNCHANGED <<status, received, handle, result, outcome>>
    BY <1>1, <1>2
  <2>2. ~received
    BY <1>2, <1>t DEF NullDereference, HaltReachesAcknowledgedGoal, Goals, Null
  <2>3. TypeOK'
    BY <2>1, <1>s, <1>t, <1>u DEF TypeOK, Errors
  <2> QED BY <2>1, <2>2, <2>3, <1>s, <1>t, <1>u DEF IInv, ClientInv, HaltReachesAcknowledgedGoal
<1>3. CASE ~NullDereference(Q)
  <2> DEFINE r == result_callback(Q)
  <2>0. result' = r /\ AfterSpin(Acked(R), r) /\ err' = err /\ r \in Codes
    BY <1>1, <1>3, <1>s
  <2>1. CASE /\ ~received /\ ack'[cur] \notin {"known", "refused"}
             /\ StaysRunning \/ (~prompt /\ Completes("failed"))
             /\ UNCHANGED <<received, handle>>
    <3>1. outcome' \in [Goals -> {"none", "failed"} \union ResultCodes]
          /\ status' \in {"IDLE", "RUNNING"}
      BY <2>1, <1>o, <1>t DEF StaysRunning, TypeOK
    <3>2. TypeOK'
      BY <3>1, <2>0, <2>1, <1>s, <1>t, <1>u DEF TypeOK
    <3>3. ack'[cur] = ack[cur]
      BY <2>1, <1>s, <1>t
    <3>4. ClientInv' /\ HaltReachesAcknowledgedGoal'
      BY <3>3, <2>0, <2>1, <1>s, <1>t, <1>u DEF ClientInv, HaltReachesAcknowledgedGoal
    <3> QED BY <3>2, <3>4 DEF IInv
  <2>2. CASE /\ ~received /\ ack'[cur] = "refused"
             /\ received' = TRUE /\ handle' = Null
             /\ Completes("failed")
    <3>1. outcome' \in [Goals -> {"none", "failed"} \union ResultCodes] /\ status' = "IDLE"
      BY <2>2, <1>o
    <3>2. TypeOK'
      BY <3>1, <2>0, <2>2, <1>s, <1>t, <1>u, MaxGoalsAssumption DEF TypeOK, Null
    <3> QED BY <3>1, <3>2, <1>s, <1>u DEF IInv, ClientInv, HaltReachesAcknowledgedGoal
  <2>3. CASE /\ received \/ ack'[cur] = "known"
             /\ received' = TRUE
             /\ handle' = IF received THEN handle ELSE cur
             /\ IF r = "unknown" THEN StaysRunning ELSE Completes(r)
    <3>1. outcome' \in [Goals -> {"none", "failed"} \union ResultCodes]
          /\ status' \in {"IDLE", "RUNNING"}
      BY <2>0, <2>3, <1>o, <1>t DEF StaysRunning, TypeOK, Codes
    <3>2. handle' = cur
      BY <2>3, <1>t DEF HaltReachesAcknowledgedGoal
    <3>3. TypeOK'
      BY <3>1, <3>2, <2>0, <2>3, <1>s, <1>t, <1>u DEF TypeOK, Goals
    <3>4. ~shared => ack'[cur] = "known"
      BY <2>3, <1>s, <1>t DEF HaltReachesAcknowledgedGoal, Known
    <3>5. ~shared /\ status' = "RUNNING" => ~resultTaken'[cur]
      <4>0. SUFFICES ASSUME ~shared PROVE status' = "RUNNING" => ~resultTaken'[cur]
        OBVIOUS
      <4>1. CASE received
        <5>1. handle = cur /\ ~resultTaken[cur]
          BY <4>0, <4>1, <1>t DEF HaltReachesAcknowledgedGoal, Known
        <5>2. cur \in Q => r # "unknown"
          BY <5>1, <1>s, <1>t DEF result_callback
        <5>3. r # "unknown" => status' = "IDLE"
          BY <2>0, <2>3, <1>o DEF Codes
        <5> QED BY <5>1, <5>2, <5>3, <1>s, <1>t
      <4>2. CASE ~received
        <5>1. ack[cur] # "known"
          BY <4>0, <4>2, <1>t DEF ClientInv
        <5> QED BY <5>1, <1>s, <1>t DEF ClientInv
      <4> QED BY <4>1, <4>2
    <3>6. ClientInv'
      BY <2>3, <1>s, <1>t, <1>u DEF ClientInv
    <3>7. HaltReachesAcknowledgedGoal'
      BY <3>2, <3>4, <3>5, <1>u DEF HaltReachesAcknowledgedGoal, Known
    <3> QED BY <3>3, <3>6, <3>7 DEF IInv
  <2> QED BY <2>0, <2>1, <2>2, <2>3, <1>s DEF AfterSpin
<1> QED BY <1>2, <1>3

\* Cancelling a known goal takes its result or leaves a request behind.
LEMMA CancelKnownInv ==
  ASSUME TypeOK, NEW h \in Goals, CancelKnown(h)
  PROVE  /\ code' \in [Goals -> Codes] /\ cancelReq' \in [Goals -> BOOLEAN]
         /\ resultTaken' \in [Goals -> BOOLEAN] /\ result' \in Codes
         /\ \A g \in Goals : resultTaken'[g] => resultTaken[g] \/ g = h
<1>1. CASE /\ \E c \in ResultCodes :
                code' = [code EXCEPT ![h] = IF @ = "unknown" THEN c ELSE @]
           /\ resultTaken' = [resultTaken EXCEPT ![h] = TRUE]
           /\ result' = code'[h]
           /\ UNCHANGED cancelReq
  <2>1. PICK c \in ResultCodes : code' = [code EXCEPT ![h] = IF code[h] = "unknown" THEN c ELSE code[h]]
    BY <1>1
  <2>2. code' \in [Goals -> Codes]
    BY <2>1 DEF TypeOK, Codes
  <2>3. resultTaken' \in [Goals -> BOOLEAN]
        /\ \A g \in Goals : resultTaken'[g] => resultTaken[g] \/ g = h
    BY <1>1 DEF TypeOK
  <2> QED BY <1>1, <2>2, <2>3 DEF TypeOK
<1>2. CASE /\ cancelReq' = [cancelReq EXCEPT ![h] = TRUE]
           /\ UNCHANGED <<code, resultTaken, result>>
  BY <1>2 DEF TypeOK
<1> QED BY <1>1, <1>2 DEF CancelKnown

\* halt() preserves the invariant.
LEMMA HaltInv ==
  ASSUME IInv, halt, UNCHANGED deployment
  PROVE  IInv'
<1>t. TypeOK /\ ClientInv /\ HaltReachesAcknowledgedGoal /\ cur \in Goals
      /\ status = "RUNNING" /\ err = "none" /\ UNCHANGED <<prompt, shared, cur, received, outcome>>
  BY DEF IInv, ClientInv, halt, deployment
<1>n. handle = Null => ~received
  BY <1>t DEF HaltReachesAcknowledgedGoal, Goals, Null
<1>1. CASE /\ status' = "IDLE"
           /\ UNCHANGED <<handle, result, err, ack, resultTaken, serverVars>>
  BY <1>1, <1>t DEF IInv, TypeOK, ClientInv, HaltReachesAcknowledgedGoal, serverVars
<1>2. CASE /\ handle = Null /\ ack[cur] \in {"rejected", "refused"}
           /\ ack' = [ack EXCEPT ![cur] = "refused"]
           /\ err' = "null_handle"
           /\ UNCHANGED <<status, handle, result, resultTaken, serverVars>>
  <2>1. TypeOK'
    BY <1>2, <1>t DEF TypeOK, Acks, Errors, serverVars
  <2>2. ClientInv' /\ HaltReachesAcknowledgedGoal'
    BY <1>2, <1>n, <1>t DEF TypeOK, ClientInv, HaltReachesAcknowledgedGoal, Goals
  <2> QED BY <2>1, <2>2 DEF IInv
<1>3. CASE /\ handle = Null /\ (ack[cur] = "accepted" \/ Known(cur))
           /\ ack' = [ack EXCEPT ![cur] = "known"]
           /\ handle' = cur
           /\ status' = "IDLE"
           /\ CancelKnown(cur)
           /\ UNCHANGED err
  <2>1. TypeOK'
    BY <1>3, <1>t, CancelKnownInv DEF TypeOK, Acks, Goals
  <2>2. ClientInv' /\ HaltReachesAcknowledgedGoal'
    BY <1>3, <1>t, CancelKnownInv DEF TypeOK, ClientInv, HaltReachesAcknowledgedGoal, Goals
  <2> QED BY <2>1, <2>2 DEF IInv
<1>4. CASE /\ handle # Null /\ Known(handle)
           /\ status' = "IDLE"
           /\ CancelKnown(handle)
           /\ UNCHANGED <<handle, err, ack>>
  <2>0. handle \in Goals
    BY <1>4, <1>t DEF TypeOK, Null, Goals
  <2>1. TypeOK'
    BY <2>0, <1>4, <1>t, CancelKnownInv DEF TypeOK
  <2>2. ClientInv' /\ HaltReachesAcknowledgedGoal'
    BY <2>0, <1>4, <1>t, CancelKnownInv DEF ClientInv, HaltReachesAcknowledgedGoal, Known
  <2> QED BY <2>1, <2>2 DEF IInv
<1>5. CASE /\ handle # Null /\ ~Known(handle)
           /\ err' = "unknown_goal"
           /\ UNCHANGED <<status, handle, result, ack, resultTaken, serverVars>>
  <2>1. TypeOK'
    BY <1>5, <1>t DEF TypeOK, Errors, serverVars
  <2> QED BY <2>1, <1>5, <1>t DEF IInv, ClientInv, HaltReachesAcknowledgedGoal, Known
<1> QED BY <1>1, <1>2, <1>3, <1>4, <1>5 DEF halt, cancelGoal

\* The node's other steps and the server's preserve the invariant.
LEMMA OtherInv ==
  ASSUME IInv, UNCHANGED deployment,
               \/ TickIdle \/ ForeignSpin
               \/ \E g \in Goals : ServerAnswers(g) \/ ServerFinishes(g) \/ ServerCancels(g)
  PROVE  IInv'
<1>t. /\ TypeOK /\ ClientInv /\ HaltReachesAcknowledgedGoal
      /\ UNCHANGED <<prompt, shared>>
  BY DEF IInv, deployment
<1>1. CASE TickIdle
  <2>1. cur + 1 \in Goals /\ cur' = cur + 1 /\ cur' \in 0..MaxGoals
    BY <1>1, <1>t, MaxGoalsAssumption DEF TickIdle, TypeOK, Goals
  <2>2. ack' = [ack EXCEPT ![cur + 1] = "requested"] /\ ack[cur + 1] = "unsent"
    BY <2>1, <1>1, <1>t DEF TickIdle, ClientInv, TypeOK, Goals
  <2>3. ack' \in [Goals -> Acks]
    BY <2>1, <2>2, <1>t DEF TypeOK, Acks
  <2>4. TypeOK'
    BY <2>1, <2>3, <1>1, <1>t DEF TickIdle, TypeOK, Codes, serverVars
  <2>5. \A g \in Goals : g > cur' => ack'[g] = "unsent"
    BY <2>1, <2>2, <1>t DEF ClientInv, TypeOK, Goals
  <2>6. \A g \in Goals : resultTaken'[g] => ack'[g] = "known"
    BY <2>1, <2>2, <1>1, <1>t DEF TickIdle, ClientInv, TypeOK
  <2>7. ClientInv' /\ HaltReachesAcknowledgedGoal'
    BY <2>1, <2>2, <2>5, <2>6, <1>1, <1>t DEF TickIdle, ClientInv, HaltReachesAcknowledgedGoal,
       TypeOK
  <2> QED BY <2>4, <2>7 DEF IInv
<1>2. CASE ForeignSpin
  <2>1. PICK R \in SUBSET Responses, Q \in SUBSET Results :
          /\ Taken(R, Q)
          /\ \/ NullDereference(Q) /\ err' = "null_handle" /\ UNCHANGED result
             \/ ~NullDereference(Q) /\ result' = result_callback(Q) /\ UNCHANGED err
    BY <1>2 DEF ForeignSpin
  <2>2. shared /\ (status = "IDLE" \/ ~received) /\ UNCHANGED <<status, cur, received, handle, code, cancelReq, outcome>>
    BY <1>2 DEF ForeignSpin, serverVars
  <2>3. /\ ack' \in [Goals -> Acks] /\ resultTaken' \in [Goals -> BOOLEAN]
        /\ result_callback(Q) \in Codes
        /\ \A g \in Goals : g > cur => ack'[g] = "unsent"
        /\ \A g \in Goals : resultTaken'[g] => ack'[g] = "known"
    BY <2>1, SpinInv
  <2>4. TypeOK'
    BY <2>1, <2>2, <2>3, <1>t DEF TypeOK, Errors
  <2> QED BY <2>2, <2>3, <2>4, <1>t DEF IInv, ClientInv, HaltReachesAcknowledgedGoal
<1>3. ASSUME NEW g \in Goals, ServerAnswers(g)
      PROVE  IInv'
  <2>1. /\ ack[g] = "requested" /\ UNCHANGED <<nodeVars, code, cancelReq, resultTaken, outcome>>
        /\ \E s \in {"accepted", "rejected"} : ack' = [ack EXCEPT ![g] = s]
    BY <1>3 DEF ServerAnswers, serverVars
  <2>2. TypeOK'
    BY <2>1, <1>t DEF TypeOK, nodeVars, Acks
  <2>3. ClientInv'
    BY <2>1, <1>t DEF TypeOK, ClientInv, nodeVars
  <2>4. HaltReachesAcknowledgedGoal'
    <3>1. status = "RUNNING" => cur \in Goals
      BY <1>t DEF ClientInv
    <3> QED BY <2>1, <3>1, <1>t DEF TypeOK, HaltReachesAcknowledgedGoal, Known, nodeVars
  <2> QED BY <2>2, <2>3, <2>4 DEF IInv
<1>4. ASSUME NEW g \in Goals, ServerFinishes(g) \/ ServerCancels(g)
      PROVE  IInv'
  <2>1. /\ code' \in [Goals -> Codes] /\ cancelReq' \in [Goals -> BOOLEAN]
        /\ UNCHANGED <<nodeVars, ack, resultTaken, outcome>>
    BY <1>4, <1>t DEF ServerFinishes, ServerCancels, TypeOK, Codes, ResultCodes
  <2> QED BY <2>1, <1>t DEF IInv, TypeOK, ClientInv, HaltReachesAcknowledgedGoal, Known, nodeVars
<1> QED BY <1>1, <1>2, <1>3, <1>4

\* IInv is an inductive invariant of the node with its client and server.
THEOREM Invariance == Spec => []IInv
<1>1. IInv /\ [Next]_vars => IInv'
  <2> SUFFICES ASSUME IInv, [Next]_vars PROVE IInv'
    OBVIOUS
  <2>1. CASE Next
    BY <2>1, TickRunningInv, HaltInv, OtherInv DEF Next
  <2>2. CASE UNCHANGED vars
    BY <2>2 DEF vars, deployment, nodeVars, serverVars, IInv, TypeOK, ClientInv,
       HaltReachesAcknowledgedGoal, Known
  <2> QED BY <2>1, <2>2
<1> QED BY InitIInv, <1>1, PTL DEF Spec

\* The variables of the node, its client and the server keep their types.
THEOREM TypeCorrect == Spec => []TypeOK
  BY Invariance, PTL DEF IInv

\* However slow the server is and whoever runs the callbacks, a halt after
\* tick() has taken the goal response finds the current goal's handle and, with
\* a client of its own, a client that still knows it.
THEOREM HaltCorrect == Spec => []HaltReachesAcknowledgedGoal
  BY Invariance, PTL DEF IInv

-----------------------------------------------------------------------------
(* A prompt server                                                           *)

\* A goal that is settled is not waiting in the client, so no spin takes
\* anything of it, and it stays settled.
LEMMA SpinSettled ==
  ASSUME IInv, NEW R \in SUBSET Responses, NEW Q \in SUBSET Results, Taken(R, Q),
         code' = code, NEW g \in Goals, Settled(g)
  PROVE  g \notin R /\ g \notin Q /\ Settled(g)' /\ ack'[g] = ack[g]
<1>1. TypeOK
  BY DEF IInv
<1>2. g \notin R /\ g \notin Q
  BY DEF Responses, Results, Settled
<1>3. ack'[g] = ack[g] /\ (resultTaken[g] => resultTaken'[g])
  BY <1>1, <1>2 DEF Taken, Acked, TypeOK
<1> QED BY <1>2, <1>3 DEF Settled

\* A spin of a node whose goals before the current one are settled: the result
\* callback accepts a result only for the current goal, and takes it for good.
LEMMA SpinResult ==
  ASSUME IInv, PromptInv, prompt, cur \in Goals, status = "RUNNING",
         NEW R \in SUBSET Responses, NEW Q \in SUBSET Results, Taken(R, Q),
         UNCHANGED <<cur, code>>, result_callback(Q) # "unknown"
  PROVE  result_callback(Q) = code[cur] /\ Settled(cur)' /\ Q \subseteq {cur}
<1>1. TypeOK /\ ClientInv /\ handle <= cur
  BY DEF IInv, PromptInv
<1>2. ASSUME NEW g \in Q PROVE g = cur
  <2>1. g \in Goals /\ ack[g] = "known" /\ ~Settled(g)
    BY DEF Results, Settled
  <2>2. ~(g > cur)
    BY <2>1, <1>1 DEF ClientInv
  <2>3. ~(g < cur)
    BY <2>1 DEF PromptInv
  <2> QED BY <2>1, <2>2, <2>3 DEF Goals
<1>3. CASE handle \in Q
  <2>1. handle = cur /\ ack[cur] = "known" /\ code[cur] # "unknown" /\ cur \notin R
    BY <1>2, <1>3 DEF Results, Responses
  <2>2. ack'[cur] = "known" /\ resultTaken'[cur]
    BY <2>1, <1>3 DEF Taken, Acked
  <2>3. Settled(cur)'
    BY <2>1, <2>2 DEF Settled
  <2> QED BY <1>2, <2>1, <2>3, <1>3 DEF result_callback
<1>4. CASE handle \notin Q
  <2>1. result_callback(Q) = code[cur] /\ Settled(cur)
    BY <1>4 DEF PromptInv, result_callback
  <2>2. \A g \in Goals : Settled(g) => Settled(g)'
    BY SpinSettled
  <2> QED BY <2>1, <2>2, <1>2 DEF Settled
<1> QED BY <1>3, <1>4

\* A tick of a running node preserves the invariant.
LEMMA TickRunningPrompt ==
  ASSUME IInv, PromptInv, PromptOutcomeIsOfItsGoal, TickRunning, UNCHANGED deployment
  PROVE  PromptInv' /\ PromptOutcomeIsOfItsGoal'
<1> SUFFICES ASSUME prompt
             PROVE  PromptInv' /\ PromptOutcomeIsOfItsGoal'
  BY DEF PromptInv, PromptOutcomeIsOfItsGoal, deployment
<1>t. /\ TypeOK /\ ClientInv /\ HaltReachesAcknowledgedGoal
      /\ cur \in Goals /\ status = "RUNNING" /\ err = "none"
      /\ UNCHANGED <<prompt, shared, cur, code, cancelReq>>
  BY DEF IInv, ClientInv, TickRunning, serverVars, deployment
<1>p. /\ \A g \in Goals : ~cancelReq[g]
      /\ \A g \in Goals : g < cur => Settled(g)
      /\ handle <= cur
      /\ ~received => handle < cur
      /\ result # "unknown" => result = code[cur] /\ Settled(cur)
      /\ \A g \in Goals : outcome[g] \in ResultCodes => outcome[g] = code[g]
  BY <1>t DEF PromptInv, PromptOutcomeIsOfItsGoal
<1>1. PICK R \in SUBSET Responses, Q \in SUBSET Results :
        /\ Taken(R, Q)
        /\ \/ /\ NullDereference(Q)
              /\ err' = "null_handle"
              /\ UNCHANGED <<status, received, handle, result, outcome>>
           \/ /\ ~NullDereference(Q)
              /\ result' = result_callback(Q)
              /\ AfterSpin(Acked(R), result_callback(Q))
              /\ UNCHANGED err
  BY DEF TickRunning
<1>a. ack' = Acked(R)
  BY <1>1 DEF Taken
<1>2. \A g \in Goals : Settled(g) => Settled(g)'
  BY <1>1, <1>t, SpinSettled
<1>3. CASE NullDereference(Q)
  <2>1. UNCHANGED <<status, received, handle, result, outcome>>
    BY <1>1, <1>3
  <2> QED BY <2>1, <1>2, <1>p, <1>t DEF PromptInv, PromptOutcomeIsOfItsGoal
<1>4. CASE ~NullDereference(Q)
  <2> DEFINE r == result_callback(Q)
  <2>0. result' = r /\ AfterSpin(ack', r)
    BY <1>1, <1>4, <1>a
  <2>r. r # "unknown" => r = code[cur] /\ Settled(cur)'
    BY <1>1, <1>t, SpinResult
  <2>1. CASE /\ ~received /\ ack'[cur] \notin {"known", "refused"}
             /\ StaysRunning \/ (~prompt /\ Completes("failed"))
             /\ UNCHANGED <<received, handle>>
    <3>1. UNCHANGED <<status, outcome, received, handle>>
      BY <2>1 DEF StaysRunning
    <3>2. r = "unknown" \/ (r = code[cur] /\ Settled(cur)')
      BY <2>r
    <3> QED BY <3>1, <3>2, <2>0, <1>2, <1>p, <1>t DEF PromptInv, PromptOutcomeIsOfItsGoal
  <2>2. CASE /\ ~received /\ ack'[cur] = "refused"
             /\ received' = TRUE /\ handle' = Null
             /\ Completes("failed")
    <3>1. status' = "IDLE" /\ outcome' = [outcome EXCEPT ![cur] = "failed"] /\ handle' = 0
      BY <2>2 DEF Completes, Null
    <3>2. Settled(cur)'
      BY <2>2, <1>t DEF Settled
    <3>3. \A g \in Goals : outcome'[g] \in ResultCodes => outcome'[g] = code'[g]
      BY <3>1, <1>p, <1>t DEF ResultCodes, TypeOK
    <3>4. \A g \in Goals : g < cur' \/ (g = cur' /\ status' = "IDLE") => Settled(g)'
      BY <3>2, <1>2, <1>p, <1>t
    <3>5. handle' <= cur'
      BY <3>1, <1>t DEF TypeOK
    <3> QED BY <3>1, <3>3, <3>4, <3>5, <1>p, <1>t DEF PromptInv, PromptOutcomeIsOfItsGoal
  <2>3. CASE /\ received \/ ack'[cur] = "known"
             /\ received' = TRUE
             /\ handle' = IF received THEN handle ELSE cur
             /\ IF r = "unknown" THEN StaysRunning ELSE Completes(r)
    <3>1. handle' = cur
      BY <2>3, <1>t DEF HaltReachesAcknowledgedGoal
    <3>2. CASE r = "unknown"
      <4>1. UNCHANGED <<status, outcome>> /\ result' = "unknown"
        BY <2>0, <2>3, <3>2 DEF StaysRunning
      <4>2. handle' <= cur' /\ received'
        <5>1. handle' <= cur'
          BY <3>1, <1>t DEF TypeOK
        <5> QED BY <5>1, <2>3
      <4>3. \A g \in Goals : g < cur' \/ (g = cur' /\ status' = "IDLE") => Settled(g)'
        BY <4>1, <1>2, <1>p, <1>t
      <4> QED BY <4>1, <4>2, <4>3, <1>p, <1>t DEF PromptInv, PromptOutcomeIsOfItsGoal
    <3>3. CASE r # "unknown"
      <4>1. status' = "IDLE" /\ outcome' = [outcome EXCEPT ![cur] = r]
        BY <2>3, <3>3 DEF Completes
      <4>2. r = code[cur] /\ Settled(cur)'
        BY <2>r, <3>3
      <4>3. \A g \in Goals : outcome'[g] \in ResultCodes => outcome'[g] = code'[g]
        BY <4>1, <4>2, <1>p, <1>t DEF TypeOK
      <4>4. \A g \in Goals : g < cur' \/ (g = cur' /\ status' = "IDLE") => Settled(g)'
        BY <4>2, <1>2, <1>p, <1>t
      <4>5. handle' <= cur'
        BY <3>1, <1>t DEF TypeOK
      <4> QED BY <4>1, <4>3, <4>4, <4>5, <1>p, <1>t DEF PromptInv, PromptOutcomeIsOfItsGoal
    <3> QED BY <3>2, <3>3
  <2> QED BY <2>0, <2>1, <2>2, <2>3 DEF AfterSpin
<1> QED BY <1>3, <1>4

\* Cancelling the current goal at a prompt server settles it.
LEMMA CancelKnownPrompt ==
  ASSUME TypeOK, prompt, NEW h \in Goals, CancelKnown(h)
  PROVE  /\ code'[h] # "unknown" /\ resultTaken'[h]
         /\ \A g \in Goals : g # h => code'[g] = code[g] /\ resultTaken'[g] = resultTaken[g]
         /\ \A g \in Goals : code[g] # "unknown" => code'[g] = code[g]
         /\ UNCHANGED cancelReq
<1>1. /\ \E c \in ResultCodes :
           code' = [code EXCEPT ![h] = IF @ = "unknown" THEN c ELSE @]
      /\ resultTaken' = [resultTaken EXCEPT ![h] = TRUE]
      /\ UNCHANGED cancelReq
  BY DEF CancelKnown
<1>2. PICK c \in ResultCodes :
        code' = [code EXCEPT ![h] = IF code[h] = "unknown" THEN c ELSE code[h]]
  BY <1>1
<1> QED BY <1>1, <1>2 DEF TypeOK, ResultCodes

\* halt() preserves the invariant: cancelGoal returns with the current goal
\* settled, or ends the tree.
LEMMA HaltPrompt ==
  ASSUME IInv, PromptInv, PromptOutcomeIsOfItsGoal, halt, UNCHANGED deployment
  PROVE  PromptInv' /\ PromptOutcomeIsOfItsGoal'
<1> SUFFICES ASSUME prompt
             PROVE  PromptInv' /\ PromptOutcomeIsOfItsGoal'
  BY DEF PromptInv, PromptOutcomeIsOfItsGoal, deployment
<1>t. /\ TypeOK /\ ClientInv
      /\ cur \in Goals /\ status = "RUNNING" /\ err = "none"
      /\ UNCHANGED <<prompt, shared, cur, received, outcome>>
  BY DEF IInv, ClientInv, halt, deployment
<1>p. /\ \A g \in Goals : ~cancelReq[g]
      /\ \A g \in Goals : g < cur => Settled(g)
      /\ handle <= cur
      /\ ~received => handle < cur
      /\ result # "unknown" => result = code[cur] /\ Settled(cur)
      /\ \A g \in Goals : outcome[g] \in ResultCodes => outcome[g] = code[g]
  BY <1>t DEF PromptInv, PromptOutcomeIsOfItsGoal
<1>c. ASSUME CancelKnown(cur), ack'[cur] = "known", handle' = cur, status' = "IDLE",
             \A g \in Goals : g # cur => ack'[g] = ack[g]
      PROVE  PromptInv' /\ PromptOutcomeIsOfItsGoal'
  <2>1. /\ code'[cur] # "unknown" /\ resultTaken'[cur]
        /\ \A g \in Goals : g # cur => code'[g] = code[g] /\ resultTaken'[g] = resultTaken[g]
        /\ \A g \in Goals : code[g] # "unknown" => code'[g] = code[g]
        /\ UNCHANGED cancelReq
    BY <1>c, <1>t, CancelKnownPrompt
  <2>2. Settled(cur)' /\ \A g \in Goals : g # cur /\ Settled(g) => Settled(g)'
    BY <2>1, <1>c, <1>t DEF Settled
  <2>3. \A g \in Goals : g < cur => g # cur
    BY <1>t DEF TypeOK, Goals
  <2>4. \A g \in Goals : g < cur' \/ (g = cur' /\ status' = "IDLE") => Settled(g)'
    BY <2>2, <2>3, <1>p, <1>t
  <2>5. \A g \in Goals : outcome'[g] \in ResultCodes => outcome'[g] = code'[g]
    BY <2>1, <1>p, <1>t DEF ResultCodes
  <2>6. handle' <= cur'
    BY <1>c, <1>t DEF TypeOK
  <2> QED BY <2>1, <2>4, <2>5, <2>6, <1>c, <1>p, <1>t DEF PromptInv, PromptOutcomeIsOfItsGoal
<1>e. ASSUME UNCHANGED <<status, handle, result, resultTaken, code, cancelReq>>,
             \A g \in Goals : ack'[g] = ack[g] \/ ack'[g] = "refused"
      PROVE  PromptInv' /\ PromptOutcomeIsOfItsGoal'
  <2>1. \A g \in Goals : Settled(g) => Settled(g)'
    BY <1>e DEF Settled
  <2> QED BY <2>1, <1>e, <1>p, <1>t DEF PromptInv, PromptOutcomeIsOfItsGoal
<1>1. CASE /\ handle = Null /\ ack[cur] \in {"rejected", "refused"}
           /\ ack' = [ack EXCEPT ![cur] = "refused"]
           /\ err' = "null_handle"
           /\ UNCHANGED <<status, handle, result, resultTaken, serverVars>>
  BY <1>1, <1>e, <1>t DEF TypeOK, serverVars
<1>2. CASE /\ handle = Null /\ (ack[cur] = "accepted" \/ Known(cur))
           /\ ack' = [ack EXCEPT ![cur] = "known"]
           /\ handle' = cur
           /\ status' = "IDLE"
           /\ CancelKnown(cur)
           /\ UNCHANGED err
  BY <1>2, <1>c, <1>t DEF TypeOK
<1>3. CASE /\ handle # Null /\ Known(handle)
           /\ status' = "IDLE"
           /\ CancelKnown(handle)
           /\ UNCHANGED <<handle, err, ack>>
  <2>1. handle \in Goals /\ ~Settled(handle)
    BY <1>3, <1>t DEF TypeOK, Null, Goals, Known, Settled
  <2>2. handle = cur
    BY <2>1, <1>p, <1>t DEF TypeOK, Goals
  <2> QED BY <2>2, <1>3, <1>c DEF Known
<1>4. CASE /\ handle # Null /\ ~Known(handle)
           /\ err' = "unknown_goal"
           /\ UNCHANGED <<status, handle, result, ack, resultTaken, serverVars>>
  BY <1>4, <1>e DEF serverVars
<1> QED BY <1>1, <1>2, <1>3, <1>4 DEF halt, cancelGoal

\* The node's other steps and the server's preserve the invariant.
LEMMA OtherPrompt ==
  ASSUME IInv, PromptInv, PromptOutcomeIsOfItsGoal, UNCHANGED deployment,
         \/ TickIdle \/ ForeignSpin
         \/ \E g \in Goals : ServerAnswers(g) \/ ServerFinishes(g) \/ ServerCancels(g)
  PROVE  PromptInv' /\ PromptOutcomeIsOfItsGoal'
<1> SUFFICES ASSUME prompt
             PROVE  PromptInv' /\ PromptOutcomeIsOfItsGoal'
  BY DEF PromptInv, PromptOutcomeIsOfItsGoal, deployment
<1>t. /\ TypeOK /\ ClientInv /\ UNCHANGED <<prompt, shared>>
      /\ status = "RUNNING" => cur \in Goals
  BY DEF IInv, ClientInv, deployment
<1>p. /\ \A g \in Goals : ~cancelReq[g]
      /\ \A g \in Goals : g < cur \/ (g = cur /\ status = "IDLE") => Settled(g)
      /\ handle <= cur
      /\ status = "RUNNING" /\ ~received => handle < cur
      /\ status = "RUNNING" /\ result # "unknown" => result = code[cur] /\ Settled(cur)
      /\ \A g \in Goals : outcome[g] \in ResultCodes => outcome[g] = code[g]
  BY DEF PromptInv, PromptOutcomeIsOfItsGoal
<1>1. CASE TickIdle
  <2>1. /\ status = "IDLE" /\ cur' = cur + 1 /\ cur + 1 \in Goals
        /\ ack' = [ack EXCEPT ![cur + 1] = "requested"]
        /\ result' = "unknown" /\ status' = "RUNNING"
        /\ UNCHANGED <<handle, code, cancelReq, resultTaken, outcome>>
    BY <1>1, <1>t, MaxGoalsAssumption DEF TickIdle, TypeOK, Goals, serverVars
  <2>2. ASSUME NEW g \in Goals, g < cur' PROVE Settled(g)'
    <3>1. g < cur \/ g = cur
      BY <2>1, <2>2, <1>t DEF TypeOK, Goals
    <3>2. g # cur + 1 /\ Settled(g)
      BY <3>1, <2>1, <2>2, <1>p, <1>t DEF TypeOK, Goals
    <3> QED BY <3>2, <2>1, <1>t DEF Settled, TypeOK
  <2>3. handle' < cur' /\ handle' <= cur'
    BY <2>1, <1>p, <1>t DEF TypeOK
  <2> QED BY <2>1, <2>2, <2>3, <1>p, <1>t DEF PromptInv, PromptOutcomeIsOfItsGoal, Goals, TypeOK
<1>2. CASE ForeignSpin
  <2>1. PICK R \in SUBSET Responses, Q \in SUBSET Results :
          /\ Taken(R, Q)
          /\ \/ NullDereference(Q) /\ err' = "null_handle" /\ UNCHANGED result
             \/ ~NullDereference(Q) /\ result' = result_callback(Q) /\ UNCHANGED err
    BY <1>2 DEF ForeignSpin
  <2>2. UNCHANGED <<status, cur, received, handle, code, cancelReq, outcome>>
    BY <1>2 DEF ForeignSpin, serverVars
  <2>3. \A g \in Goals : Settled(g) => Settled(g)'
    BY <2>1, <2>2, SpinSettled
  <2>4. status = "RUNNING" /\ result' # "unknown" => result' = code[cur] /\ Settled(cur)'
    <3> SUFFICES ASSUME status = "RUNNING", result' # "unknown"
                 PROVE  result' = code[cur] /\ Settled(cur)'
      OBVIOUS
    <3>1. CASE UNCHANGED result
      BY <3>1, <2>2, <2>3, <1>p, <1>t DEF Settled
    <3>2. CASE result' = result_callback(Q)
      BY <3>2, <2>1, <2>2, <1>t, SpinResult
    <3> QED BY <2>1, <3>1, <3>2
  <2> QED BY <2>2, <2>3, <2>4, <1>p, <1>t DEF PromptInv, PromptOutcomeIsOfItsGoal
<1>3. ASSUME NEW g \in Goals, ServerAnswers(g)
      PROVE  PromptInv' /\ PromptOutcomeIsOfItsGoal'
  <2>1. /\ ack[g] = "requested"
        /\ UNCHANGED <<status, cur, received, handle, result, code, cancelReq, resultTaken, outcome>>
        /\ \A h \in Goals : h # g => ack'[h] = ack[h]
    BY <1>3, <1>t DEF ServerAnswers, serverVars, nodeVars, TypeOK
  <2>2. \A h \in Goals : Settled(h) => Settled(h)'
    BY <2>1 DEF Settled
  <2> QED BY <2>1, <2>2, <1>p, <1>t DEF PromptInv, PromptOutcomeIsOfItsGoal
<1>4. ASSUME NEW g \in Goals, ServerFinishes(g)
      PROVE  PromptInv' /\ PromptOutcomeIsOfItsGoal'
  <2>1. /\ code[g] = "unknown"
        /\ UNCHANGED <<status, cur, received, handle, result, cancelReq, ack, resultTaken, outcome>>
        /\ \A h \in Goals : h # g => code'[h] = code[h]
    BY <1>4, <1>t DEF ServerFinishes, Executing, nodeVars, TypeOK
  <2>2. \A h \in Goals : code[h] # "unknown" => code'[h] = code[h]
    BY <2>1
  <2>3. \A h \in Goals : Settled(h) => Settled(h)'
    BY <2>1, <2>2 DEF Settled
  <2>4. \A h \in Goals : outcome'[h] \in ResultCodes => outcome'[h] = code'[h]
    BY <2>1, <2>2, <1>p DEF ResultCodes
  <2>5. status' = "RUNNING" /\ result' # "unknown" => result' = code'[cur'] /\ Settled(cur)'
    <3> SUFFICES ASSUME status = "RUNNING", result # "unknown"
                 PROVE  result = code'[cur] /\ Settled(cur)'
      BY <2>1
    <3>1. cur \in Goals /\ result = code[cur] /\ Settled(cur)
      BY <1>p, <1>t
    <3>2. code'[cur] = code[cur]
      BY <3>1, <2>2
    <3> QED BY <3>1, <3>2, <2>1 DEF Settled
  <2> QED BY <2>1, <2>3, <2>4, <2>5, <1>p, <1>t DEF PromptInv, PromptOutcomeIsOfItsGoal
<1>5. ASSUME NEW g \in Goals, ServerCancels(g)
      PROVE  PromptInv' /\ PromptOutcomeIsOfItsGoal'
  BY <1>5, <1>p DEF ServerCancels
<1> QED BY <1>1, <1>2, <1>3, <1>4, <1>5

\* With a prompt server, PromptInv is inductive together with the outcomes.
THEOREM PromptInvariance == Spec => [](PromptInv /\ PromptOutcomeIsOfItsGoal)
<1>1. Init => PromptInv /\ PromptOutcomeIsOfItsGoal
  <2> SUFFICES ASSUME Init PROVE PromptInv /\ PromptOutcomeIsOfItsGoal
    OBVIOUS
  <2>1. \A g \in Goals : ~(g < 0) /\ g # 0
    BY DEF Goals
  <2> QED BY <2>1 DEF Init, PromptInv, PromptOutcomeIsOfItsGoal, Null, ResultCodes
<1>2. IInv /\ PromptInv /\ PromptOutcomeIsOfItsGoal /\ [Next]_vars
        => (PromptInv /\ PromptOutcomeIsOfItsGoal)'
  <2> SUFFICES ASSUME IInv, PromptInv, PromptOutcomeIsOfItsGoal, [Next]_vars
               PROVE  (PromptInv /\ PromptOutcomeIsOfItsGoal)'
    OBVIOUS
  <2>1. CASE Next
    BY <2>1, TickRunningPrompt, HaltPrompt, OtherPrompt DEF Next
  <2>2. CASE UNCHANGED vars
    BY <2>2 DEF vars, deployment, nodeVars, serverVars, PromptInv, PromptOutcomeIsOfItsGoal,
       Settled
  <2> QED BY <2>1, <2>2
<1> QED BY <1>1, <1>2, Invariance, PTL DEF Spec

\* With a prompt server, the result a node reports is its own goal's, whichever
\* node's spin ran the callbacks.
THEOREM PromptOutcomeCorrect == Spec => []PromptOutcomeIsOfItsGoal
  BY PromptInvariance, PTL

\* With a prompt server, an IDLE node has no goal at the server: each goal was
\* refused, or ended and its result taken.
THEOREM PromptIdleCorrect == Spec => []PromptIdleMeansNoLiveGoal
<1>1. IInv /\ PromptInv => PromptIdleMeansNoLiveGoal
  <2> SUFFICES ASSUME IInv, PromptInv, prompt, status = "IDLE", NEW g \in Goals
               PROVE  ack[g] # "requested" /\ ~Executing(g)
    BY DEF PromptIdleMeansNoLiveGoal
  <2>1. CASE g > cur
    BY <2>1 DEF IInv, ClientInv, Executing
  <2>2. CASE g <= cur
    <3>1. g < cur \/ g = cur
      BY <2>2 DEF Goals, IInv, TypeOK
    <3>2. Settled(g)
      BY <3>1 DEF PromptInv
    <3> QED BY <3>2 DEF Settled, Executing
  <2> QED BY <2>1, <2>2 DEF Goals, IInv, TypeOK
<1> QED BY <1>1, Invariance, PromptInvariance, PTL
=============================================================================

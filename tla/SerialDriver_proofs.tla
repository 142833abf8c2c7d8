------------------------ MODULE SerialDriver_proofs ------------------------
(***************************************************************************)
(* Proofs about the serial driver for every frame length and every set of  *)
(* commands.                                                               *)
(***************************************************************************)
EXTENDS SerialDriver, TLAPS

\* What is being sent is the latest command, and the executor reopens the port
\* only after a send failed.
SendInv ==
    /\ epc = "send" => packet = latest
    /\ epc \in ReopenSteps => missed

IInv == TypeOK /\ SendInv /\ McuIsCurrent

\* clamp yields a byte.
LEMMA ClampIsByte == \A d \in Int : clamp(d) \in 0..255
  BY DEF clamp

\* The inductive invariant holds initially.
LEMMA InitIInv == Init => IInv
<1> SUFFICES ASSUME Init PROVE IInv
  OBVIOUS
<1>1. 0 \in Offsets /\ TestPacket \in Packets /\ latest \in Packets
  BY FrameLenAssumption, InitialPacketAssumption DEF Init, Offsets, Packets, TestPacket
<1>2. TypeOK
  BY <1>1 DEF Init, TypeOK
<1>3. SendInv /\ McuIsCurrent
  BY DEF Init, SendInv, McuIsCurrent, ReopenSteps
<1> QED BY <1>2, <1>3 DEF IInv

\* Bytes that leave the wire keep the offset within the frame.
LEMMA ConsumeType ==
  ASSUME TypeOK, NEW n \in Nat, Consume(n)
  PROVE  pos' \in Offsets /\ hot' \subseteq Offsets \ {0}
<1>1. pos' \in Offsets
  BY FrameLenAssumption DEF Consume, TypeOK, Offsets
<1>2. hot' \subseteq Offsets \ {0}
  BY DEF Consume, TypeOK
<1> QED BY <1>1, <1>2

\* One step of reopenPort, whichever thread takes it.
LEMMA ReopenStep ==
  ASSUME TypeOK, NEW p, NEW q, NEW back, reopenPort(p, q, back)
  PROVE  /\ p \in ReopenSteps /\ (q = back \/ q \in ReopenSteps)
         /\ portOpen' \in BOOLEAN
<1>1. p \in ReopenSteps /\ (q = back \/ q \in ReopenSteps)
  BY DEF reopenPort, ReopenSteps
<1>2. portOpen' \in BOOLEAN
  BY Zenon DEF reopenPort, TypeOK
<1> QED BY <1>1, <1>2

\* The receive thread's steps preserve the invariant: they touch neither the
\* commands nor the executor.
LEMMA ReceiverInv ==
  ASSUME IInv, Receiver
  PROVE  IInv'
<1>t. TypeOK /\ SendInv /\ McuIsCurrent
  BY DEF IInv
<1>u. UNCHANGED <<ok, noisy, device, epc, sendVars>>
  BY DEF Receiver, ReceiveLoop, receiveHeader, receiveFrame, PublishReferee, ReceiverReopens
<1>1. SendInv' /\ McuIsCurrent'
  BY <1>u, <1>t DEF sendVars, SendInv, McuIsCurrent
<1>2. rpc' \in {"loop", "header", "data", "publish", "exited"} \union ReopenSteps
  BY <1>t, ReopenStep DEF Receiver, ReceiveLoop, receiveHeader, receiveFrame,
     PublishReferee, ReceiverReopens, ReopenSteps
<1>3. portOpen' \in BOOLEAN
  BY <1>t, ReopenStep DEF TypeOK, Receiver, ReceiveLoop, receiveHeader, receiveFrame,
     PublishReferee, ReceiverReopens
<1>4. pos' \in Offsets /\ hot' \subseteq Offsets \ {0} /\ start' \in Offsets
  <2>1. CASE UNCHANGED wireVars
    BY <2>1, <1>t DEF wireVars, TypeOK
  <2>2. CASE receiveHeader
    BY <2>2, <2>1, <1>t, ConsumeType DEF receiveHeader, TypeOK
  <2>3. CASE receiveFrame
    <3>1. FrameLen - 1 \in Nat /\ \A n \in 1..FrameLen - 2 : n \in Nat
      BY FrameLenAssumption
    <3> QED BY <3>1, <2>3, <1>t, ConsumeType DEF receiveFrame, TypeOK
  <2> QED BY <2>1, <2>2, <2>3 DEF Receiver, ReceiveLoop, PublishReferee, ReceiverReopens
<1>5. TypeOK'
  BY <1>u, <1>2, <1>3, <1>4, <1>t DEF TypeOK, sendVars
<1> QED BY <1>1, <1>5 DEF IInv

\* The executor's steps preserve the invariant.
LEMMA SenderInv ==
  ASSUME IInv, \/ Sender
               \/ \E t \in Twists : sendTwistData(t)
               \/ \E d \in Statuses : sendStatusData(d)
  PROVE  IInv'
<1>t. TypeOK /\ SendInv /\ McuIsCurrent
  BY DEF IInv
<1>1. ASSUME NEW t \in Twists, sendTwistData(t)
      PROVE  IInv'
  <2>1. latest' \in Packets
    BY <1>1, <1>t DEF sendTwistData, TypeOK, Packets
  <2>2. TypeOK'
    BY <2>1, <1>1, <1>t DEF sendTwistData, TypeOK, wireVars
  <2>3. SendInv' /\ McuIsCurrent'
    BY <1>1 DEF sendTwistData, SendInv, McuIsCurrent, ReopenSteps
  <2> QED BY <2>2, <2>3 DEF IInv
<1>2. ASSUME NEW d \in Statuses, sendStatusData(d)
      PROVE  IInv'
  <2>1. latest' \in Packets
    <3>1. clamp(d) \in 0..255
      BY StatusesAssumption, ClampIsByte
    <3> QED BY <3>1, <1>2, <1>t DEF sendStatusData, TypeOK, Packets
  <2>2. TypeOK'
    BY <2>1, <1>2, <1>t DEF sendStatusData, TypeOK, wireVars
  <2>3. SendInv' /\ McuIsCurrent'
    BY <1>2 DEF sendStatusData, SendInv, McuIsCurrent, ReopenSteps
  <2> QED BY <2>2, <2>3 DEF IInv
<1>3. CASE sendCombinedData
  <2>1. TypeOK'
    BY <1>3, <1>t DEF sendCombinedData, TypeOK, wireVars
  <2>2. SendInv' /\ McuIsCurrent'
    BY <1>3 DEF sendCombinedData, SendInv, McuIsCurrent, ReopenSteps
  <2> QED BY <2>1, <2>2 DEF IInv
<1>4. CASE portSend
  <2>1. TypeOK'
    BY <1>4, <1>t DEF portSend, TypeOK, wireVars, ReopenSteps
  <2>2. SendInv' /\ McuIsCurrent'
    BY <1>4, <1>t DEF portSend, SendInv, McuIsCurrent, ReopenSteps
  <2> QED BY <2>1, <2>2 DEF IInv
<1>5. CASE ExecutorReopens
  <2>1. /\ epc \in ReopenSteps /\ (epc' = "idle" \/ epc' \in ReopenSteps)
        /\ portOpen' \in BOOLEAN
    BY <1>5, <1>t, ReopenStep DEF ExecutorReopens
  <2>2. UNCHANGED <<ok, noisy, device, rpc, wireVars, sendVars>>
    BY <1>5 DEF ExecutorReopens
  <2>3. TypeOK'
    BY <2>1, <2>2, <1>t DEF TypeOK, wireVars, sendVars
  <2>4. SendInv' /\ McuIsCurrent'
    BY <2>1, <2>2, <1>t DEF SendInv, McuIsCurrent, sendVars, ReopenSteps
  <2> QED BY <2>3, <2>4 DEF IInv
<1> QED BY <1>1, <1>2, <1>3, <1>4, <1>5 DEF Sender

\* The environment's steps preserve the invariant.
LEMMA EnvironmentInv ==
  ASSUME IInv, Fault \/ Settle \/ Shutdown
  PROVE  IInv'
<1>t. TypeOK /\ SendInv /\ McuIsCurrent
  BY DEF IInv
<1>1. UNCHANGED <<portOpen, rpc, epc, start, sendVars>>
  BY DEF Fault, Settle, Shutdown, wireVars
<1>2. ok' \in BOOLEAN /\ noisy' \in BOOLEAN /\ device' \in BOOLEAN
  BY <1>t, Zenon DEF Fault, Settle, Shutdown, TypeOK
<1>3. pos' \in Offsets /\ hot' \subseteq Offsets \ {0}
  BY <1>t, ConsumeType DEF Fault, Settle, Shutdown, TypeOK, wireVars
<1>4. TypeOK'
  BY <1>1, <1>2, <1>3, <1>t DEF TypeOK, sendVars
<1>5. SendInv' /\ McuIsCurrent'
  BY <1>1, <1>t DEF SendInv, McuIsCurrent, sendVars
<1> QED BY <1>4, <1>5 DEF IInv

\* IInv is an inductive invariant of the driver.
THEOREM Invariance == Spec => []IInv
<1>1. IInv /\ [Next]_vars => IInv'
  <2> SUFFICES ASSUME IInv, [Next]_vars PROVE IInv'
    OBVIOUS
  <2>1. CASE Next
    BY <2>1, ReceiverInv, SenderInv, EnvironmentInv DEF Next
  <2>2. CASE UNCHANGED vars
    BY <2>2 DEF vars, wireVars, sendVars, IInv, TypeOK, SendInv, McuIsCurrent
  <2> QED BY <2>1, <2>2
<1> QED BY InitIInv, <1>1, PTL DEF Spec

\* The driver's variables keep their types; every status sent fits a byte.
THEOREM TypeCorrect == Spec => []TypeOK
  BY Invariance, PTL DEF IInv

\* Whatever the receive thread does to the shared port, a send that was not
\* skipped or lost leaves the MCU with the latest velocity and status.
THEOREM McuCorrect == Spec => []McuIsCurrent
  BY Invariance, PTL DEF IInv
=============================================================================

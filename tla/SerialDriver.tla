---------------------------- MODULE SerialDriver ----------------------------
(***************************************************************************)
(* rm_serial_driver: the link to the lower controller (MCU).  A receive    *)
(* thread reads frames byte by byte from the port and publishes the        *)
(* referee messages; the executor's thread runs the two subscriptions that *)
(* send the combined velocity and status packet.  Both threads close and   *)
(* reopen the same port object on an exception, without a lock.            *)
(*                                                                         *)
(* The byte stream is abstracted to the offset of the next byte within the *)
(* MCU's current frame and to the payload offsets at which that frame      *)
(* happens to hold the header value 0x5A.  The CRC accepts exactly the     *)
(* bytes of one whole frame.  The calls on the port object are atomic; the *)
(* port throws when it is not open, already open, or the device is gone.   *)
(***************************************************************************)
EXTENDS Integers

CONSTANTS
    FrameLen,   \* sizeof(ReceivePacket), in bytes
    Twists,     \* velocity commands
    Statuses    \* values of /sentry_status, 32-bit integers

ASSUME FrameLenAssumption == FrameLen \in Nat /\ FrameLen >= 2
ASSUME StatusesAssumption == Statuses \subseteq Int
ASSUME InitialPacketAssumption == 0 \in Twists

VARIABLES
    ok,        \* rclcpp::ok()
    noisy,     \* faults may still happen; once FALSE the link is sound
    device,    \* the serial device is plugged in
    portOpen,  \* serial_driver_->port()->is_open()
    rpc,       \* the receive thread
    epc,       \* the executor's thread
    pos,       \* offset of the next byte on the wire
    hot,       \* payload offsets of the current frame that hold 0x5A
    start,     \* offset at which the accepted header byte was read
    latest,    \* latest_vx_, latest_vy_, latest_vz_ and latest_status_
    packet,    \* the SendPacket being sent
    mcu,       \* the last packet the MCU got
    missed     \* ghost: latest was not sent, the send was skipped or failed

wireVars == <<pos, hot, start>>
sendVars == <<latest, packet, mcu, missed>>
vars == <<ok, noisy, device, portOpen, rpc, epc, wireVars, sendVars>>

Offsets == 0..FrameLen - 1
Packets == [twist : Twists, mode : 0..255]
ReopenSteps == {"check", "close", "open", "sleep"}

TypeOK ==
    /\ ok \in BOOLEAN /\ noisy \in BOOLEAN /\ device \in BOOLEAN
    /\ portOpen \in BOOLEAN
    /\ rpc \in {"loop", "header", "data", "publish", "exited"} \union ReopenSteps
    /\ epc \in {"idle", "combine", "send"} \union ReopenSteps
    /\ pos \in Offsets /\ start \in Offsets
    /\ hot \subseteq Offsets \ {0}
    /\ latest \in Packets /\ packet \in Packets /\ mcu \in Packets
    /\ missed \in BOOLEAN

\* The constructor has opened the port, started the receive thread and sent
\* the test packet, whose status is not that of the zeroed latest values.
TestPacket == [twist |-> 0, mode |-> 3]
Init ==
    /\ ok = TRUE /\ noisy = TRUE /\ device = TRUE /\ portOpen = TRUE
    /\ rpc = "loop" /\ epc = "idle"
    /\ pos \in Offsets /\ hot = {} /\ start = 0
    /\ latest = [twist |-> 0, mode |-> 0]
    /\ packet = TestPacket /\ mcu = TestPacket
    /\ missed = TRUE

-----------------------------------------------------------------------------
(* The wire                                                                  *)

\* n bytes leave the wire.  A new frame has header values in its payload only
\* while the link is noisy.
Consume(n) ==
    /\ pos' = (pos + n) % FrameLen
    /\ IF pos + n < FrameLen THEN UNCHANGED hot
       ELSE hot' \in (IF noisy THEN SUBSET (Offsets \ {0}) ELSE {{}})

PortWorks == portOpen /\ device

-----------------------------------------------------------------------------
(* reopenPort, run by either thread: p is the thread's program counter, q its *)
(* next value and back where the caller continues.                            *)

reopenPort(p, q, back) ==
    \/ p = "check" /\ q = (IF portOpen THEN "close" ELSE "open") /\ UNCHANGED portOpen
    \/ p = "close" /\ portOpen' = FALSE /\ q = "open"
    \/ p = "open" /\ ~portOpen /\ device /\ portOpen' = TRUE /\ q = back
    \/ /\ p = "open" /\ (portOpen \/ ~device)
       /\ q = (IF ok THEN "sleep" ELSE back)
       /\ UNCHANGED portOpen
    \/ p = "sleep" /\ q = "check" /\ UNCHANGED portOpen

-----------------------------------------------------------------------------
(* The receive thread: receiveData                                           *)

ReceiveLoop ==
    /\ rpc = "loop"
    /\ rpc' = IF ok THEN "header" ELSE "exited"
    /\ UNCHANGED <<ok, noisy, device, portOpen, epc, wireVars, sendVars>>

\* Mutant: the bytes are taken for a frame whatever the first one is.
receiveHeaderUnchecked ==
    /\ rpc = "header"
    /\ \/ /\ PortWorks
          /\ Consume(1)
          /\ rpc' = "data" /\ start' = pos
       \/ ~PortWorks /\ rpc' = "check" /\ UNCHANGED wireVars
    /\ UNCHANGED <<ok, noisy, device, portOpen, epc, sendVars>>

\* receive(header), one byte; the thread blocks here while nothing arrives.
receiveHeader ==
    /\ rpc = "header"
    /\ \/ /\ PortWorks
          /\ Consume(1)
          /\ \/ pos \in {0} \union hot /\ rpc' = "data" /\ start' = pos
             \/ pos \notin {0} \union hot /\ rpc' = "loop" /\ UNCHANGED start
       \/ ~PortWorks /\ rpc' = "check" /\ UNCHANGED wireVars
    /\ UNCHANGED <<ok, noisy, device, portOpen, epc, sendVars>>

\* receive(data): the number of bytes it returns is ignored.  Only a whole
\* frame passes the CRC; a short read leaves bytes of the previous frame.
receiveFrame ==
    /\ rpc = "data"
    /\ \/ /\ PortWorks
          /\ Consume(FrameLen - 1)
          /\ rpc' = IF start = 0 /\ pos = 1 THEN "publish" ELSE "loop"
       \/ /\ PortWorks /\ noisy
          /\ \E n \in 1..FrameLen - 2 : Consume(n)
          /\ rpc' = "loop"
       \/ ~PortWorks /\ rpc' = "check" /\ UNCHANGED <<pos, hot>>
    /\ UNCHANGED <<ok, noisy, device, portOpen, epc, start, sendVars>>

\* The four referee messages of a frame are published one after the other.
PublishReferee ==
    /\ rpc = "publish"
    /\ rpc' = "loop"
    /\ UNCHANGED <<ok, noisy, device, portOpen, epc, wireVars, sendVars>>

ReceiverReopens ==
    /\ reopenPort(rpc, rpc', "loop")
    /\ UNCHANGED <<ok, noisy, device, epc, wireVars, sendVars>>

-----------------------------------------------------------------------------
(* The executor's thread                                                     *)

sendTwistData(t) ==
    /\ ok /\ epc = "idle"
    /\ latest' = [latest EXCEPT !.twist = t]
    /\ epc' = "combine"
    /\ UNCHANGED <<ok, noisy, device, portOpen, rpc, wireVars, packet, mcu, missed>>

\* std::clamp(status, 0, 255): latest_status_ is a uint8_t.
clamp(d) == IF d < 0 THEN 0 ELSE IF d > 255 THEN 255 ELSE d

sendStatusData(d) ==
    /\ ok /\ epc = "idle"
    /\ latest' = [latest EXCEPT !.mode = clamp(d)]
    /\ epc' = "combine"
    /\ UNCHANGED <<ok, noisy, device, portOpen, rpc, wireVars, packet, mcu, missed>>

\* Mutant: only the velocity is copied into the packet.
sendCombinedDataNoStatus ==
    /\ epc = "combine"
    /\ packet' = [packet EXCEPT !.twist = latest.twist]
    /\ IF portOpen THEN epc' = "send" /\ UNCHANGED missed
                   ELSE epc' = "idle" /\ missed' = TRUE
    /\ UNCHANGED <<ok, noisy, device, portOpen, rpc, wireVars, latest, mcu>>

\* sendCombinedData up to its check of the port ...
sendCombinedData ==
    /\ epc = "combine"
    /\ packet' = latest
    /\ IF portOpen THEN epc' = "send" /\ UNCHANGED missed
                   ELSE epc' = "idle" /\ missed' = TRUE
    /\ UNCHANGED <<ok, noisy, device, portOpen, rpc, wireVars, latest, mcu>>

\* ... and the write, before which the receive thread may close the port.
portSend ==
    /\ epc = "send"
    /\ \/ PortWorks /\ mcu' = packet /\ missed' = FALSE /\ epc' = "idle"
       \/ ~PortWorks /\ missed' = TRUE /\ epc' = "check" /\ UNCHANGED mcu
    /\ UNCHANGED <<ok, noisy, device, portOpen, rpc, wireVars, latest, packet>>

ExecutorReopens ==
    /\ reopenPort(epc, epc', "idle")
    /\ UNCHANGED <<ok, noisy, device, rpc, wireVars, sendVars>>

-----------------------------------------------------------------------------
(* The environment                                                           *)

\* Faults: the device is unplugged or plugged in, bytes get lost.
Fault ==
    /\ noisy
    /\ \/ device' = ~device /\ UNCHANGED <<pos, hot>>
       \/ Consume(1) /\ UNCHANGED device
    /\ UNCHANGED <<ok, noisy, portOpen, rpc, epc, start, sendVars>>

\* From now on the device is there, no byte is lost and no payload byte looks
\* like a header.
Settle ==
    /\ noisy /\ device
    /\ noisy' = FALSE
    /\ hot' = {}
    /\ UNCHANGED <<ok, device, portOpen, rpc, epc, pos, start, sendVars>>

Shutdown ==
    /\ ok
    /\ ok' = FALSE
    /\ UNCHANGED <<noisy, device, portOpen, rpc, epc, wireVars, sendVars>>

-----------------------------------------------------------------------------
Receiver == ReceiveLoop \/ receiveHeader \/ receiveFrame \/ PublishReferee
            \/ ReceiverReopens
Sender == sendCombinedData \/ portSend \/ ExecutorReopens

Next ==
    \/ Receiver
    \/ Sender
    \/ \E t \in Twists : sendTwistData(t)
    \/ \E d \in Statuses : sendStatusData(d)
    \/ Fault
    \/ Settle
    \/ Shutdown

Spec == Init /\ [][Next]_vars

(* Each thread keeps running, and the MCU keeps sending: a receive from a    *)
(* working port returns.  Commands may come or not.                          *)
FairSpec == Spec /\ WF_vars(Receiver) /\ WF_vars(Sender)

-----------------------------------------------------------------------------
(* Properties                                                                *)

\* Whenever the executor is between two callbacks and the last send was not
\* skipped or lost, the MCU holds the latest velocity together with the latest
\* status, whichever of the two came last and whatever the receive thread did
\* to the port meanwhile.
McuIsCurrent == epc = "idle" /\ ~missed => mcu = latest

\* A status or velocity that was lost while the port was closed reaches the MCU
\* with a later packet, once the link is sound, the receive thread no longer
\* disturbs the port and velocity commands keep coming, as they do while the
\* controller follows a path.
LatestReachesMcu ==
    /\ <>[](ok /\ ~noisy /\ rpc \notin ReopenSteps)
    /\ []<>(epc = "combine")
    => []<>(epc = "idle" /\ mcu = latest)

\* Once the link is sound the port is opened again: the two threads' reopenPort
\* calls, which close each other's freshly opened port and fail on it, never
\* keep it closed for good.
PortReopens == ~noisy ~> (portOpen \/ ~ok)

\* Once the link is sound and the executor no longer disturbs the port, frames
\* are received again, from every misalignment, short read, unplugged device
\* and half-done reopenPort, unless the node shuts down.  (An executor that
\* reopens the port again and again can starve the receive thread.)
ReceiverRecovers ==
    <>[](~noisy /\ epc \notin ReopenSteps) => []<>(rpc = "publish" \/ ~ok)

\* After a shutdown request the receive thread ends, so that the destructor's
\* join returns (as long as the MCU sends or the port fails).
ReceiverExits == ~ok ~> (rpc = "exited")

\* The link recovers in both directions from what the device, the line and the two
\* threads do to it, and the receive thread ends after a shutdown.
LinkRecovers ==
    /\ PortReopens /\ ReceiverRecovers
    /\ LatestReachesMcu /\ ReceiverExits
=============================================================================

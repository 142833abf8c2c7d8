---------------------------- MODULE LivoxFrames ----------------------------
(***************************************************************************)
(* How livox_ros_driver2 cuts the packets of its lidars into frames        *)
(* (comm/pub_handler.cpp).  The SDK thread queues packets                  *)
(* (OnLivoxLidarPointCloudCallback); RawDataProcess takes them one by one, *)
(* adds their points to the lidar's LidarPubHandler and lets CheckTimer    *)
(* decide whether a frame is due: by the lidar's own time stamps while     *)
(* is_timestamp_sync_ is set, by the host's clock otherwise.  The flag is  *)
(* one for all lidars and follows the last packet that arrived, not the    *)
(* packet being processed.                                                 *)
(*                                                                         *)
(* A packet carries two points, half a millisecond apart; time is counted  *)
(* in half milliseconds.  Nothing makes a packet arrive in time: one may   *)
(* be lost, late or early, a lidar's clock may be set back, and so may the *)
(* host's, which stamps the packets of a lidar without a time source in    *)
(* the callback (GetEthPacketTimestamp) and is read again by CheckTimer.   *)
(***************************************************************************)
EXTENDS Integers, Sequences, FiniteSets

CONSTANTS Heads,               \* the lidars
          publish_interval_ms_,
          Phases,              \* where a lidar's own clock may stand at the start
          Gaps,                \* from one stamp of a lidar to its next: 2 for the packet
                               \* that follows, less or more for an early or lost one
          HostSteps,           \* how far the host's clock moves at once
          MaxHost,             \* the host's clock is followed up to here
          MaxPackets,          \* number of packets that are followed
          MaxRaw               \* longest raw packet queue that is followed

ASSUME FrameAssumption ==
  /\ IsFiniteSet(Heads)
  /\ publish_interval_ms_ \in Nat \ {0}
  /\ Phases \subseteq Nat /\ Gaps \subseteq Int /\ HostSteps \subseteq Int
  /\ MaxHost \in Nat /\ MaxPackets \in Nat /\ MaxRaw \in Nat

kRatioOfMsToNs == 2
publish_interval_ == publish_interval_ms_ * kRatioOfMsToNs
publish_interval_tolerance_ == publish_interval_ - kRatioOfMsToNs

VARIABLES now,                 \* the host's clock
          sent,                \* per lidar, its own clock at its last packet
          packets,             \* number of packets so far
          is_timestamp_sync_,
          raw_packet_queue_,
          points_clouds_,      \* LidarPubHandler: the points not published yet
          last_pub_time_,      \* 0 until the first unsynchronised check
          frame_,              \* the last frame given to the callback: a packet per lidar
          reached,             \* history, per lidar: time of its last point processed
          ordered,             \* history: the lidars whose points' times have only grown
          steady               \* history: the lidars that had a synchronised frame and since
                               \* then only packets without a gap, all checked as synchronised

frameVars == <<now, sent, packets, is_timestamp_sync_, raw_packet_queue_, points_clouds_,
               last_pub_time_, frame_, reached, ordered, steady>>

FrameInit ==
  /\ now = 1
  /\ sent \in [Heads -> Phases]
  /\ packets = 0
  /\ is_timestamp_sync_ = FALSE
  /\ raw_packet_queue_ = <<>>
  /\ points_clouds_ = [h \in Heads |-> <<>>]
  /\ last_pub_time_ = 0
  /\ frame_ = {}
  /\ reached = [h \in Heads |-> 0]
  /\ ordered = Heads
  /\ steady = {}

(***************************************************************************)
(* OnLivoxLidarPointCloudCallback, on a packet of h.  Every packet, of     *)
(* points or of the IMU (whose data go another way), sets the flag for all *)
(* lidars.  A packet of points is stamped by the lidar or, without a time  *)
(* source, by the host.                                                    *)
(***************************************************************************)
OnLivoxLidarPointCloudCallback(h, time_source, points) ==
  /\ packets < MaxPackets /\ packets' = packets + 1
  /\ is_timestamp_sync_' = time_source
  /\ \/ /\ ~points
        /\ UNCHANGED <<sent, raw_packet_queue_>>
     \/ /\ points
        /\ Len(raw_packet_queue_) < MaxRaw
        /\ \E t \in IF time_source THEN {sent[h] + g : g \in Gaps} \cap Nat ELSE {now} :
             /\ raw_packet_queue_' = Append(raw_packet_queue_, [handle |-> h, time_stamp |-> t])
             /\ sent' = IF time_source THEN [sent EXCEPT ![h] = t] ELSE sent
  /\ UNCHANGED <<now, points_clouds_, last_pub_time_, frame_, reached, ordered, steady>>

\* The host's clock moves, also between the callback and the thread that cuts the frames.
HostClock ==
  /\ now' \in {now + d : d \in HostSteps} \cap (1 .. MaxHost)
  /\ UNCHANGED <<sent, packets, is_timestamp_sync_, raw_packet_queue_, points_clouds_,
                 last_pub_time_, frame_, reached, ordered, steady>>

GetLidarBaseTime(c) == IF c = <<>> THEN 0 ELSE c[1]
GetRecentTimeStamp(c) == IF c = <<>> THEN 0 ELSE c[Len(c)]

\* PointCloudProcess: offset_time of point i is time_stamp + i * point_interval
PointCloudProcess(c, pkt) == c \o <<pkt.time_stamp, pkt.time_stamp + 1>>

\* CheckTimer with time synchronisation: the last stamp is in a millisecond that ends a
\* frame, and far enough from the first (the difference is unsigned: less than 0 is far).
DueSynced(c) ==
  /\ (GetRecentTimeStamp(c) \div kRatioOfMsToNs) % publish_interval_ms_ = 0
  /\ GetRecentTimeStamp(c) \div kRatioOfMsToNs # 0
  /\ ~(GetRecentTimeStamp(c) - GetLidarBaseTime(c) \in 0 .. publish_interval_tolerance_ - 1)

\* one PointPacket of the frame: the base time is read before the points are swapped out
Packet(h, c) == [handle |-> h, base_time |-> GetLidarBaseTime(c), points |-> c]

(***************************************************************************)
(* The messages Lddc makes of a packet.  A CustomMsg has a time base and   *)
(* for each point a 32-bit offset, in nanoseconds, which wraps after some  *)
(* 4.3 seconds; a PointCloud2 has a stamp and the points' own times.       *)
(***************************************************************************)
OffsetRange == 8589
CustomMsg(p) ==
  [timebase |-> IF p.points = <<>> THEN 0 ELSE p.base_time,
   offset_time |-> [i \in DOMAIN p.points |-> (p.points[i] - p.base_time) % OffsetRange]]
Pointcloud2Msg(p) ==
  [stamp |-> IF p.points = <<>> THEN 0 ELSE p.base_time, timestamp |-> p.points]

(* The clouds of hs leave in one frame; a lidar without points has no      *)
(* packet in it (and its base_time slot is used by the next one).          *)
Publish(clouds, hs) ==
  /\ frame_' = {Packet(h, clouds[h]) : h \in {g \in hs : clouds[g] # <<>>}}
  /\ points_clouds_' = [h \in Heads |-> IF h \in hs THEN <<>> ELSE clouds[h]]

Keep(clouds) == points_clouds_' = clouds /\ UNCHANGED frame_

\* The packet starts where the last one of its lidar ended.
Follows(pkt) == pkt.time_stamp = reached[pkt.handle] + 1

(* Mutant: with time synchronisation a frame takes all lidars' points too. *)
CheckSyncedOfAll(pkt, clouds) ==
  /\ is_timestamp_sync_
  /\ IF DueSynced(clouds[pkt.handle])
       THEN Publish(clouds, Heads) /\ steady' = steady \cup {pkt.handle}
       ELSE Keep(clouds) /\ steady' = IF Follows(pkt) THEN steady ELSE steady \ {pkt.handle}
  /\ UNCHANGED last_pub_time_

CheckSynced(pkt, clouds) ==
  /\ is_timestamp_sync_
  /\ IF DueSynced(clouds[pkt.handle])
       THEN Publish(clouds, {pkt.handle}) /\ steady' = steady \cup {pkt.handle}
       ELSE Keep(clouds) /\ steady' = IF Follows(pkt) THEN steady ELSE steady \ {pkt.handle}
  /\ UNCHANGED last_pub_time_

\* Without, what the host's clock lost since last_pub_time_ is no interval either (signed).
CheckUnsynced(pkt, clouds) ==
  /\ ~is_timestamp_sync_
  /\ \/ /\ last_pub_time_ = 0
        /\ last_pub_time_' = now
        /\ Keep(clouds) /\ steady' = steady \ {pkt.handle}
     \/ /\ last_pub_time_ # 0
        /\ IF now - last_pub_time_ < publish_interval_
             THEN Keep(clouds) /\ steady' = steady \ {pkt.handle} /\ UNCHANGED last_pub_time_
             ELSE /\ last_pub_time_' = last_pub_time_ + publish_interval_
                  /\ Publish(clouds, Heads) /\ steady' = {}

CheckTimer(pkt, clouds) == CheckSynced(pkt, clouds) \/ CheckUnsynced(pkt, clouds)

\* RawDataProcess: the oldest packet, then CheckTimer.
RawDataProcess ==
  /\ raw_packet_queue_ # <<>>
  /\ raw_packet_queue_' = Tail(raw_packet_queue_)
  /\ LET pkt == Head(raw_packet_queue_)
         h == pkt.handle
     IN  /\ CheckTimer(pkt, [points_clouds_ EXCEPT ![h] = PointCloudProcess(@, pkt)])
         /\ reached' = [reached EXCEPT ![h] = pkt.time_stamp + 1]
         /\ ordered' = IF pkt.time_stamp > reached[h] THEN ordered ELSE ordered \ {h}
  /\ UNCHANGED <<now, sent, packets, is_timestamp_sync_>>

FrameNext ==
  \/ \E h \in Heads, time_source, points \in BOOLEAN :
       OnLivoxLidarPointCloudCallback(h, time_source, points)
  \/ HostClock
  \/ RawDataProcess

FrameSpec == FrameInit /\ [][FrameNext]_frameVars

(***************************************************************************)
(* Properties                                                              *)
(***************************************************************************)
(* The consumers of a message can tell when each point was taken: in both  *)
(* formats the first point is at the time of the message, and offsets and  *)
(* time base give the points' times as far as the offsets reach.  Of a     *)
(* lidar whose stamps have never gone back or overlapped the points are in *)
(* the order of their times, and those held back for the next frame are    *)
(* younger, whichever mode cut the frame.                                  *)
OffsetsStartAtBase ==
  \A p \in frame_ :
     LET c == p.points \o points_clouds_[p.handle]
         custom == CustomMsg(p)
         cloud == Pointcloud2Msg(p)
     IN  /\ p.points # <<>> /\ custom.offset_time[1] = 0
         /\ cloud.stamp = cloud.timestamp[1] /\ cloud.stamp = custom.timebase
         /\ \A j \in DOMAIN p.points :
              cloud.timestamp[j] - cloud.stamp \in 0 .. OffsetRange - 1
                => custom.timebase + custom.offset_time[j] = cloud.timestamp[j]
         /\ p.handle \in ordered => \A j \in 1 .. Len(c) - 1 : c[j] < c[j + 1]

(* A frame that follows another one of its lidar spans less than the       *)
(* publish interval, and no less than the tolerance, if since then no      *)
(* packet of the lidar was lost, late or early and none was checked while  *)
(* another lidar's packet had the flag say that there is no time source:   *)
(* no frame end is passed over, although a frame is only cut by a packet   *)
(* whose last stamp falls into the right millisecond.  A packet lost, or a *)
(* flag flipped, there makes the frame at least one interval longer.       *)
SyncedFramesAreOneInterval ==
  \A p \in frame_' :
    (frame_' # frame_ /\ is_timestamp_sync_ /\ p.handle \in steady
       /\ Follows(Head(raw_packet_queue_)))
      => p.points[Len(p.points)] - p.base_time
           \in publish_interval_tolerance_ .. publish_interval_ - 1

\* A frame gives every point its time, and one of a lidar whose packets come without gaps
\* is one interval long, although one flag for all lidars decides how each packet is cut.
FramesKeepTime ==
    [][OffsetsStartAtBase' /\ SyncedFramesAreOneInterval]_frameVars
=============================================================================

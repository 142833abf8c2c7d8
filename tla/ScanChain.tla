------------------------------ MODULE ScanChain ------------------------------
(***************************************************************************)
(* loam_interface and sensor_scan_generation: the cloud and the odometry   *)
(* of FAST_LIO are moved into the frame "odom", paired again by their      *)
(* stamps, and the cloud is moved back into the frame of the lidar.        *)
(* Transforms are moves of a plane: a quarter turn or several, then a      *)
(* shift.  Messages may be lost, and a cloud and an odometry message       *)
(* overtake each other.                                                    *)
(***************************************************************************)
EXTENDS Integers

CONSTANTS Poses,        \* poses FAST_LIO may report
          Mounts,       \* base to lidar: what TF may answer
          RobotBases,   \* lidar to robot base: what TF may answer
          MaxFrames

Transform == [place : Int \X Int, yaw : 0..3]

ASSUME ScanChainAssumption ==
  /\ Poses \union Mounts \union RobotBases \subseteq Transform
  /\ Mounts # {} /\ MaxFrames \in Nat

VARIABLES frames,                   \* frames of FAST_LIO so far
          clouds, odoms,            \* [stamp, at] and [stamp, pose], on the way to
                                    \* loam_interface
          base_frame_to_lidar_initialized_, tf_odom_to_lidar_odom_,
          registered_scan, lidar_odometry,   \* on the way to sensor_scan_generation
          mount,                    \* what TF answers now, the gimbal may turn
          wall,                     \* steady_clock, counted in pairs handled or skipped
          previous,                 \* previous_transform, previous_time
          out                       \* the last output of sensor_scan_generation

chainIn == <<frames, clouds, odoms>>
loamVars == <<base_frame_to_lidar_initialized_, tf_odom_to_lidar_odom_>>
chainVars == <<chainIn, loamVars, registered_scan, lidar_odometry, mount, wall, previous, out>>

Plus(v, w) == <<v[1] + w[1], v[2] + w[2]>>
Minus(v, w) == <<v[1] - w[1], v[2] - w[2]>>
QuarterTurns(v, n) ==
  CASE n = 0 -> v                 [] n = 1 -> <<-v[2], v[1]>>
    [] n = 2 -> <<-v[1], -v[2]>>  [] n = 3 -> <<v[2], -v[1]>>

\* tf2::Transform applied to a point, times another one, and inverted for a point
ByTransform(t, v) == Plus(t.place, QuarterTurns(v, t.yaw))
Compose(t, u) == [place |-> ByTransform(t, u.place), yaw |-> (t.yaw + u.yaw) % 4]
ByInverse(t, v) == QuarterTurns(Minus(v, t.place), (4 - t.yaw) % 4)

NoTime == -1   \* previous_time is set by the first call that needs it
NoOutput == [kind |-> "none"]
LoamInit ==
  /\ base_frame_to_lidar_initialized_ = FALSE
  /\ tf_odom_to_lidar_odom_ \in Mounts          \* not initialised by the constructor

ChainInit ==
  /\ frames = 0 /\ clouds = {} /\ odoms = {}
  /\ LoamInit
  /\ registered_scan = {} /\ lidar_odometry = {}
  /\ mount \in Mounts /\ wall = 0
  /\ previous = [place |-> <<0, 0>>, time |-> NoTime]
  /\ out = NoOutput

\* one frame of FAST_LIO: its cloud holds one point at the lidar itself
Frame(pose) ==
  /\ frames < MaxFrames
  /\ frames' = frames + 1
  /\ clouds' = clouds \cup {[stamp |-> frames, at |-> pose.place]}
  /\ odoms' = odoms \cup {[stamp |-> frames, pose |-> pose]}
  /\ UNCHANGED <<loamVars, registered_scan, lidar_odometry, mount, wall, previous, out>>

GimbalTurns ==
  /\ mount' \in Mounts \ {mount}
  /\ UNCHANGED <<chainIn, loamVars, registered_scan, lidar_odometry, wall, previous, out>>

\* a cloud is passed on even before the transform is known
pointCloudCallback(msg) ==
  /\ clouds' = clouds \ {msg}
  /\ registered_scan' = registered_scan \cup
       {[stamp |-> msg.stamp, at |-> ByTransform(tf_odom_to_lidar_odom_, msg.at),
         known |-> base_frame_to_lidar_initialized_]}
  /\ UNCHANGED <<frames, odoms, loamVars, lidar_odometry, mount, wall, previous, out>>

\* the transform is looked up once and kept
MountUsed(found) == IF base_frame_to_lidar_initialized_ THEN tf_odom_to_lidar_odom_ ELSE mount

loamOdometryCallback(msg, found) ==
  /\ odoms' = odoms \ {msg}
  /\ IF base_frame_to_lidar_initialized_ \/ found
     THEN /\ tf_odom_to_lidar_odom_' = MountUsed(found)
          /\ base_frame_to_lidar_initialized_' = TRUE
          /\ lidar_odometry' = lidar_odometry \cup
               {[stamp |-> msg.stamp, pose |-> Compose(tf_odom_to_lidar_odom_', msg.pose)]}
     ELSE UNCHANGED <<loamVars, lidar_odometry>>
  /\ UNCHANGED <<frames, clouds, registered_scan, mount, wall, previous, out>>

(***************************************************************************)
(* sensor_scan_generation: the synchronizer hands over the messages with   *)
(* the closest stamps and drops older ones.                                *)
(***************************************************************************)
Pairs(odom, cloud) ==
  /\ odom.stamp - cloud.stamp \in -1 .. 1
  /\ \A other \in lidar_odometry :
       other.stamp = cloud.stamp => odom.stamp = cloud.stamp

NewerThan(msgs, stamp) == {m \in msgs : m.stamp > stamp}

(* Mutant: the displacement is taken from the position that was published. *)
PublishedMoved(at) ==
  [position |-> <<at[2], -at[1]>>, now |-> wall',
   moved |-> Minus(<<at[2], -at[1]>>, previous.place),
   over |-> IF previous.time = NoTime THEN 0 ELSE wall' - previous.time]

\* publishOdometry: the position is published turned by a quarter turn, the
\* velocity is the displacement in "odom", as it is, over the time since the last
\* call; the first call has no time to divide by but its own duration
Published(at) ==
  [position |-> <<at[2], -at[1]>>, now |-> wall', moved |-> Minus(at, previous.place),
   over |-> IF previous.time = NoTime THEN 0 ELSE wall' - previous.time]

laserCloudAndOdometryHandler(odom, cloud, tf_lidar_to_robot_base, found) ==
  LET base == Compose(odom.pose, tf_lidar_to_robot_base).place IN
  /\ Pairs(odom, cloud)
  /\ lidar_odometry' = NewerThan(lidar_odometry, odom.stamp)
  /\ registered_scan' = NewerThan(registered_scan, cloud.stamp)
  /\ wall' = wall + 1
  /\ IF found
     THEN /\ previous' = [place |-> base, time |-> wall']
          /\ out' = [kind |-> "scan", at |-> ByInverse(odom.pose, cloud.at),
                     same |-> odom.stamp = cloud.stamp, known |-> cloud.known,
                     motion |-> Published(base)]
     ELSE UNCHANGED <<previous, out>>
  /\ UNCHANGED <<chainIn, loamVars, mount>>

ChainNext ==
  \/ \E pose \in Poses : Frame(pose)
  \/ GimbalTurns
  \/ \E msg \in clouds : pointCloudCallback(msg)
  \/ \E msg \in odoms, found \in BOOLEAN : loamOdometryCallback(msg, found)
  \/ \E odom \in lidar_odometry, cloud \in registered_scan :
       \E base \in RobotBases, found \in BOOLEAN :
         laserCloudAndOdometryHandler(odom, cloud, base, found)

ChainSpec == ChainInit /\ [][ChainNext]_chainVars

(***************************************************************************)
(* Properties                                                              *)
(***************************************************************************)
(* What the lidar saw comes back unchanged: moving a cloud into "odom" in  *)
(* one node and back in the next cancels out when it is paired with the    *)
(* odometry of its own stamp, even though the gimbal has turned since, and *)
(* once the transform was known when the cloud passed.                     *)
ScansReturnToTheLidar ==
  (out.kind = "scan" /\ out.same /\ out.known) => out.at = <<0, 0>>

(* After the first one, the velocity in an odometry message is the motion  *)
(* between the two published positions over the time between them,         *)
(* whatever pairs were skipped in between and wherever the lidar sits; but *)
(* for the quarter turn: the positions are turned against the frame the    *)
(* velocity is given in.                                                   *)
VelocityIsOfTheMotion ==
  (out'.kind = "scan" /\ out' # out /\ out.kind = "scan") =>
     /\ Minus(out'.motion.position, out.motion.position) = QuarterTurns(out'.motion.moved, 3)
     /\ out'.motion.over = out'.motion.now - out.motion.now

\* The chain of two nodes changes neither what the lidar saw nor, but for the
\* quarter turn of the position, how the robot moved, although messages are lost
\* and overtake each other.
ChainKeepsThePose ==
    [][ScansReturnToTheLidar' /\ VelocityIsOfTheMotion]_chainVars
=============================================================================

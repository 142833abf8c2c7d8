------------------------------ MODULE FastLio ------------------------------
(***************************************************************************)
(* The node of FAST_LIO: the callbacks that buffer the scans of one or two *)
(* lidars and the IMU messages, the timer that pairs them into groups and  *)
(* registers each scan, and the chain that predicts the state between two  *)
(* scans.  rclcpp::spin runs one callback at a time, so each is one step.  *)
(*                                                                         *)
(* Stamps are ticks, counted from 1.  A scan has its stamp, the time of    *)
(* its last point after it (dur) and the number of points left by the      *)
(* filters (n).  Of the filter's state only the time it has been           *)
(* propagated to is kept; of the map only whether it has been built.       *)
(***************************************************************************)
EXTENDS Integers, Sequences, FiniteSets

CONSTANTS
    Configs,     \* the parameters of the node [dual, prior, mapFile, sendTf,
                 \* timeSync, mapPub, pcdSave] with the bounds on its inputs [saver, frames, scans,
                 \* imus, back, steps]: is the map saved, which transforms are known from
                 \* the start, how many scans per lidar, IMU messages and stamps
                 \* that go back there are, and how many ticks lie between stamps
    Shapes,      \* the scans a lidar may send, [n, dur]
    MaxInitImu,  \* MAX_INI_COUNT
    SyncGap      \* the clock difference that time_sync_en corrects

ASSUME LioAssumption ==
    /\ Shapes \subseteq [n : Nat, dur : Nat]
    /\ {MaxInitImu, SyncGap} \subseteq Nat
    /\ \A c \in Configs : c.steps \subseteq Nat

VARIABLES
    cfg,           \* the parameters
    poseReceived,  \* initial_pose_received
    tf,            \* the transforms that can be looked up
    right, left,   \* lidar_right_buffer with time_151_buffer, and the left ones
    lidar_buffer, time_buffer,
    imu_buffer,
    lastLidar,     \* last_timestamp_lidar, _right and _left
    last_timestamp_imu,
    timediff,      \* timediff_lidar_wrt_imu; 0 until timediff_set_flg
    Measures,      \* the group: lidar, beg, end, imu
    lidar_pushed,
    scanTime,      \* [sum, num]: lidar_mean_scantime is sum / num
    flg_first_scan,
    imuState,      \* ImuProcess: need_init, iter, last_imu, last_end
    feats,         \* feats_undistort
    mapBuilt,      \* the k-d tree has a root
    imu_predict,   \* the prediction: buffer, started, last; history: the time reached,
                   \* and the time by which the state lagged the stamp it was given
    pcl_wait_pub,  \* there are points of the map that can be saved
    odom,          \* the last odometry that was published: its stamp and cloud, and
                   \* (history) the time its state stands for
    highOdom,      \* the last high frequency odometry, and its count
    saveReply,     \* the last reply of the save service
    seen           \* history: what happened so far

lidarVars == <<right, left, lidar_buffer, time_buffer, lastLidar, timediff>>
groupVars == <<Measures, lidar_pushed, scanTime, flg_first_scan>>
filterVars == <<imuState, feats, mapBuilt, odom>>
mapVars == <<pcl_wait_pub, saveReply>>
lioVars == <<cfg, poseReceived, tf, lidarVars, imu_buffer, last_timestamp_imu,
             groupVars, filterVars, imu_predict, mapVars, highOdom, seen>>

NoScan == [stamp |-> 0, n |-> 0, dur |-> 0]
NoOdom == [end |-> 0, state |-> 0, cloud |-> NoScan]
PublishDivider == 2   \* kImuPublishDivider is 4

LioInit ==
    /\ cfg \in Configs
    /\ poseReceived = FALSE /\ tf = cfg.frames
    /\ right = <<>> /\ left = <<>> /\ lidar_buffer = <<>> /\ time_buffer = <<>>
    /\ lastLidar = [any |-> 0, right |-> -1, left |-> -1]
    /\ imu_buffer = <<>> /\ last_timestamp_imu = -1 /\ timediff = 0
    /\ Measures = [lidar |-> NoScan, beg |-> 0, end |-> 0, imu |-> <<>>]
    /\ lidar_pushed = FALSE /\ scanTime = [sum |-> 0, num |-> 0]
    /\ flg_first_scan = TRUE
    \* last_lidar_end_time_ is not initialized: an early or a late time.
    /\ \E e \in {0, 1000} :
         imuState = [need_init |-> TRUE, iter |-> 1, last_imu |-> 0, last_end |-> e,
                     covered |-> -1]
    /\ feats = NoScan /\ mapBuilt = FALSE
    /\ imu_predict = [buffer |-> <<>>, started |-> FALSE, last |-> -1, reached |-> -1,
                      skipped |-> 0, filtered |-> FALSE, count |-> 0]
    /\ pcl_wait_pub = FALSE /\ saveReply = "none"
    /\ odom = NoOdom /\ highOdom = -1
    /\ seen = [right |-> 0, left |-> 0, imus |-> 0, back |-> 0,
               lidarBack |-> FALSE, imuBack |-> FALSE, lost |-> {}]

\* Every callback returns at once while the initial pose is awaited.
Located == ~cfg.prior \/ poseReceived

initial_pose_cbk ==
    /\ cfg.prior /\ ~poseReceived
    /\ poseReceived' = TRUE
    /\ UNCHANGED <<cfg, tf, lidarVars, imu_buffer, last_timestamp_imu, groupVars,
                   filterVars, imu_predict, mapVars, highOdom, seen>>

TfArrives(frames) ==
    /\ frames \notin tf
    /\ tf' = tf \union {frames}
    /\ UNCHANGED <<cfg, poseReceived, lidarVars, imu_buffer, last_timestamp_imu,
                   groupVars, filterVars, imu_predict, mapVars, highOdom, seen>>

-----------------------------------------------------------------------------
(* The sensors.                                                              *)

LaterOf(a, b) == IF a > b THEN a ELSE b

\* The stamps a sensor may send after the stamp t.
NextStamps(t) ==
    {LaterOf(t, 0) + d : d \in cfg.steps} \union (IF seen.back < cfg.back THEN {0} ELSE {})

BackCount(t, last) == seen.back + IF t < last THEN 1 ELSE 0

Stamped(t, shape) == [stamp |-> t, n |-> shape.n, dur |-> shape.dur]

\* After a stamp that goes back lidar_buffer is cleared and time_buffer is not.
standard_pcl_cbk(t, shape) ==
    LET back == t < lastLidar.any IN
    /\ Located /\ ~cfg.dual
    /\ seen.right < cfg.scans
    /\ lidar_buffer' = Append(IF back THEN <<>> ELSE lidar_buffer, Stamped(t, shape))
    /\ time_buffer' = Append(time_buffer, t)
    /\ lastLidar' = IF back THEN [any |-> t, right |-> -1, left |-> -1]
                    ELSE [lastLidar EXCEPT !.any = t]
    /\ seen' = [seen EXCEPT !.right = @ + 1, !.lidarBack = @ \/ back,
                            !.back = BackCount(t, lastLidar.any)]
    /\ UNCHANGED <<cfg, poseReceived, tf, right, left, timediff, imu_buffer,
                   last_timestamp_imu, groupVars, filterVars, imu_predict, mapVars, highOdom>>

\* The part the callbacks of the two lidars share: the lidar that goes back
\* empties its own buffer and the fused ones.
Received(side, t) ==
    LET back == t < lastLidar[side]
        base == IF back THEN LaterOf(lastLidar.left, lastLidar.right) ELSE lastLidar.any
    IN
    /\ Located /\ cfg.dual
    /\ seen[side] < cfg.scans
    /\ lidar_buffer' = IF back THEN <<>> ELSE lidar_buffer
    /\ time_buffer' = IF back THEN <<>> ELSE time_buffer
    /\ lastLidar' = [lastLidar EXCEPT ![side] = t, !.any = LaterOf(base, t)]
    /\ seen' = [seen EXCEPT ![side] = @ + 1, !.lidarBack = @ \/ back,
                            !.back = BackCount(t, lastLidar[side])]
    /\ UNCHANGED <<cfg, poseReceived, tf, imu_buffer, last_timestamp_imu, groupVars,
                   filterVars, imu_predict, mapVars, highOdom>>

Distance(a, b) == IF a > b THEN a - b ELSE b - a

livox_pcl_cbk_right(t, shape) ==
    /\ Received("right", t)
    /\ right' = Append(IF t < lastLidar.right THEN <<>> ELSE right, Stamped(t, shape))
    /\ timediff' = IF /\ cfg.timeSync /\ timediff = 0 /\ imu_buffer # <<>>
                      /\ Distance(lastLidar'.any, last_timestamp_imu) > SyncGap
                   THEN lastLidar'.any - last_timestamp_imu ELSE timediff
    /\ UNCHANGED left

livox_pcl_cbk_left(t, shape) ==
    /\ Received("left", t)
    /\ left' = Append(IF t < lastLidar.left THEN <<>> ELSE left, Stamped(t, shape))
    /\ UNCHANGED <<right, timediff>>

\* The chain of predictions after an IMU message with stamp t: the step goes
\* from the message before it in the buffer, whatever was predicted so far.
Predicted(p, t) ==
    LET buf == Append(p.buffer, t)
        dt  == t - p.buffer[Len(p.buffer)]
        p1  == [p EXCEPT !.buffer = buf]
    IN  IF ~p.started THEN [p1 EXCEPT !.last = t]
        ELSE IF p.buffer = <<>> THEN p1
        ELSE [p1 EXCEPT !.reached = @ + IF dt > 0 THEN dt ELSE 0,
                        !.last = t,
                        !.filtered = TRUE,
                        !.count = (@ + 1) % PublishDivider]

imu_cbk(raw) ==
    LET t    == raw + timediff
        back == t < last_timestamp_imu
    IN
    /\ Located
    /\ seen.imus < cfg.imus
    /\ imu_buffer' = Append(IF back THEN <<>> ELSE imu_buffer, t)
    /\ last_timestamp_imu' = t
    /\ imu_predict' = Predicted(imu_predict, t)
    /\ highOdom' = IF imu_predict'.filtered /\ imu_predict'.count = 0 THEN t ELSE highOdom
    /\ seen' = [seen EXCEPT !.imus = @ + 1, !.imuBack = @ \/ back,
                            !.back = BackCount(t, last_timestamp_imu)]
    /\ UNCHANGED <<cfg, poseReceived, tf, lidarVars, groupVars, filterVars, mapVars>>

-----------------------------------------------------------------------------
(* The timer.                                                                *)

\* fuse_dual_lidar_frame_once drops the older of the two front scans until the
\* stamps agree; Fronts[k] are the positions of the front scans after k drops.
Fronts ==
    LET f[k \in 0..(Len(right) + Len(left))] ==
          IF k = 0 THEN <<1, 1>>
          ELSE LET i == f[k - 1][1]
                   j == f[k - 1][2]
               IN  IF \/ i > Len(right) \/ j > Len(left)
                      \/ right[i].stamp = left[j].stamp THEN <<i, j>>
                   ELSE IF left[j].stamp > right[i].stamp THEN <<i + 1, j>>
                   ELSE <<i, j + 1>>
    IN  f[Len(right) + Len(left)]

\* The buffers after it: at most one pair is fused, and none without transform.
fuse_dual_lidar_frame_once ==
    LET i == Fronts[1]
        j == Fronts[2]
        Rest(s, k) == SubSeq(s, k, Len(s))
        a == right[i]
        b == left[j]
    IN  IF i <= Len(right) /\ j <= Len(left) /\ "lidars" \in tf
        THEN [right |-> Rest(right, i + 1), left |-> Rest(left, j + 1),
              scans |-> Append(lidar_buffer, [stamp |-> a.stamp, n |-> a.n + b.n,
                                              dur |-> LaterOf(a.dur, b.dur)]),
              times |-> Append(time_buffer, a.stamp)]
        ELSE [right |-> Rest(right, i), left |-> Rest(left, j),
              scans |-> lidar_buffer, times |-> time_buffer]

lidar_mean_scantime == IF scanTime.num = 0 THEN 0 ELSE scanTime.sum \div scanTime.num

\* The end of a scan: a scan of at most one point, or of a last point that is
\* too early, ends after the mean duration; the others count towards the mean.
Ordinary(scan) == scan.n > 1 /\ ~(2 * scan.dur < lidar_mean_scantime)

NextMeasures(scan, beg) ==
    [Measures EXCEPT !.lidar = scan, !.beg = beg,
                     !.end = beg + IF Ordinary(scan) THEN scan.dur ELSE lidar_mean_scantime]

\* The number of IMU messages that go with a scan that ends at this time.
ImuOf(end) ==
    LET before == Cardinality({i \in DOMAIN imu_buffer : imu_buffer[i] < end}) IN
    IF 0 < before /\ before < Len(imu_buffer) /\ imu_buffer[before + 1] = end
    THEN before + 1 ELSE before

\* The sum of the first n steps of time.
Total(dt, n) == LET s[i \in 0..n] == IF i = 0 THEN 0 ELSE s[i - 1] + dt[i] IN s[n]

(* Mutant: the part before the end of the last scan is not cut off. *)
PropagatedWhole(m) ==
    LET v == <<imuState.last_imu>> \o m.imu
        dt == [i \in 1..Len(m.imu) |->
                 IF v[i + 1] < imuState.last_end THEN 0 ELSE v[i + 1] - v[i]]
    IN  Total(dt, Len(m.imu)) + Distance(m.end, v[Len(v)])

\* How far UndistortPcl propagates the filter.
Propagated(m) ==
    LET v == <<imuState.last_imu>> \o m.imu
        from == imuState.last_end
        dt == [i \in 1..Len(m.imu) |->
                 IF v[i + 1] < from THEN 0
                 ELSE IF v[i] < from THEN v[i + 1] - from ELSE v[i + 1] - v[i]]
    IN  Total(dt, Len(m.imu)) + Distance(m.end, v[Len(v)])

\* The messages of the initialisation are counted; the first group resets the count.
IMU_init(m) == [imuState EXCEPT !.iter = @ + Len(m.imu), !.last_imu = m.imu[Len(m.imu)]]

\* ImuProcess::Process: nothing without IMU messages, then the initialisation,
\* then the propagation and the cloud of this group.
Process(m) ==
    IF m.imu = <<>> THEN UNCHANGED <<imuState, feats>>
    ELSE IF imuState.need_init
    THEN /\ imuState' = [IMU_init(m) EXCEPT !.need_init = ~(IMU_init(m).iter > MaxInitImu)]
         /\ UNCHANGED feats
    ELSE /\ imuState' = [imuState EXCEPT
                           !.last_imu = m.imu[Len(m.imu)], !.last_end = m.end,
                           !.covered = IF @ = -1 THEN m.end ELSE @ + Propagated(m)]
         /\ feats' = m.lidar

\* The prediction restarts at the end of the scan, with the filter's state,
\* which stands for the time stateAt, and runs through the IMU messages that are left.
Restarted(end, stateAt) ==
    LET old == {k \in 0..Len(imu_predict.buffer) :
                  \A i \in 1..k : imu_predict.buffer[i] < end}
        keep == SubSeq(imu_predict.buffer, (CHOOSE k \in old : \A l \in old : l <= k) + 1,
                       Len(imu_predict.buffer))
        chain == <<end>> \o keep
        steps == {i \in 2..Len(chain) : chain[i] > chain[i - 1]}
        dt == [i \in 1..Len(keep) |-> LaterOf(chain[i + 1] - chain[i], 0)]
        top == {1} \union steps
    IN  [imu_predict EXCEPT !.buffer = keep, !.started = TRUE, !.filtered = FALSE,
                        !.reached = stateAt + Total(dt, Len(keep)), !.skipped = end - stateAt,
                        !.last = chain[CHOOSE i \in top : \A k \in top : k <= i]]

\* No odometry goes out while the transform to the robot's base is unknown.
publish_odometry(end, stateAt, cloud) ==
    IF ~cfg.sendTf \/ "base" \in tf THEN [end |-> end, state |-> stateAt, cloud |-> cloud]
    ELSE odom

\* The rest of the timer's work on a group, after Process: the map is built from
\* the prior map or from a scan with enough points; later scans are registered.
\* The state is called the state at the end of the group, also when Process
\* returned at once and the filter still stands at the end of an earlier one.
Register(m) ==
    IF \/ feats'.n = 0
       \/ ~mapBuilt /\ IF cfg.prior THEN ~cfg.mapFile ELSE feats'.n <= 5
       \/ mapBuilt /\ feats'.n < 5
    THEN UNCHANGED <<mapBuilt, odom, imu_predict>>
    ELSE IF ~mapBuilt
    THEN mapBuilt' = TRUE /\ UNCHANGED <<odom, imu_predict>>
    ELSE /\ odom' = publish_odometry(m.end, imuState'.covered, feats')
         /\ imu_predict' = Restarted(m.end, imuState'.covered)
         /\ UNCHANGED mapBuilt

\* sync_packages: a scan is put into the group once, waits there until the IMU
\* has reached its end, and leaves the buffer with the IMU messages up to it.
Waits(f, m) ==
    /\ last_timestamp_imu < m.end
    /\ Measures' = m /\ lidar_pushed' = TRUE
    /\ lidar_buffer' = f.scans /\ time_buffer' = f.times
    /\ UNCHANGED <<imu_buffer, flg_first_scan, filterVars, imu_predict, seen>>

HandsOn(f, m) ==
    LET k == ImuOf(m.end) IN
    /\ last_timestamp_imu >= m.end
    /\ Measures' = [m EXCEPT !.imu = SubSeq(imu_buffer, 1, k)]
    /\ lidar_pushed' = FALSE
    /\ imu_buffer' = SubSeq(imu_buffer, k + 1, Len(imu_buffer))
    /\ lidar_buffer' = Tail(f.scans) /\ time_buffer' = Tail(f.times)
    /\ seen' = [seen EXCEPT !.lost = @ \union ({f.scans[1]} \ {m.lidar})]

\* The first scan only sets first_lidar_time.
timer_callback ==
    LET f == fuse_dual_lidar_frame_once
        m == IF lidar_pushed THEN Measures ELSE NextMeasures(f.scans[1], f.times[1])
    IN
    /\ Located
    /\ right' = f.right /\ left' = f.left
    /\ \/ /\ f.scans = <<>> \/ imu_buffer = <<>>
          /\ lidar_buffer' = f.scans /\ time_buffer' = f.times
          /\ UNCHANGED <<imu_buffer, groupVars, filterVars, imu_predict, seen>>
       \/ /\ f.scans # <<>> /\ imu_buffer # <<>>
          /\ scanTime' = IF ~lidar_pushed /\ Ordinary(f.scans[1])
                         THEN [sum |-> scanTime.sum + f.scans[1].dur,
                               num |-> scanTime.num + 1]
                         ELSE scanTime
          /\ \/ Waits(f, m)
             \/ /\ HandsOn(f, m)
                /\ flg_first_scan' = FALSE
                /\ IF flg_first_scan THEN UNCHANGED <<filterVars, imu_predict>>
                   ELSE Process(Measures') /\ Register(Measures')
    /\ UNCHANGED <<cfg, poseReceived, tf, lastLidar, timediff, last_timestamp_imu,
                   mapVars, highOdom>>

-----------------------------------------------------------------------------
(* The map that is published and saved.                                      *)

\* The points of the last scan are added to what was published before.
publish_map == pcl_wait_pub \/ feats.n > 0

map_publish_callback ==
    /\ cfg.mapPub
    /\ pcl_wait_pub' = publish_map
    /\ UNCHANGED <<cfg, poseReceived, tf, lidarVars, imu_buffer, last_timestamp_imu,
                   groupVars, filterVars, imu_predict, saveReply, highOdom, seen>>

\* The file may fail to be created or written.
save_to_pcd(written) == pcl_wait_pub /\ written

map_save_callback(written) ==
    /\ cfg.saver
    /\ saveReply' = IF cfg.pcdSave /\ save_to_pcd(written) THEN "success" ELSE "failure"
    /\ UNCHANGED <<cfg, poseReceived, tf, lidarVars, imu_buffer, last_timestamp_imu,
                   groupVars, filterVars, imu_predict, pcl_wait_pub, highOdom, seen>>

LioNext ==
    \/ initial_pose_cbk
    \/ \E frames \in {"lidars", "base"} : TfArrives(frames)
    \/ \E shape \in Shapes :
         \/ \E t \in NextStamps(lastLidar.any) : standard_pcl_cbk(t, shape)
         \/ \E t \in NextStamps(lastLidar.right) : livox_pcl_cbk_right(t, shape)
         \/ \E t \in NextStamps(lastLidar.left) : livox_pcl_cbk_left(t, shape)
    \/ \E raw \in NextStamps(last_timestamp_imu - timediff) : imu_cbk(raw)
    \/ timer_callback
    \/ map_publish_callback
    \/ \E written \in BOOLEAN : map_save_callback(written)

LioSpec == LioInit /\ [][LioNext]_lioVars

-----------------------------------------------------------------------------
(* Properties.                                                               *)

\* Every scan keeps its time: the buffers of scans and of times stay aligned,
\* and the group being collected starts at the stamp of its scan, whatever is
\* dropped or cleared while the frames of two lidars are fused.  With a single
\* lidar this is so until its stamps go back.
ScansKeepTheirTimes ==
    cfg.dual \/ ~seen.lidarBack =>
        /\ Len(lidar_buffer) = Len(time_buffer)
        /\ \A i \in DOMAIN lidar_buffer : lidar_buffer[i].stamp = time_buffer[i]
        /\ Measures.lidar.stamp = Measures.beg

\* sync_packages takes off the buffer the scan it hands on: no scan is lost
\* between the two, unless stamps went back and emptied the buffers while the
\* scan in front was waiting for the IMU.
NoScanIsLost == seen.lidarBack \/ seen.lost = {}

\* The filter is propagated over every interval exactly once: it stands at the
\* end of the last scan it was propagated for, whether or not messages, scans
\* or groups without IMU messages came in between (unless IMU stamps went back).
\* A group without IMU messages does not move it; the next one makes up for it.
FilterTimeIsExact ==
    imuState.covered # -1 /\ ~seen.imuBack => imuState.covered = imuState.last_end

\* Once started, the prediction chain is stamped with the last IMU message, and
\* what it integrated reaches that stamp but for what the state it was restarted
\* with lacked: the restart itself neither skips nor repeats an interval.
PredictionReachesLastImu ==
    imu_predict.started /\ ~seen.imuBack =>
        /\ imu_predict.last = last_timestamp_imu
        /\ imu_predict.reached + imu_predict.skipped = last_timestamp_imu

\* Odometry and prediction start from a state that stands for the stamp they
\* give it, and from the scan of that group; only a group without IMU messages
\* registers the scan before it once more, with a state that was not propagated.
OnlyEmptyGroupsLag ==
    [][\/ seen'.imuBack \/ Measures'.imu = <<>>
       \/ /\ odom' # odom => odom'.state = odom'.end
          /\ imu_predict'.skipped \in {0, imu_predict.skipped}]_lioVars

OdometryIsOfItsScan ==
    [][odom' # odom => odom'.cloud = Measures'.lidar \/ Measures'.imu = <<>>]_lioVars

\* Scans, their times and the state stay together: nothing is lost or propagated
\* twice, and what is published is of the scan and the time it is stamped with
\* unless its group had no IMU messages, whatever is dropped, cleared or jumps
\* back in between.
ScansAndStampsAgree ==
    /\ [](ScansKeepTheirTimes /\ NoScanIsLost)
    /\ [](FilterTimeIsExact /\ PredictionReachesLastImu)
    /\ OdometryIsOfItsScan /\ OnlyEmptyGroupsLag
=============================================================================

----------------------------- MODULE Preprocess -----------------------------
(***************************************************************************)
(* The handlers of FAST_LIO that turn a message of a lidar into the cloud  *)
(* pl_surf: which points are kept, and the time (curvature) each of them   *)
(* gets.  With feature extraction the cloud is made by give_feature (see   *)
(* ScanFeatures) from the laser lines in which the handlers sort the       *)
(* points.  A point of a message is                                        *)
(*   [place, line, tag, t, yaw, near, body]:                               *)
(* where it is (0 is the origin), its laser line, whether its tag is a     *)
(* return that is used, its time stamp, its direction in steps of a        *)
(* SweepSteps-th turn, and whether it is in the blind range or in the      *)
(* robot's body (the crop box).                                            *)
(***************************************************************************)
EXTENDS Integers, Sequences, FiniteSets

CONSTANTS
    CustomClouds,   \* the messages of livox lidars
    PointClouds,    \* the PointCloud2 messages of the others
    LidarTypes,     \* the lidar_types of PointCloud2 messages
    SweepSteps,     \* the directions of a turn
    N_SCANS,
    Filters,        \* the values of point_filter_num
    TimeScale,      \* time_unit_scale
    StrayTimes,     \* times found beyond the vectors of N_SCANS entries
    MaxCalls        \* bound on the messages; a call leaves nothing for the next one
                    \* but given_offset_time

PrePoint == [place : Nat, line : Nat, tag : BOOLEAN, t : Int, yaw : Int, near : BOOLEAN,
             body : BOOLEAN]

\* The directions are those of atan2, up to 180 degrees and above -180, which only
\* a y of -0.0 gives; the node of an AVIA subscribes to livox messages.
ASSUME PreprocessAssumption ==
    /\ CustomClouds \union PointClouds \subseteq Seq(PrePoint)
    /\ \A msg \in PointClouds : \A i \in DOMAIN msg :
         -SweepSteps < 2 * msg[i].yaw /\ 2 * msg[i].yaw <= SweepSteps
    /\ SweepSteps \in Nat \ {0} /\ N_SCANS \in Nat \ {0} /\ Filters \subseteq Nat \ {0}
    /\ TimeScale \in Nat /\ "AVIA" \notin LidarTypes

VARIABLES
    pl_surf,            \* the cloud: its points are [of, curvature]
    pl_buff,            \* the lines that are given to give_feature
    given_offset_time,  \* the points have their own times
    taken,              \* the call: its message, lidar_type, point_filter_num
                        \* and feature_enabled
    outside,            \* history: the call indexed its vectors outside their N_SCANS
                        \* entries, with the line of a point
    calls               \* the number of calls

preVars == <<pl_surf, pl_buff, given_offset_time, taken, outside, calls>>

PreInit ==
    /\ pl_surf = <<>> /\ pl_buff = <<>> /\ given_offset_time = FALSE
    /\ taken = [msg |-> <<>>, type |-> "none", filter |-> 1, features |-> FALSE]
    /\ outside = FALSE
    /\ calls = 0

\* should_drop_by_crop_box: body is what the configured box drops.
Cropped(p) == p.body

\* The numbers of a finite set, in order.
InOrder(S) == [k \in 1..Cardinality(S) |->
                 CHOOSE i \in S : Cardinality({j \in S : j < i}) = k - 1]

\* The positions of the points with a property, in order.
Those(msg, Test(_)) == InOrder({i \in DOMAIN msg : Test(i)})

Cloud(msg, is, Time(_)) == [k \in DOMAIN is |-> [of |-> is[k], curvature |-> Time(is[k])]]

\* avia_handler: the first point of a message is never used.  pl_full holds the
\* points that passed the filter and the origin elsewhere, and a point equal to
\* its predecessor there is dropped.
avia_handler(msg, filter) ==
    LET Valid(i)  == i > 1 /\ msg[i].line < N_SCANS /\ msg[i].tag /\ ~Cropped(msg[i])
        Count(i)  == Cardinality({k \in 1..i : Valid(k)})
        Copied(i) == Valid(i) /\ Count(i) % filter = 0
        Full(i)   == IF Copied(i) THEN msg[i].place ELSE 0
        Used(i)   == Copied(i) /\ Full(i) # Full(i - 1) /\ ~msg[i].near
    IN  Cloud(msg, Those(msg, Used), LAMBDA i : msg[i].t * TimeScale)

oust64_handler(msg, filter) ==
    LET Used(i) == (i - 1) % filter = 0 /\ ~Cropped(msg[i]) /\ ~msg[i].near
    IN  Cloud(msg, Those(msg, Used), LAMBDA i : msg[i].t * TimeScale)

default_handler(msg) ==
    Cloud(msg, Those(msg, LAMBDA i : ~Cropped(msg[i]) /\ ~msg[i].near), LAMBDA i : 0)

(* Mutant: the direction of the first point counts as a whole turn. *)
SweepTimeStrict(first, last, yaw) ==
    LET turn == IF yaw < first THEN first - yaw ELSE first - yaw + SweepSteps IN
    IF turn < last THEN turn + SweepSteps ELSE turn

\* The time of a point of a spinning lidar, from its direction: the turn since
\* the first point of its line, and one more turn when that is before the time
\* of the line's previous point.
SweepTime(first, last, yaw) ==
    LET turn == IF yaw <= first THEN first - yaw ELSE first - yaw + SweepSteps IN
    IF turn < last THEN turn + SweepSteps ELSE turn

\* The points of its line before a point, the last of them and the first.
EarlierOfLine(msg, i) == {k \in 1..(i - 1) : msg[k].line = msg[i].line /\ ~Cropped(msg[k])}
Previous(msg, i) == CHOOSE k \in EarlierOfLine(msg, i) : \A l \in EarlierOfLine(msg, i) : l <= k
First(msg, i) == CHOOSE k \in EarlierOfLine(msg, i) : \A l \in EarlierOfLine(msg, i) : k <= l
FirstOfLine(msg, i) == EarlierOfLine(msg, i) = {}

\* The times of all points; 0 for the first of each line, which is not used.
SweepTimes(msg) ==
    LET times[i \in 0..Len(msg)] ==
          IF i = 0 \/ FirstOfLine(msg, i) THEN 0
          ELSE SweepTime(msg[First(msg, i)].yaw, times[Previous(msg, i)], msg[i].yaw)
    IN  times

\* Without times in the message the first point of each line only starts it.
velodyne_handler(msg, filter, given) ==
    LET Used(i) == /\ ~Cropped(msg[i]) /\ (given \/ ~FirstOfLine(msg, i))
                   /\ (i - 1) % filter = 0 /\ ~msg[i].near
    IN  Cloud(msg, Those(msg, Used),
              LAMBDA i : IF given THEN msg[i].t * TimeScale ELSE SweepTimes(msg)[i])

mid360_handler(msg) ==
    Cloud(msg, Those(msg, LAMBDA i : ~Cropped(msg[i]) /\ ~FirstOfLine(msg, i) /\ ~msg[i].near),
          LAMBDA i : SweepTimes(msg)[i])

\* The vectors is_first, yaw_fp, yaw_last and time_last have N_SCANS entries and
\* are indexed with the line of a point, unchecked: always by mid360_handler, and
\* by velodyne_handler without times and features (its features check the line).
IndexesOutside(msg, type, features) ==
    \E i \in DOMAIN msg :
        /\ ~Cropped(msg[i]) /\ msg[i].line >= N_SCANS
        /\ \/ type = "MID360"
           \/ type = "VELO16" /\ ~features /\ ~(msg[Len(msg)].t > 0)

\* The clouds such a call can end with, if it ends: is_first, the first direction
\* and the last time are whatever lies beyond the vectors, and what is written
\* there may belong to another line.
StrayClouds(msg) ==
    UNION {{Cloud(msg, InOrder(kept), LAMBDA i : times[i]) : times \in [kept -> StrayTimes]} :
             kept \in SUBSET {i \in DOMAIN msg : ~Cropped(msg[i]) /\ ~msg[i].near}}

-----------------------------------------------------------------------------
(* Feature extraction: the points of each laser line.                        *)

Lines == 0..(N_SCANS - 1)

\* The lines with enough points; the others are left out.
Given(line, least) == [j \in {l \in Lines : Len(line[l]) >= least} |-> line[j]]

\* The distance of every point to its successor is taken before give_feature,
\* so a short line is left out, and so are the repeated points.
avia_lines(msg) ==
    LET Valid(i) == i > 1 /\ msg[i].line < N_SCANS /\ msg[i].tag /\ ~Cropped(msg[i])
        Full(i)  == IF Valid(i) THEN msg[i].place ELSE 0
        Used(i)  == Valid(i) /\ Full(i) # Full(i - 1)
        line[j \in Lines] == Cloud(msg, Those(msg, LAMBDA i : Used(i) /\ msg[i].line = j),
                                   LAMBDA i : msg[i].t * TimeScale)
    IN  Given(line, 6)

\* Every ring is measured, an empty one too: its last index is then -1, which
\* the loop compares as an unsigned number.
oust64_lines(msg) ==
    LET Used(i) == ~Cropped(msg[i]) /\ ~msg[i].near
        line[j \in Lines] == Cloud(msg, Those(msg, LAMBDA i : Used(i) /\ msg[i].line = j),
                                   LAMBDA i : msg[i].t * TimeScale)
    IN  line

velodyne_lines(msg, given) ==
    LET Used(i) == ~Cropped(msg[i]) /\ (given \/ ~FirstOfLine(msg, i))
        line[j \in Lines] ==
          Cloud(msg, Those(msg, LAMBDA i : Used(i) /\ msg[i].line = j),
                LAMBDA i : IF given THEN msg[i].t * TimeScale ELSE SweepTimes(msg)[i])
    IN  Given(line, 2)

-----------------------------------------------------------------------------

process_custom(msg, filter, features) ==
    /\ pl_surf' = IF features THEN <<>> ELSE avia_handler(msg, filter)
    /\ pl_buff' = IF features THEN avia_lines(msg) ELSE <<>>
    /\ taken' = [msg |-> msg, type |-> "AVIA", filter |-> filter, features |-> features]
    /\ outside' = FALSE
    /\ UNCHANGED given_offset_time

\* The handlers for spinning lidars return at once for an empty message; the
\* last two know no features.
process_cloud(msg, type, filter, features) ==
    LET given == msg[Len(msg)].t > 0 IN
    /\ given_offset_time' = IF msg = <<>> THEN given_offset_time
                            ELSE CASE type = "VELO16" -> given
                                   [] type = "MID360" -> FALSE
                                   [] OTHER -> given_offset_time
    /\ outside' = IndexesOutside(msg, type, features)
    /\ IF outside' THEN pl_surf' \in StrayClouds(msg)
       ELSE pl_surf' =
              IF msg = <<>> \/ (features /\ type \in {"OUST64", "VELO16"}) THEN <<>>
              ELSE CASE type = "OUST64" -> oust64_handler(msg, filter)
                     [] type = "VELO16" -> velodyne_handler(msg, filter, given)
                     [] type = "MID360" -> mid360_handler(msg)
                     [] OTHER -> default_handler(msg)
    /\ pl_buff' = CASE features /\ type = "OUST64" -> oust64_lines(msg)
                    [] features /\ type = "VELO16" /\ msg # <<>> -> velodyne_lines(msg, given)
                    [] OTHER -> <<>>
    /\ taken' = [msg |-> msg, type |-> type, filter |-> filter, features |-> features]

PreNext ==
    /\ calls < MaxCalls /\ calls' = calls + 1
    /\ \E filter \in Filters, features \in BOOLEAN :
        \/ \E msg \in CustomClouds : process_custom(msg, filter, features)
        \/ \E msg \in PointClouds, type \in LidarTypes :
             process_cloud(msg, type, filter, features)

PreSpec == PreInit /\ [][PreNext]_preVars

-----------------------------------------------------------------------------

\* The angle a spinning lidar has turned from the first point of a line to each
\* of its points, if they go round in one direction.
Swept(msg) ==
    LET swept[i \in 0..Len(msg)] ==
          IF i = 0 \/ FirstOfLine(msg, i) THEN 0
          ELSE LET k == Previous(msg, i)
               IN  swept[k] + ((msg[k].yaw - msg[i].yaw) % SweepSteps)
    IN  swept

\* Within the first turn of a line, the time that is computed from the
\* directions of a message without times is the angle swept since the first
\* point, through the jump of the direction from -180 to 180 degrees too.
TimesFollowTheSweep ==
    \A k \in DOMAIN pl_surf :
        \/ taken.type \notin {"VELO16", "MID360"} \/ given_offset_time
        \/ Swept(taken.msg)[pl_surf[k].of] >= SweepSteps
        \/ pl_surf[k].curvature = Swept(taken.msg)[pl_surf[k].of]

\* A line that is given to give_feature holds points of that line outside the
\* body, in the order of the message, and has a point and a successor for every
\* distance that is measured; a ring of OUST64 may be short.  The points of a
\* message without times are in the order of their times within the first turn.
LinesCanBeMeasured ==
    \A j \in DOMAIN pl_buff :
        /\ taken.type # "OUST64" => Len(pl_buff[j]) >= 2
        /\ \A k \in DOMAIN pl_buff[j] :
             LET p == taken.msg[pl_buff[j][k].of] IN p.line = j /\ ~p.body
        /\ \A k \in 1..(Len(pl_buff[j]) - 1) :
             LET a == pl_buff[j][k]
                 b == pl_buff[j][k + 1]
             IN  /\ a.of < b.of
                 /\ \/ given_offset_time \/ taken.type # "VELO16"
                    \/ Swept(taken.msg)[b.of] >= SweepSteps
                    \/ a.curvature <= b.curvature

\* A kept point is outside the blind range and the body; with every point
\* passing the filter, livox points that repeat their predecessor are dropped.
\* The points keep their order.
KeptPointsAreUsable ==
    /\ \A k \in DOMAIN pl_surf :
         LET p == taken.msg[pl_surf[k].of] IN ~p.near /\ ~p.body
    /\ \A k \in 1..(Len(pl_surf) - 1) :
         LET i == pl_surf[k].of
             j == pl_surf[k + 1].of
         IN  /\ i < j
             /\ taken.type = "AVIA" /\ taken.filter = 1 /\ j = i + 1 =>
                  taken.msg[i].place # taken.msg[j].place

\* What the handlers make of a message can be registered: usable points in order,
\* at the times they were taken, in lines that can be measured.  Nothing is
\* promised of a cloud whose call left its vectors: its message has a point of a
\* line from N_SCANS on, which mid360_handler and velodyne_handler do not check.
CloudsAreUsable ==
    /\ outside \/ (TimesFollowTheSweep /\ KeptPointsAreUsable)
    /\ LinesCanBeMeasured
=============================================================================

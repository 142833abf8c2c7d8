------------------------------- MODULE BackUp -------------------------------
(***************************************************************************)
(* BackUpFreeSpace, the behaviour that moves the robot backwards when it   *)
(* is stuck.  The way back is looked at in global_frame_, in samples one   *)
(* resolution apart that may pass over the corner of a cell; the velocity  *)
(* has the same components in robot_base_frame_, so it leads along the     *)
(* samples only while the two frames have the same axes.  The costmap and  *)
(* the pose come from services that may be late or missing;                *)
(* isCollisionFree (external, DriveOnHeading) may say either.              *)
(***************************************************************************)
EXTENDS Integers

CONSTANTS
    Scale, Paces,     \* a cell of the costmap is Paces * Scale^2 units of a place wide
    BackCells,        \* the number of cells along a side of the costmap
    Headings,         \* the headings of robot_base_frame_, vectors of length Scale
    Costmaps,         \* the costmaps: sets of cells with a cost of 253 or more
    attempt_distance, \* min(max_radius_, 0.5)
    Allowances,       \* the time allowances of the goals, 0 for none
    Starts            \* where the robot is when its pose is looked up

ASSUME BackAssumption ==
    /\ Scale \in Nat \ {0} /\ Paces \in Nat \ {0} /\ BackCells \in Nat /\ attempt_distance \in Nat
    /\ Headings \subseteq {h \in Int \X Int : h[1] * h[1] + h[2] * h[2] = Scale * Scale}
    /\ Costmaps \subseteq SUBSET ((0..(BackCells - 1)) \X (0..(BackCells - 1)))
    /\ Allowances \subseteq Nat /\ Starts \subseteq Int \X Int

VARIABLES
    phase,       \* "idle", "asked" (waits for the costmap), "checked" or "moving"
    place,       \* where robot_base_frame_ is in global_frame_
    heading,     \* and how it is turned there
    initial_pose_, \* the place that was looked up last
    twist,       \* <<twist_x_, twist_y_>>
    lethal,      \* the costmap that onRun got
    allowance,   \* command_time_allowance_
    remaining,   \* end_time_ - now
    driven,      \* the robot's velocity: "no", "cycle" (of onCycleUpdate), or "left"
                 \* (by a goal that ended because the pose was not available)
    outcome,     \* of the last goal
    aligned      \* history: the axes of the two frames have been the same since the check,
                 \* and the place at the second lookup was that of the first

backVars == <<phase, place, heading, initial_pose_, twist, lethal, allowance, remaining, driven,
              outcome, aligned>>

BackRes == Paces * Scale * Scale
MapAxis == <<Scale, 0>>

BackInit ==
    /\ phase = "idle" /\ place \in Starts /\ heading \in Headings
    /\ initial_pose_ = place /\ twist = <<0, 0>> /\ lethal = {}
    /\ allowance = 0 /\ remaining = 0
    /\ driven = "no" /\ outcome = "none" /\ aligned = FALSE

CellAt(p) == <<p[1] \div BackRes, p[2] \div BackRes>>

\* The places that are looked at along a direction: every resolution from the pose on.
Sample(p, dir, k) == <<p[1] + k * (Paces * Scale * dir[1]), p[2] + k * (Paces * Scale * dir[2])>>

isDirectionSafe(costmap, p, dir) ==
    \A k \in 0..(attempt_distance \div BackRes) :
        LET s == Sample(p, dir, k) IN
        /\ \A i \in {1, 2} : 0 <= s[i] /\ s[i] <= BackCells * BackRes
        /\ \A i \in {1, 2} : CellAt(s)[i] < BackCells
        /\ CellAt(s) \notin costmap

\* onRun, up to the answer of the costmap service, for which it blocks.  (What it
\* overwrites before it is read is forgotten here, lest the goals multiply the states.)
Goal(a) ==
    /\ phase = "idle" /\ outcome = "none"
    /\ phase' = "asked" /\ allowance' = a
    /\ initial_pose_' = place /\ twist' = <<0, 0>> /\ lethal' = {}
    /\ remaining' = 0 /\ aligned' = FALSE
    /\ UNCHANGED <<place, heading, driven, outcome>>

\* No service before the shutdown, no answer within a second or no pose, before or
\* after the check, end onRun; the robot was not moved.
onRunFails ==
    /\ phase \in {"asked", "checked"}
    /\ phase' = "idle" /\ outcome' = "FAILED"
    /\ UNCHANGED <<place, heading, initial_pose_, twist, lethal, allowance, remaining, driven, aligned>>

\* The answer, the first lookup and the check of the direction heading + pi, which is
\* also commanded.
onRun(costmap) ==
    LET back == <<-heading[1], -heading[2]>> IN
    /\ phase = "asked"
    /\ lethal' = costmap /\ initial_pose_' = place
    /\ IF isDirectionSafe(costmap, place, back)
       THEN /\ phase' = "checked" /\ outcome' = "none"
            /\ twist' = back /\ remaining' = allowance
            /\ aligned' = (heading = MapAxis)
       ELSE /\ phase' = "idle" /\ outcome' = "FAILED"
            /\ UNCHANGED <<twist, remaining, aligned>>
    /\ UNCHANGED <<place, heading, allowance, driven>>

\* The second lookup of onRun, which the move is measured from.
onRunStarts ==
    /\ phase = "checked"
    /\ phase' = "moving"
    /\ initial_pose_' = place /\ aligned' = (aligned /\ place = initial_pose_)
    /\ UNCHANGED <<place, heading, twist, lethal, allowance, remaining, driven, outcome>>

Ends(how, velocity) == phase' = "idle" /\ outcome' = how /\ driven' = velocity

Late == remaining < 0 /\ allowance > 0
Apart(p, q) == (p[1] - q[1]) * (p[1] - q[1]) + (p[2] - q[2]) * (p[2] - q[2])
Arrived == Apart(initial_pose_, place) >= attempt_distance * attempt_distance

(* Mutant: the time is only looked at when the robot has arrived. *)
onCycleUpdateTimeless(poseKnown, free) ==
    /\ phase = "moving"
    /\ IF ~poseKnown THEN Ends("FAILED", IF driven = "no" THEN "no" ELSE "left")
       ELSE IF Arrived THEN Ends("SUCCEEDED", "no")
       ELSE IF ~free THEN Ends("FAILED", "no")
       ELSE driven' = "cycle" /\ UNCHANGED <<phase, outcome>>
    /\ UNCHANGED <<place, heading, initial_pose_, twist, lethal, allowance, remaining, aligned>>

\* A pose that is not available is the only end without stopRobot.
onCycleUpdate(poseKnown, free) ==
    /\ phase = "moving"
    /\ IF Late THEN Ends("FAILED", "no")
       ELSE IF ~poseKnown THEN Ends("FAILED", IF driven = "no" THEN "no" ELSE "left")
       ELSE IF Arrived THEN Ends("SUCCEEDED", "no")
       ELSE IF ~free THEN Ends("FAILED", "no")
       ELSE driven' = "cycle" /\ UNCHANGED <<phase, outcome>>
    /\ UNCHANGED <<place, heading, initial_pose_, twist, lethal, allowance, remaining, aligned>>

\* The robot moves along its velocity, which is one in robot_base_frame_, unless its
\* wheels are stuck.  (Bound: it stands still once it is far enough away.)
RobotMoves ==
    /\ driven # "no" /\ phase = "moving" /\ ~Arrived
    /\ place' = <<place[1] + twist[1] * heading[1] - twist[2] * heading[2],
                  place[2] + twist[1] * heading[2] + twist[2] * heading[1]>>
    /\ UNCHANGED <<phase, heading, initial_pose_, twist, lethal, allowance, remaining, driven,
                   outcome, aligned>>

\* The base frame turns in the map: fake_vel_transform keeps its axes near those of
\* the odometry, with the angle it knows, and the localisation turns the odometry.
RobotTurns ==
    /\ phase # "idle"
    /\ heading' \in Headings \ {heading} /\ aligned' = FALSE
    /\ UNCHANGED <<phase, place, initial_pose_, twist, lethal, allowance, remaining, driven, outcome>>

\* Before the move the robot may still roll, or its localisation be corrected.
RobotIsElsewhere ==
    /\ phase \in {"asked", "checked"}
    /\ place' \in Starts \ {place}
    /\ UNCHANGED <<phase, heading, initial_pose_, twist, lethal, allowance, remaining, driven,
                   outcome, aligned>>

BackClock ==
    /\ phase \in {"checked", "moving"} /\ allowance > 0 /\ remaining >= 0
    /\ remaining' = remaining - 1
    /\ UNCHANGED <<phase, place, heading, initial_pose_, twist, lethal, allowance, driven, outcome,
                   aligned>>

\* The velocity may expire in the nodes that follow; the robot is somewhere else
\* at the next goal.
BackAgain ==
    /\ phase = "idle" /\ outcome # "none"
    /\ outcome' = "none" /\ driven' \in {"no", driven}
    /\ place' \in Starts
    /\ UNCHANGED <<phase, heading, initial_pose_, twist, lethal, allowance, remaining, aligned>>

BackNext ==
    \/ \E a \in Allowances : Goal(a)
    \/ onRunFails \/ onRunStarts
    \/ \E costmap \in Costmaps : onRun(costmap)
    \/ \E poseKnown, free \in BOOLEAN : onCycleUpdate(poseKnown, free)
    \/ RobotMoves \/ RobotTurns \/ RobotIsElsewhere \/ BackClock \/ BackAgain

(* The behaviour server cycles while a move is on, and time passes.  Nothing *)
(* says that the robot moves, that its pose is known or lost, or that the    *)
(* costmap service, for which onRun waits without a limit, is there.         *)
BackFairness == WF_backVars(onCycleUpdate(TRUE, TRUE)) /\ WF_backVars(BackClock)

BackSpec == BackInit /\ [][BackNext]_backVars /\ BackFairness

-----------------------------------------------------------------------------
(* Properties.                                                               *)

\* The robot backs through free cells of the costmap it got, up to the last sample
\* of isDirectionSafe, if the base frame had the axes of the map from the check on
\* and the robot was at the second lookup where it was at the first.  Nothing of the
\* kind holds of a turned frame, of another place, or of the cells that an oblique
\* line clips between two samples.
AlignedMoveIsThroughFreeCells ==
    LET last == (attempt_distance \div BackRes) * BackRes IN
    phase = "moving" /\ aligned /\ Apart(initial_pose_, place) <= last * last =>
        CellAt(place) \in ((0..(BackCells - 1)) \X (0..(BackCells - 1))) \ lethal

\* However a move ends, the robot is told to stop, except when its pose is not
\* available: then it keeps the last velocity.
EndOfMoveStops == phase = "idle" => driven # "cycle"

\* With a time allowance every move ends, also when the robot does not get away.
BackUpEnds == phase = "moving" /\ allowance > 0 ~> phase = "idle"

\* A back-up whose frames agree goes through the free cells it looked at; every
\* back-up ends, and stops the robot unless its pose is lost.
BackUpIsSafe ==
    [](AlignedMoveIsThroughFreeCells /\ EndOfMoveStops) /\ BackUpEnds
=============================================================================

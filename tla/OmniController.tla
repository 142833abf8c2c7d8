--------------------------- MODULE OmniController ---------------------------
(***************************************************************************)
(* OmniPidPursuitController: one control cycle prunes the global plan,     *)
(* picks the look-ahead point, runs the two PIDs, limits the speed in      *)
(* bends and on the approach, and samples the plan for collisions.  Poses  *)
(* lie on a line and are whole numbers; the curvature at the look-ahead    *)
(* point is an input.  Ratios are in tenths and round down.                *)
(***************************************************************************)
EXTENDS Integers, Sequences, FiniteSets, FiniteSetsExt, SequencesExt

CONSTANTS Plans,                        \* plans the planner may send
          Places,                       \* where the robot may be
          Costmaps,                     \* sets of lethal places
          CostmapMaxExtent, max_robot_pose_search_dist_,
          sample_points,                \* 10 in the code
          kp_, ki_, kd_, MaxIntegral, v_linear_max_, v_linear_min_,
          LookAheads,                   \* values of lookahead_dist_
          MinApproach,                  \* values of min_approach_linear_velocity_
          approach_velocity_scaling_dist_,
          Ratios,                       \* tenths: 10 on straight stretches
          scaling_rate                  \* max_velocity_scaling_factor_rate_ per cycle

ASSUME OmniAssumption ==
  /\ Plans \subseteq Seq(Int) \ {<<>>} /\ Places \subseteq Int
  /\ max_robot_pose_search_dist_ \in Nat /\ sample_points \in Nat \ {0}
  /\ MinApproach \subseteq Nat \ {0} /\ LookAheads \subseteq Nat \ {0}
  /\ approach_velocity_scaling_dist_ \in Nat \ {0}
  /\ {kp_, ki_, kd_, MaxIntegral, v_linear_max_, v_linear_min_, scaling_rate} \subseteq Int
  /\ CostmapMaxExtent \in Int /\ Ratios \subseteq Int

VARIABLES global_plan_,
          move_pid_,                         \* [integral, pre_error]
          last_velocity_scaling_factor_,
          lookahead_dist_, min_approach_linear_velocity_, use_interpolation_,
          cycle                              \* the last control cycle, for the properties

params == <<lookahead_dist_, min_approach_linear_velocity_, use_interpolation_>>
omniVars == <<global_plan_, move_pid_, last_velocity_scaling_factor_, params, cycle>>

NoCycle == [result |-> "none"]
OmniInit ==
  /\ global_plan_ = <<>>
  /\ move_pid_ = [integral |-> 0, pre_error |-> 0]
  /\ last_velocity_scaling_factor_ = 0
  /\ lookahead_dist_ \in LookAheads /\ min_approach_linear_velocity_ \in MinApproach
  /\ use_interpolation_ \in BOOLEAN
  /\ cycle = NoCycle

Away(a, b) == IF a < b THEN b - a ELSE a - b
Clamp(x, lo, hi) == IF x < lo THEN lo ELSE IF x > hi THEN hi ELSE x

\* setPlan leaves the controllers and the speed limiter as they are
setPlan(path) ==
  /\ global_plan_' = path
  /\ cycle' = NoCycle
  /\ UNCHANGED <<move_pid_, last_velocity_scaling_factor_, params>>

\* gains and limits of the PIDs are copied at configure and stay as they are
dynamicParametersCallback ==
  /\ lookahead_dist_' \in LookAheads /\ min_approach_linear_velocity_' \in MinApproach
  /\ use_interpolation_' \in BOOLEAN
  /\ cycle' = NoCycle
  /\ UNCHANGED <<global_plan_, move_pid_, last_velocity_scaling_factor_>>

(***************************************************************************)
(* transformGlobalPlan                                                     *)
(***************************************************************************)
\* length of the plan up to its i-th pose
IntegratedDistance(path, i) ==
  IF i = 1 THEN 0
  ELSE FoldLeft(LAMBDA sum, j : sum + Away(path[j], path[j + 1]), 0, [j \in 1 .. i - 1 |-> j])

\* poses before first_after_integrated_distance
Searched(path) == {i \in 1 .. Len(path) : IntegratedDistance(path, i) <= max_robot_pose_search_dist_}

\* min_by: the first of the closest poses
Closest(path, robot) ==
  LET searched == Searched(path)
      least == Min({Away(path[i], robot) : i \in searched})
  IN  Min({i \in searched : Away(path[i], robot) = least})

\* from there up to the first pose outside the costmap
InExtent(path, robot) ==
  LET out == {i \in 1 .. Len(path) : Away(path[i], robot) > CostmapMaxExtent}
  IN  SubSeq(path, 1, IF out = {} THEN Len(path) ELSE Min(out) - 1)

Pruned(path, robot) == SubSeq(path, Closest(path, robot), Len(path))

(***************************************************************************)
(* Speed                                                                   *)
(***************************************************************************)
\* distance to the look-ahead point of a plan in the robot's frame
getLookAheadPoint(local) ==
  LET far == {i \in DOMAIN local : Away(local[i], 0) >= lookahead_dist_}
  IN  IF far = {} THEN Away(Last(local), 0)
      ELSE IF use_interpolation_ /\ Min(far) # 1 THEN lookahead_dist_
      ELSE Away(local[Min(far)], 0)

calculate(error) ==
  Clamp(kp_ * error + ki_ * (move_pid_.integral + error) + kd_ * (error - move_pid_.pre_error),
        v_linear_min_, v_linear_max_)

\* applyCurvatureLimitation
CurvatureLimited(vel, ratio) ==
  LET scaled == IF ratio = 10 THEN vel
                ELSE last_velocity_scaling_factor_ +
                       Clamp((vel * ratio) \div 10 - last_velocity_scaling_factor_, -scaling_rate, scaling_rate)
  IN  Min({vel, Max({scaled, 2 * min_approach_linear_velocity_})})

\* applyApproachVelocityScaling
Approaching(vel, local) ==
  LET remaining == IntegratedDistance(local, Len(local))
      scaled == IF remaining < approach_velocity_scaling_dist_
                THEN (vel * Away(Last(local), 0)) \div approach_velocity_scaling_dist_ ELSE vel
  IN  Min({vel, Max({scaled, min_approach_linear_velocity_})})

(***************************************************************************)
(* Collision check                                                         *)
(***************************************************************************)
(* Mutant: the last pose of the plan is counted out.                       *)
SampleIndexShort(i, n) == Min({(i * (n - 1)) \div sample_points, n - 1}) + 1

SampleIndex(i, n) == Min({(i * n) \div sample_points, n - 1}) + 1

\* isCollisionDetected: the check gives up at the first sample off the costmap
isCollisionDetected(sampled, robot, lethal) ==
  \E i \in DOMAIN sampled :
    /\ sampled[i] \in lethal
    /\ \A j \in 1 .. i : Away(sampled[j], robot) <= CostmapMaxExtent

(***************************************************************************)
(* computeVelocityCommands.  tf: the transforms are there ("ok"), the      *)
(* robot's pose cannot be transformed ("noRobot": the call throws), or the *)
(* plan cannot be brought into the robot's frame ("noBase": its poses stay *)
(* at their default, the origin of whatever frame they are taken in).      *)
(***************************************************************************)
Throw(why) ==
  /\ cycle' = [result |-> why]
  /\ UNCHANGED <<move_pid_, last_velocity_scaling_factor_, params>>

computeVelocityCommands(robot, turned, ratio, lethal, tf) ==
  IF global_plan_ = <<>> \/ tf = "noRobot"
  THEN Throw("no plan") /\ UNCHANGED global_plan_
  ELSE LET pruned == Pruned(global_plan_, robot)
           plan == InExtent(pruned, robot)
           local == [i \in DOMAIN plan |-> IF tf = "ok" THEN plan[i] - robot ELSE 0]
           lin_dist == IF turned THEN 0 ELSE getLookAheadPoint(local)
           bend == CurvatureLimited(calculate(lin_dist), ratio)
           sampled == [i \in 1 .. sample_points |->
                         IF tf = "ok" THEN plan[SampleIndex(i - 1, Len(plan))] ELSE 0]
       IN  /\ global_plan_' = pruned
           /\ \/ plan = <<>> /\ Throw("empty plan")
              \/ /\ plan # <<>>
                 /\ move_pid_' = [integral |-> Clamp(move_pid_.integral + lin_dist, -MaxIntegral, MaxIntegral),
                                  pre_error |-> lin_dist]
                 /\ last_velocity_scaling_factor_' = bend
                 /\ cycle' = [result |-> IF isCollisionDetected(sampled, robot, lethal)
                                         THEN "collision" ELSE "command",
                              pid |-> calculate(lin_dist), vel |-> Approaching(bend, local),
                              plan |-> plan, robot |-> robot, lethal |-> lethal, tf |-> tf]
                 /\ UNCHANGED params

OmniNext ==
  \/ \E path \in Plans : setPlan(path)
  \/ dynamicParametersCallback
  \/ \E robot \in Places, turned \in BOOLEAN, ratio \in Ratios, lethal \in Costmaps,
        tf \in {"ok", "noRobot", "noBase"} :
        computeVelocityCommands(robot, turned, ratio, lethal, tf)

OmniSpec == OmniInit /\ [][OmniNext]_omniVars

(***************************************************************************)
(* Properties                                                              *)
(***************************************************************************)
(* The two speed limiters may slow the robot down, never speed it up, and  *)
(* never turn a wish to move on into a stop: the robot cannot freeze in a  *)
(* bend or just before its goal.                                           *)
LimitersNeverStopTheRobot ==
  cycle.result \in {"command", "collision"} =>
    /\ cycle.vel <= cycle.pid
    /\ cycle.pid > 0 => cycle.vel > 0

(* Sampling the plan leaves gaps, but bounded ones: a stretch of lethal    *)
(* poses as long as the plan divided by sample_points, rounded up, is      *)
(* always met when the whole stretch of plan is inside the costmap.        *)
LongObstaclesAreMet ==
  (cycle.result = "command" /\ cycle.tf = "ok") =>
    LET n == Len(cycle.plan)
        gap == (n + sample_points - 1) \div sample_points
    IN  ~\E i \in 1 .. n - gap + 1 : \A j \in i .. i + gap - 1 : cycle.plan[j] \in cycle.lethal

(* One cycle never drops more of the plan than the search distance, and    *)
(* never its end: a path that comes back past the robot is not cut short.  *)
PruningIsBounded ==
  [][(global_plan_ # <<>> /\ cycle'.result # "none") =>
       \E k \in 1 .. Len(global_plan_) :
          /\ global_plan_' = SubSeq(global_plan_, k, Len(global_plan_))
          /\ IntegratedDistance(global_plan_, k) <= max_robot_pose_search_dist_]_omniVars

\* What a control cycle may do to plan and speed is bounded, and so is what its
\* collision check can miss.
CycleIsBounded ==
    [](LimitersNeverStopTheRobot /\ LongObstaclesAreMet) /\ PruningIsBounded
=============================================================================

----------------------------- MODULE AttackPose -----------------------------
(***************************************************************************)
(* CalculateAttackPose, a RosTopicPubNode of the behaviour tree: from the  *)
(* last costmap and the last target of the tracker on the blackboard it    *)
(* chooses a place on a circle around the enemy, and remembers where the   *)
(* enemy was for the time when the tracker has lost it.  Positions are     *)
(* pairs of integers; a cell of the costmap is CellLen long.               *)
(***************************************************************************)
EXTENDS Integers, Sequences

CONSTANTS
    Sectors,         \* the offsets of the candidates: attack_radius around, in order
    Grids,           \* the costmaps: functions from cells <<x, y>> to costs
    GridOrigin,      \* their origin
    CellLen,         \* their resolution
    cost_threshold,
    Sightings,       \* the positions of the enemy
    RobotPlaces      \* the positions of the robot

ASSUME AttackAssumption ==
    /\ Sectors \in Seq(Int \X Int)
    /\ \A grid \in Grids : /\ DOMAIN grid \subseteq Nat \X Nat
                           /\ \A cell \in DOMAIN grid : grid[cell] \in Int
    /\ GridOrigin \in Int \X Int /\ CellLen \in Nat \ {0} /\ cost_threshold \in Int
    /\ Sightings \subseteq Int \X Int /\ RobotPlaces \subseteq Int \X Int

Nothing == <<>>   \* no message yet, no transform, no goal
Lost == <<0>>     \* a message of the tracker without a target

VARIABLES
    costmap_port,      \* the costmap on the blackboard, or Nothing
    tracker_port,      \* the target: a position, Lost, or Nothing
    canTransform,      \* whether the tracker's frame can be transformed
    robotPlace,        \* the robot's pose by the transforms, or Nothing
    enemy_on_costmap_, \* starts at <<0, 0>>
    goal,              \* the output port: a place, and whether it has a frame
    result,            \* what the last tick returned
    lastSeen           \* history: where a tick saw the enemy last, or Nothing

attackIn == <<costmap_port, tracker_port, canTransform, robotPlace>>
attackVars == <<attackIn, enemy_on_costmap_, goal, result, lastSeen>>

AttackInit ==
    /\ costmap_port = Nothing /\ tracker_port = Nothing
    /\ canTransform = FALSE /\ robotPlace = Nothing
    /\ enemy_on_costmap_ = <<0, 0>>
    /\ goal = [at |-> Nothing, framed |-> FALSE] /\ result = "IDLE" /\ lastSeen = Nothing

-----------------------------------------------------------------------------
(* What the subscriptions of the server and the transforms bring.            *)

CostmapMsg(g) == costmap_port' = g /\ UNCHANGED <<tracker_port, canTransform, robotPlace>>
TargetMsg(t) == tracker_port' = t /\ UNCHANGED <<costmap_port, canTransform, robotPlace>>
Transforms(able, place) ==
    /\ canTransform' = able /\ robotPlace' = place
    /\ UNCHANGED <<costmap_port, tracker_port>>

AttackInputs ==
    /\ \/ \E g \in Grids : CostmapMsg(g)
       \/ \E t \in Sightings \union {Lost} : TargetMsg(t)
       \/ \E able \in BOOLEAN, place \in RobotPlaces \union {Nothing} : Transforms(able, place)
    /\ result' = "IDLE"
    /\ UNCHANGED <<enemy_on_costmap_, goal, lastSeen>>

-----------------------------------------------------------------------------
(* The node.                                                                 *)

\* A conversion to int cuts towards zero.
CutToCell(n) == IF n >= 0 THEN n \div CellLen ELSE -((-n) \div CellLen)

generateCandidatePoints(enemy) ==
    [i \in DOMAIN Sectors |-> <<enemy[1] + Sectors[i][1], enemy[2] + Sectors[i][2]>>]

\* The test of filterFeasiblePoints for one candidate.
Feasible(p, grid) ==
    LET cell == <<CutToCell(p[1] - GridOrigin[1]), CutToCell(p[2] - GridOrigin[2])>>
    IN  cell \in DOMAIN grid /\ grid[cell] >= 0 /\ grid[cell] <= cost_threshold

\* Points keep their order: they are given by their positions in candidates.
filterFeasiblePoints(candidates, grid) ==
    {i \in DOMAIN candidates : Feasible(candidates[i], grid)}

Range2(p, q) == (p[1] - q[1]) * (p[1] - q[1]) + (p[2] - q[2]) * (p[2] - q[2])

\* The first of the nearest.
selectBestPoint(candidates, feasible, robot) ==
    LET nearest == {i \in feasible : \A j \in feasible :
                      Range2(candidates[i], robot) <= Range2(candidates[j], robot)}
    IN  candidates[CHOOSE i \in nearest : \A j \in nearest : i <= j]

Fails == result' = "FAILURE" /\ UNCHANGED goal
Outputs(pose) == result' = "SUCCESS" /\ goal' = pose

\* A target that is lost: the goal is the place where it was, in no frame.
\* The origin of the costmap's frame stands for "not known".
DirectToLastKnown ==
    /\ IF enemy_on_costmap_ = <<0, 0>> THEN Fails
       ELSE Outputs([at |-> enemy_on_costmap_, framed |-> FALSE])
    /\ UNCHANGED <<enemy_on_costmap_, lastSeen>>

(* Mutant: the position is kept only when a place to attack from is found. *)
AttackFromCircleKept(enemy) ==
    LET candidates == generateCandidatePoints(enemy)
        feasible == filterFeasiblePoints(candidates, costmap_port)
        sees == canTransform /\ feasible # {} /\ robotPlace # Nothing
    IN  /\ lastSeen' = IF canTransform THEN enemy ELSE lastSeen
        /\ enemy_on_costmap_' = IF sees THEN enemy ELSE enemy_on_costmap_
        /\ IF sees
           THEN Outputs([at |-> selectBestPoint(candidates, feasible, robotPlace), framed |-> TRUE])
           ELSE Fails

\* A target that is tracked.  Its position is kept before the steps that fail.
AttackFromCircle(enemy) ==
    LET candidates == generateCandidatePoints(enemy)
        feasible == filterFeasiblePoints(candidates, costmap_port)
    IN  IF ~canTransform THEN Fails /\ UNCHANGED <<enemy_on_costmap_, lastSeen>>
        ELSE /\ enemy_on_costmap_' = enemy
             /\ lastSeen' = enemy
             /\ IF feasible = {} \/ robotPlace = Nothing THEN Fails
                ELSE Outputs([at |-> selectBestPoint(candidates, feasible, robotPlace),
                              framed |-> TRUE])

\* RosTopicPubNode::tick with setMessage: SUCCESS when there is a message.
tick ==
    /\ IF costmap_port = Nothing \/ tracker_port = Nothing
       THEN Fails /\ UNCHANGED <<enemy_on_costmap_, lastSeen>>
       ELSE IF tracker_port = Lost THEN DirectToLastKnown
       ELSE AttackFromCircle(tracker_port)
    /\ UNCHANGED attackIn

AttackNext == AttackInputs \/ tick

AttackSpec == AttackInit /\ [][AttackNext]_attackVars

-----------------------------------------------------------------------------
(* Properties.                                                               *)

\* A place that tick chose for a tracked enemy can be stood on in the costmap it
\* was computed from: its cell is known and cheap enough, or it is beyond the
\* map, by less than a cell, where the conversion to int cuts towards zero.
AttackPlaceIsFree ==
    result = "SUCCESS" /\ tracker_port # Lost =>
        LET off(a) == goal.at[a] - GridOrigin[a]
            cell == <<off(1) \div CellLen, off(2) \div CellLen>>
        IN  \/ cell \in DOMAIN costmap_port
               /\ costmap_port[cell] >= 0 /\ costmap_port[cell] <= cost_threshold
            \/ \E a \in 1..2 : off(a) < 0 /\ off(a) > -CellLen

\* An enemy the tracker has lost is looked for where a tick saw it last, also
\* when that tick failed, and an enemy that was never seen is not looked for.
LostEnemyIsSoughtWhereSeen ==
    result = "SUCCESS" /\ tracker_port = Lost => goal.at = lastSeen

\* The robot is sent to a free place around an enemy it sees, and to the last place
\* of one that it has lost.
AttackPosesAreSound ==
    AttackPlaceIsFree /\ LostEnemyIsSoughtWhereSeen
=============================================================================

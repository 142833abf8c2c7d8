------------------------------ MODULE LocalMap ------------------------------
(***************************************************************************)
(* The cube of FAST_LIO's map that moves with the lidar                    *)
(* (lasermap_fov_segment), per axis.  Lengths are integers in a unit in    *)
(* which the margin MOV_THRESHOLD * DET_RANGE, the cube's length and the   *)
(* distance of a move are whole.                                           *)
(***************************************************************************)
EXTENDS Integers, Sequences

CONSTANTS
    MapAxes,   \* the axes
    CubeLen,   \* cube_len
    Margin,    \* MOV_THRESHOLD * DET_RANGE, the distance that causes a move
    MaxStep,   \* the most the lidar moves along an axis between two scans
    Travel     \* bound on the lidar's positions

\* mov_dist, with MOV_THRESHOLD = 3/2.
MovDist ==
    LET a == (9 * (CubeLen - 2 * Margin)) \div 20
        b == Margin \div 3
    IN  IF a > b THEN a ELSE b

\* The cube is longer than both margins (the configurations have a length of
\* 1000 and a margin of 150), and the lidar cannot outrun a margin or a move.
ASSUME CubeAssumption ==
    /\ CubeLen \in Nat /\ Margin \in Nat /\ MaxStep \in Nat /\ Travel \in Nat
    /\ CubeLen % 2 = 0
    /\ 3 * Margin < CubeLen
    /\ MaxStep < Margin
    /\ MovDist \in Nat /\ MaxStep <= MovDist /\ MovDist <= CubeLen - 2 * Margin

VARIABLES
    pos_lid,             \* the lidar's position
    LocalMap_Points,     \* the cube: per axis its vertex_min
    LocalMap_Initialized,
    cub_needrm,          \* the boxes deleted by the last call, with their axis
    before               \* the cube before the last call

cubeVars == <<pos_lid, LocalMap_Points, LocalMap_Initialized, cub_needrm, before>>

CubeInit ==
    /\ pos_lid = [a \in MapAxes |-> 0]
    /\ LocalMap_Points = [a \in MapAxes |-> 0]
    /\ LocalMap_Initialized = FALSE
    /\ cub_needrm = {}
    /\ before = [a \in MapAxes |-> 0]

Abs(x) == IF x < 0 THEN -x ELSE x

\* Whether the lidar at p is close to the lower, or else to the upper face.
NearMin(p, a) == Abs(p[a] - LocalMap_Points[a]) <= Margin
NearMax(p, a) == ~NearMin(p, a) /\ Abs(p[a] - (LocalMap_Points[a] + CubeLen)) <= Margin

(* Mutant: the lower face is compared without the margin. *)
MovedLate(p, a) ==
    LocalMap_Points[a] + (IF p[a] < LocalMap_Points[a] THEN -MovDist
                          ELSE IF NearMax(p, a) THEN MovDist ELSE 0)

Moved(p, a) ==
    LocalMap_Points[a] + (IF NearMin(p, a) THEN -MovDist
                          ELSE IF NearMax(p, a) THEN MovDist ELSE 0)

\* The slab the cube leaves along an axis; along the others it is the old cube.
Slab(p, a) ==
    [axis |-> a,
     low  |-> IF NearMin(p, a) THEN LocalMap_Points[a] + CubeLen - MovDist
              ELSE LocalMap_Points[a],
     high |-> IF NearMin(p, a) THEN LocalMap_Points[a] + CubeLen
              ELSE LocalMap_Points[a] + MovDist]

lasermap_fov_segment(p) ==
    /\ pos_lid' = p
    /\ before' = LocalMap_Points
    /\ LocalMap_Initialized' = TRUE
    /\ IF LocalMap_Initialized
       THEN /\ LocalMap_Points' = [a \in MapAxes |-> Moved(p, a)]
            /\ cub_needrm' = {Slab(p, a) : a \in {b \in MapAxes : NearMin(p, b) \/ NearMax(p, b)}}
       ELSE /\ LocalMap_Points' = [a \in MapAxes |-> p[a] - CubeLen \div 2]
            /\ cub_needrm' = {}

CubeNext ==
    \E p \in [MapAxes -> (-Travel)..Travel] :
        /\ \A a \in MapAxes : Abs(p[a] - pos_lid[a]) <= MaxStep
        /\ lasermap_fov_segment(p)

CubeSpec == CubeInit /\ [][CubeNext]_cubeVars

-----------------------------------------------------------------------------

\* The cube follows the lidar: after every call the lidar is inside, at least a
\* margin less one step from each face, so it never escapes through the test on
\* absolute distances, after which the cube would not move again.
LidarStaysInside ==
    LocalMap_Initialized =>
        \A a \in MapAxes :
            /\ LocalMap_Points[a] + (Margin - MaxStep) <= pos_lid[a]
            /\ pos_lid[a] <= LocalMap_Points[a] + CubeLen - (Margin - MaxStep)

\* What is deleted is what the cube leaves, along each axis: nothing of the new
\* cube, and nothing that is still in the lidar's range.
DeletesWhatIsLeft ==
    \A s \in cub_needrm :
        /\ \A x \in s.low..s.high :
             /\ x <= LocalMap_Points[s.axis] \/ LocalMap_Points[s.axis] + CubeLen <= x
             /\ 3 * Abs(x - pos_lid[s.axis]) >= 2 * Margin
        /\ \A x \in before[s.axis]..(before[s.axis] + CubeLen) :
             \/ LocalMap_Points[s.axis] <= x /\ x <= LocalMap_Points[s.axis] + CubeLen
             \/ s.low <= x /\ x <= s.high

\* lasermap_fov_segment keeps the lidar inside its cube and deletes only what the
\* cube has left.
CubeFollowsTheLidar ==
    LidarStaysInside /\ DeletesWhatIsLeft
=============================================================================

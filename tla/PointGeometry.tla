---------------------------- MODULE PointGeometry ----------------------------
(* Points, boxes and ranges of the map on an integer grid: a point is a      *)
(* triple of coordinates, a box is half open, and a range (node_range of a   *)
(* node) is closed.                                                          *)
EXTENDS Integers

CONSTANT Voxel   \* downsample_size, in units of the grid; even

ASSUME VoxelAssumption == Voxel \in Nat \ {0}

Axes == 1..3

InBox(p, b) == \A a \in Axes : b.lo[a] <= p[a] /\ p[a] < b.hi[a]

Sq(n) == n * n

\* calc_dist: squared distances, which are the ones the tree compares.
Dist(p, q) == Sq(p[1] - q[1]) + Sq(p[2] - q[2]) + Sq(p[3] - q[3])

\* The voxel of a point, and the middle of a voxel.
VoxelOf(p) ==
    LET lo == [a \in Axes |-> (p[a] \div Voxel) * Voxel]
    IN [lo |-> lo, hi |-> [a \in Axes |-> lo[a] + Voxel]]
Mid(b) == [a \in Axes |-> (b.lo[a] + b.hi[a]) \div 2]

-----------------------------------------------------------------------------
(* How a query compares a box or a ball with the range of a subtree.         *)

\* The smallest range around the parts of a subtree.
Hull(parts) ==
    [lo |-> [a \in Axes |-> CHOOSE v \in {r.lo[a] : r \in parts} :
                              \A r \in parts : v <= r.lo[a]],
     hi |-> [a \in Axes |-> CHOOSE v \in {r.hi[a] : r \in parts} :
                              \A r \in parts : v >= r.hi[a]]]

Disjoint(b, range) == \E a \in Axes : b.hi[a] <= range.lo[a] \/ b.lo[a] > range.hi[a]
Covers(b, range) == \A a \in Axes : b.lo[a] <= range.lo[a] /\ b.hi[a] > range.hi[a]

\* The ball around a range lies outside, or inside, the ball of radius r around
\* p.  Distances are doubled and squared to stay integers: those of the range's
\* centre and of its corner, and the radius.
CentreDist(range, p) ==
    Dist([a \in Axes |-> range.lo[a] + range.hi[a]], [a \in Axes |-> 2 * p[a]])
FarOff(range, p, r) ==
    LET own == Dist(range.lo, range.hi)
        over == CentreDist(range, p) - Sq(2 * r) - own
    IN  over > 0 /\ Sq(over) > 4 * Sq(2 * r) * own
WithinBall(range, p, r) ==
    LET own == Dist(range.lo, range.hi)
        room == Sq(2 * r) + own - CentreDist(range, p)
    IN  own <= Sq(2 * r) /\ room >= 0 /\ Sq(room) >= 4 * Sq(2 * r) * own

calc_box_dist(range, p) ==
    LET gap(a) == IF p[a] < range.lo[a] THEN Sq(p[a] - range.lo[a])
                  ELSE IF p[a] > range.hi[a] THEN Sq(p[a] - range.hi[a]) ELSE 0
    IN  gap(1) + gap(2) + gap(3)
=============================================================================

--------------------------- MODULE IntensityLayer ---------------------------
(***************************************************************************)
(* IntensityVoxelLayer inside a rolling layered costmap, along one axis.   *)
(* The layer starts afresh in every cycle and marks the cells whose column *)
(* of voxels has enough hits; the layered costmap (external, as Nav2 runs  *)
(* it with the plugins of the configuration) resets and refills only the   *)
(* part of the master map inside the bounds that the layers report, and    *)
(* the inflation layer after this one widens the bounds by its radius and  *)
(* by the bounds of the cycle before.  Positions are integers; a cell is   *)
(* resolution_ long.  Cells are indexes relative to the origin of their    *)
(* map, and the master is filled index by index.  Left out: the cells of   *)
(* the static layer, and the costs that inflation adds around a cell.      *)
(***************************************************************************)
EXTENDS Integers, FiniteSets

CONSTANTS
    resolution_, size_x_,     \* the length of a cell, and the number of cells
    z_resolution_, size_z_,   \* the height of a voxel, and the voxels of a column
    mark_threshold_,
    obstacle_height,          \* [min, max] of the z of a hit
    obstacle_intensity,       \* [min, max] of the intensity of a hit
    obstacle_range,           \* [min, max] of the distance of a hit
    inflation_radius_,        \* of the inflation layer
    Echoes,                   \* the sets of hits that an observation may hold
    RobotAt                   \* the positions of the robot

ASSUME LayerAssumption ==
    /\ resolution_ \in Nat \ {0} /\ size_x_ \in Nat \ {0}
    /\ mark_threshold_ \in Nat /\ inflation_radius_ \in Nat
    /\ RobotAt \subseteq Int
    /\ \A hits \in Echoes : \A h \in hits : h.x \in Int

VARIABLES
    origin_x_,     \* the layer's origin
    costmap_,      \* the layer's cells that are LETHAL_OBSTACLE
    masterOrigin,  \* the origin of the master map
    master,        \* its lethal cells
    lastBounds     \* the bounds the inflation layer remembers

layerVars == <<origin_x_, costmap_, masterOrigin, master, lastBounds>>

Nowhere == [min |-> 1000, max |-> -1000]
Everywhere == [min |-> -1000, max |-> 1000]

LayerInit ==
    /\ origin_x_ = 0 /\ costmap_ = {}
    /\ masterOrigin = 0 /\ master = {}
    /\ lastBounds = Everywhere

\* A conversion to int cuts towards zero.
Truncated(n, d) == IF n >= 0 THEN n \div d ELSE -((-n) \div d)

CellAt(x, origin) == (x - origin) \div resolution_
OnLayer(x, origin) == x >= origin /\ CellAt(x, origin) < size_x_

Sqr(n) == n * n

\* touch, for all these places: the bounds that hold them too.
Touched(b, xs) ==
    LET low == xs \union {b.min}
        high == xs \union {b.max}
    IN  [min |-> CHOOSE x \in low : \A y \in low : x <= y,
         max |-> CHOOSE x \in high : \A y \in high : y <= x]

updateOrigin(origin, new) == origin + Truncated(new - origin, resolution_) * resolution_

\* A hit counts when its height, intensity and distance are in range; below
\* origin_z_ it counts for the lowest voxel.
Counts(h, robot) ==
    LET d == Sqr(h.x - robot) + Sqr(h.z) IN
    /\ h.z >= obstacle_height.min /\ h.z <= obstacle_height.max
    /\ h.intensity >= obstacle_intensity.min /\ h.intensity <= obstacle_intensity.max
    /\ d > Sqr(obstacle_range.min) /\ d < Sqr(obstacle_range.max)

Voxel(h) == IF h.z < 0 THEN 0 ELSE h.z \div z_resolution_

\* The hits that fall into the grid.
Usable(hits, robot, origin) ==
    {h \in hits : Counts(h, robot) /\ OnLayer(h.x, origin) /\ Voxel(h) < size_z_}

\* markVoxelInMap, over all hits: more than mark_threshold_ voxels of the
\* column are marked.
Marked(used, origin) ==
    {c \in 0..(size_x_ - 1) :
        Cardinality({Voxel(h) : h \in {g \in used : CellAt(g.x, origin) = c}}) > mark_threshold_}

(* Mutant: only the footprint is reported. *)
updateBoundsFootprint(hits, robot, origin) ==
    LET used == Usable(hits, robot, origin)
    IN  [cells |-> Marked(used, origin) \ {CellAt(robot, origin)},
         bounds |-> Touched(Nowhere, {robot})]

\* The cells of a cycle and the bounds it reports.  A column that reaches the
\* threshold is touched at one of its hits (which one does not matter, bounds
\* are cut to cells).  The footprint, a single cell here, is cleared after the
\* marking, and touched.
updateBounds(hits, robot, origin) ==
    LET used == Usable(hits, robot, origin)
        cells == Marked(used, origin)
    IN  [cells |-> cells \ {CellAt(robot, origin)},
         bounds |-> Touched(Nowhere, {robot} \union
                      {(CHOOSE h \in used : CellAt(h.x, origin) = c).x : c \in cells})]

-----------------------------------------------------------------------------
(* One cycle of the layered costmap.                                         *)

\* What remains of the master map when its origin moves.
MasterRolled(cells, from, to) ==
    {c \in 0..(size_x_ - 1) : c + ((to - from) \div resolution_) \in cells}

\* The cells that are reset: bounds outside the map end at its border.
Enforced(x, origin) ==
    IF x < origin THEN 0
    ELSE IF CellAt(x, origin) >= size_x_ THEN size_x_ - 1 ELSE CellAt(x, origin)

updateMap(hits, robot, enabled) ==
    LET new == robot - (size_x_ * resolution_) \div 2
        origin == updateOrigin(origin_x_, new)
        home == masterOrigin + Truncated(new - masterOrigin, resolution_) * resolution_
        u == IF enabled THEN updateBounds(hits, robot, origin)
             ELSE [cells |-> {}, bounds |-> Nowhere]
        both == Touched(u.bounds, {lastBounds.min, lastBounds.max})
        wide == IF lastBounds = Nowhere THEN u.bounds ELSE both
        x0 == Enforced(wide.min - inflation_radius_, home)
        xn == Enforced(wide.max + inflation_radius_, home)
        reset == IF lastBounds = Nowhere /\ u.bounds = Nowhere THEN {} ELSE x0..xn
        kept == MasterRolled(master, masterOrigin, home)
    IN  /\ origin_x_' = origin
        /\ costmap_' = u.cells
        /\ masterOrigin' = home
        /\ master' = (kept \ reset) \union (u.cells \intersect reset)
        /\ lastBounds' = u.bounds

LayerNext ==
    \E hits \in Echoes, robot \in RobotAt, enabled \in BOOLEAN : updateMap(hits, robot, enabled)

LayerSpec == LayerInit /\ [][LayerNext]_layerVars

-----------------------------------------------------------------------------
(* Properties.                                                               *)

\* The costmap shows the obstacles of the last cycle and no others: although
\* the layer forgets its cells without reporting where they were, and the
\* window moves in between, no obstacle stays behind in the master map and
\* none that was marked is missing.
ObstaclesAreCurrent == master = costmap_

\* The layer's own updateOrigin, which moves no cells, and the master map's
\* stay together: the same index is the same place in both.
OriginsAgree == origin_x_ = masterOrigin

\* The master costmap shows what the layer marked last, in the same places.
CostmapIsCurrent ==
    ObstaclesAreCurrent /\ OriginsAgree
=============================================================================

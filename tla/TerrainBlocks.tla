---------------------------- MODULE TerrainBlocks ----------------------------
(***************************************************************************)
(* The two passes over the planar voxels around the vehicle that propagate *)
(* information from voxel to voxel: the rings of the no-data obstacles     *)
(* (terrainAnalysis.cpp) and the connectivity check that removes ceilings  *)
(* (terrainAnalysisExt.cpp).  Both work in place on one array, so what a   *)
(* voxel gets may depend on the order in which the array is walked: for    *)
(* the rings it does not, for the search it does.                          *)
(***************************************************************************)
EXTENDS Integers, Sequences, FiniteSets

CONSTANTS blockWidth,
          blockSkipNum,
          Surveyed,              \* the voxels in which there may be points
          Heights,               \* elevations a voxel may have
          ConnReach,             \* 10 in the code: neighbourhood of the search
          terrainConnThre, ceilingFilteringThre

blockHalfWidth == (blockWidth - 1) \div 2
Axis == 0 .. blockWidth - 1
Voxels == Axis \X Axis
Centre == <<blockHalfWidth, blockHalfWidth>>

ASSUME BlockAssumption ==
  /\ blockWidth \in Nat \ {0} /\ blockSkipNum \in Nat
  /\ Surveyed \subseteq Voxels /\ Heights \subseteq Int /\ ConnReach \in Nat
  /\ terrainConnThre \in Nat /\ ceilingFilteringThre \in Nat

Gap(a, b) == IF a < b THEN b - a ELSE a - b
Within(v, w, r) == Gap(v[1], w[1]) <= r /\ Gap(v[2], w[2]) <= r

(* The voxels in the order of the array.                                   *)
PlanarVoxelNum == blockWidth * blockWidth
VoxelIndex(v) == blockWidth * v[1] + v[2]
VoxelAt(i) == <<i \div blockWidth, i % blockWidth>>

InArrayOrder(S) ==
  [k \in 1 .. Cardinality(S) |->
     CHOOSE w \in S : Cardinality({v \in S : VoxelIndex(v) < VoxelIndex(w)}) = k - 1]

VARIABLES pass,               \* "nodata" or "conn": which node is followed
          withData,           \* voxels with (enough) points
          planarVoxelElev,
          planarVoxelEdge,
          noDataBlockSkipCount,
          nextVoxel,          \* the index the round has come to
          planarVoxelConn,
          planarVoxelQueue,
          fronts              \* history: the voxels taken from the queue, in order

blockVars == <<pass, withData, planarVoxelElev, planarVoxelEdge, noDataBlockSkipCount,
               nextVoxel, planarVoxelConn, planarVoxelQueue, fronts>>

(* planarVoxelEdge starts with the voxels without data; the search starts  *)
(* at the vehicle's own voxel, whether it has data or not.                 *)
BlockInit ==
  /\ pass \in {"nodata", "conn"}
  /\ withData \in SUBSET Surveyed
  /\ IF pass = "nodata"
       THEN planarVoxelElev = [v \in Voxels |-> 0]
       ELSE \E e \in [withData \cup {Centre} -> Heights] :
              planarVoxelElev = [v \in Voxels |-> IF v \in DOMAIN e THEN e[v] ELSE 0]
  /\ planarVoxelEdge = [v \in Voxels |-> IF pass = "nodata" /\ v \notin withData THEN 1 ELSE 0]
  /\ noDataBlockSkipCount = 0 /\ nextVoxel = 0
  /\ planarVoxelConn = [v \in Voxels |-> IF pass = "conn" /\ v = Centre THEN 1 ELSE 0]
  /\ planarVoxelQueue = IF pass = "conn" THEN <<Centre>> ELSE <<>>
  /\ fronts = <<>>

\* a marked voxel whose whole neighbourhood is marked as deep goes one deeper
EdgeStep(edge, v) ==
  IF edge[v] >= 1 /\ \A w \in Voxels : Within(v, w, 1) => edge[w] >= edge[v]
  THEN [edge EXCEPT ![v] = @ + 1] ELSE edge

\* one voxel of a round over the array, in place
SkipRound ==
  /\ pass = "nodata"
  /\ noDataBlockSkipCount < blockSkipNum
  /\ planarVoxelEdge' = EdgeStep(planarVoxelEdge, VoxelAt(nextVoxel))
  /\ IF nextVoxel = PlanarVoxelNum - 1
     THEN nextVoxel' = 0 /\ noDataBlockSkipCount' = noDataBlockSkipCount + 1
     ELSE nextVoxel' = nextVoxel + 1 /\ UNCHANGED noDataBlockSkipCount
  /\ UNCHANGED <<pass, withData, planarVoxelElev, planarVoxelConn, planarVoxelQueue, fronts>>

Rise(v, w) == Gap(planarVoxelElev[v], planarVoxelElev[w])

(* Mutant: a voxel marked as ceiling may still become terrain. *)
NewNeighboursAgain(front) ==
  {w \in withData : Within(front, w, ConnReach) /\ planarVoxelConn[w] \in {0, -1}}

NewNeighbours(front) ==
  {w \in withData : Within(front, w, ConnReach) /\ planarVoxelConn[w] = 0}

Connected(front) == {w \in NewNeighbours(front) : Rise(front, w) < terrainConnThre}
Ceiling(front) ==
  {w \in NewNeighbours(front) \ Connected(front) : Rise(front, w) > ceilingFilteringThre}

(* One voxel of the queue: neighbours of similar height are queued, much   *)
(* higher or lower ones are ceiling (or floor below) for good, the ones in *)
(* between may still be reached from another voxel.                        *)
SearchStep ==
  /\ pass = "conn"
  /\ planarVoxelQueue # <<>>
  /\ LET front == Head(planarVoxelQueue)
         joining == InArrayOrder(Connected(front))
     IN  /\ planarVoxelQueue' = Tail(planarVoxelQueue) \o joining
         /\ fronts' = Append(fronts, front)
         /\ planarVoxelConn' =
              [w \in Voxels |-> CASE w = front -> 2
                                  [] w \in Connected(front) -> 1
                                  [] w \in Ceiling(front) -> -1
                                  [] OTHER -> planarVoxelConn[w]]
  /\ UNCHANGED <<pass, withData, planarVoxelElev, planarVoxelEdge, noDataBlockSkipCount, nextVoxel>>

BlockNext == SkipRound \/ SearchStep

BlockSpec == BlockInit /\ [][BlockNext]_blockVars

(***************************************************************************)
(* Properties                                                              *)
(***************************************************************************)
(* Although the rounds work in place, a voxel without data that comes out  *)
(* as an obstacle (planarVoxelEdge > blockSkipNum) is exactly one that is  *)
(* more than blockSkipNum voxels away from all data, and the depth counted *)
(* on the way, in the middle of a round too, is the distance to the data.  *)
NoDataRingsAreDistances ==
  pass = "nodata" =>
    \A v \in Voxels : \A d \in 1 .. noDataBlockSkipCount + 1 :
       (planarVoxelEdge[v] >= d) <=> ~\E w \in withData : Within(v, w, d - 1)

(* The search decides about a voxel once: the first voxel taken from the   *)
(* queue that has it in reach and is near enough to it in height, or far   *)
(* enough, makes it terrain or ceiling, and it stays what it is, although  *)
(* a later one might have connected it.  It is undecided as long as every  *)
(* step to it lies between the two thresholds.                             *)
Decides(v, w) ==
  /\ w \in withData /\ Within(v, w, ConnReach)
  /\ Rise(v, w) < terrainConnThre \/ Rise(v, w) > ceilingFilteringThre

FirstFrontDecides ==
  pass = "conn" =>
    \A w \in Voxels \ {Centre} :
       /\ planarVoxelConn[w] = 0 <=> \A k \in DOMAIN fronts : ~Decides(fronts[k], w)
       /\ \A k \in DOMAIN fronts :
            (Decides(fronts[k], w) /\ \A j \in 1 .. k - 1 : ~Decides(fronts[j], w))
               => (planarVoxelConn[w] = -1 <=> Rise(fronts[k], w) >= terrainConnThre)

(* When the search ends it has left no terrain behind: every voxel that    *)
(* counts as connected has itself been searched from.                      *)
AllTerrainIsSearched ==
  (pass = "conn" /\ planarVoxelQueue = <<>>) =>
    \A v \in Voxels : planarVoxelConn[v] \in {1, 2} =>
       \E k \in DOMAIN fronts : fronts[k] = v

(* Terrain that counts as connected hangs together: the connected voxels   *)
(* cannot be split into two sets with no step below the threshold between  *)
(* them, the vehicle's voxel in one of them.                               *)
ConnectedTerrainHangsTogether ==
  LET in == {v \in Voxels : planarVoxelConn[v] \in {1, 2}}
  IN  pass = "conn" =>
        \A part \in SUBSET in :
           (Centre \in part /\ part # in) =>
              \E v \in part, w \in in \ part :
                 Within(v, w, ConnReach) /\ Rise(v, w) < terrainConnThre

\* What the passes make of a voxel, in place, is what they mean by it: a distance to
\* data, or the verdict of the first terrain that could tell.
VoxelMarksAreSound ==
    /\ NoDataRingsAreDistances /\ FirstFrontDecides
    /\ AllTerrainIsSearched /\ ConnectedTerrainHangsTogether
=============================================================================

----------------------------- MODULE TerrainMap -----------------------------
(***************************************************************************)
(* The rolling terrain map of terrain_analysis and terrain_analysis_ext: a *)
(* square grid of point clouds that follows the vehicle, the clean-up of   *)
(* its cells and the elevation published for its points.  Both nodes run   *)
(* the same map code with other sizes; "node" says which one is followed.  *)
(* Lengths are whole numbers of units; vehicleZ, roll, pitch, disRatioZ    *)
(* and minDyObsAngle are 0.  The connectivity search of the second node   *)
(* is in TerrainBlocks and is switched off here, as in nav2_params.yaml.   *)
(***************************************************************************)
EXTENDS Integers, FiniteSets, FiniteSetsExt

CONSTANTS terrainVoxelSize,      \* V, an even number
          terrainVoxelHalfWidth,
          Shown,                 \* 5 or 10: cells of the cloud around the centre
          planarVoxelHalfWidth,  \* planar voxels are 2 units wide
          voxelPointUpdateThre, voxelTimeUpdateThre, decayTime, noDecayDis,
          minRelZ, maxRelZ, quantileNum, quantileDen, maxGroundLift,
          vehicleHeight, minBlockPointNum, noDataBlockSkipNum,
          minDyObsDis, minDyObsRelZ, minDyObsPointNum,
          dyObsSlope,            \* tangent of the vertical field of view
          absDyObsRelZThre,
          localTerrainMapRadius,
          Flags,                 \* parameters that are set: useSorting, ...
          ScanPoints,            \* <<x, y, z>> a scan may hold
          VehicleAt,             \* <<x, y>> the vehicle may report
          ClearingDistances,
          MaxTime

ASSUME TerrainAssumption ==
  /\ terrainVoxelSize \in Nat \ {0} /\ terrainVoxelSize % 2 = 0
  /\ terrainVoxelHalfWidth \in Nat /\ Shown \in 0 .. terrainVoxelHalfWidth
  /\ ScanPoints \subseteq Int \X Int \X Int /\ IsFiniteSet(ScanPoints)
  /\ VehicleAt \subseteq Int \X Int /\ <<0, 0>> \in VehicleAt
  /\ ClearingDistances \subseteq Int
  /\ quantileNum \in Nat /\ quantileDen \in Nat \ {0} /\ maxGroundLift \in Nat

V == terrainVoxelSize
Side == 0 .. 2 * terrainVoxelHalfWidth
Cells == Side \X Side
PlanarSide == 0 .. 2 * planarVoxelHalfWidth

VARIABLES node,                \* "local" or "ext"
          vehicle,             \* vehicleX, vehicleY
          noDataInited, vehicleRec,   \* of the first node only
          laserCloudTime,      \* since systemInitTime
          laserCloudCrop, newlaserCloud,
          clearingCloud, clearingDis,
          terrainVoxelShift,   \* terrainVoxelShiftX, -Y
          terrainVoxelCloud,
          terrainVoxelUpdateNum, terrainVoxelUpdateTime,
          terrainCloud, terrainCloudLocal,
          terrainCloudElev     \* what was published last

sensed == <<laserCloudTime, laserCloudCrop, newlaserCloud>>
gridVars == <<terrainVoxelShift, terrainVoxelCloud, terrainVoxelUpdateNum, terrainVoxelUpdateTime,
              terrainCloud, terrainCloudElev>>
clearVars == <<clearingCloud, clearingDis>>
terrainVars == <<node, vehicle, noDataInited, vehicleRec, sensed, clearVars, gridVars, terrainCloudLocal>>

TerrainInit ==
  /\ node \in {"local", "ext"}
  /\ vehicle = <<0, 0>> /\ vehicleRec = <<0, 0>> /\ noDataInited = 0
  /\ laserCloudTime = -1 /\ laserCloudCrop = {} /\ newlaserCloud = FALSE
  /\ clearingCloud = FALSE /\ clearingDis \in ClearingDistances
  /\ terrainVoxelShift = <<0, 0>>
  /\ terrainVoxelCloud = [c \in Cells |-> {}]
  /\ terrainVoxelUpdateNum = [c \in Cells |-> 0]
  /\ terrainVoxelUpdateTime = [c \in Cells |-> 0]
  /\ terrainCloud = {} /\ terrainCloudLocal = {} /\ terrainCloudElev = {}

Square(n) == n * n
Apart2(a, b) == Square(a[1] - b[1]) + Square(a[2] - b[2])
Dis2(p) == Apart2(p.at, vehicle)
InWindow(p) == minRelZ < p.at[3] /\ p.at[3] < maxRelZ

(***************************************************************************)
(* Callbacks                                                               *)
(***************************************************************************)
odometryHandler(v) ==
  /\ node = "local"
  /\ vehicle' = v
  /\ vehicleRec' = IF noDataInited = 0 THEN v ELSE vehicleRec
  /\ noDataInited' = IF noDataInited < 2 /\ Apart2(v, vehicleRec') >= Square(noDecayDis) THEN 2
                     ELSE IF noDataInited = 0 THEN 1 ELSE noDataInited
  /\ UNCHANGED <<node, sensed, clearVars, gridVars, terrainCloudLocal>>

\* the second node only keeps the position
odometryHandlerExt(v) ==
  /\ node = "ext"
  /\ vehicle' = v
  /\ UNCHANGED <<node, vehicleRec, noDataInited, sensed, clearVars, gridVars, terrainCloudLocal>>

\* the points that the crop of either node keeps, with their time
Cropped(cloud, t) ==
  {p \in {[at |-> q, t |-> t] : q \in cloud} :
     InWindow(p) /\ Dis2(p) < Square(V * (terrainVoxelHalfWidth + 1))}

laserCloudHandler(cloud) ==
  /\ laserCloudTime < MaxTime
  /\ laserCloudTime' = laserCloudTime + 1
  /\ laserCloudCrop' = Cropped(cloud, laserCloudTime')
  /\ newlaserCloud' = TRUE
  /\ UNCHANGED <<node, vehicle, noDataInited, vehicleRec, clearVars, gridVars, terrainCloudLocal>>

\* a request to clear, of either node
AskClearing(dis) ==
  /\ clearingDis' = dis
  /\ clearingCloud' = TRUE

\* noDataInited is 0 throughout in the second node
joystickHandler ==
  /\ noDataInited' = 0
  /\ AskClearing(clearingDis)
  /\ UNCHANGED <<node, vehicle, vehicleRec, sensed, gridVars, terrainCloudLocal>>

clearingHandler(dis) ==
  /\ noDataInited' = 0
  /\ AskClearing(dis)
  /\ UNCHANGED <<node, vehicle, vehicleRec, sensed, gridVars, terrainCloudLocal>>

terrainCloudLocalHandler(cloud) ==
  /\ node = "ext"
  /\ terrainCloudLocal' = cloud
  /\ UNCHANGED <<node, vehicle, noDataInited, vehicleRec, sensed, clearVars, gridVars>>

(***************************************************************************)
(* The grid                                                                *)
(***************************************************************************)

\* the shift at which the while loops of one axis stop
Rolled(v, s) ==
  IF v - V * s < -V THEN (v \div V) + 1
  ELSE IF v - V * s > V THEN -((-v) \div V) - 1
  ELSE s

\* static_cast<int>(e / size) + half, one less when e is negative
Index(d, size, half) ==
  LET e == d + size \div 2
  IN  half + (IF e >= 0 THEN e \div size ELSE -((-e) \div size) - 1)

CellOf(p) == <<Index(p.at[1] - vehicle[1], V, terrainVoxelHalfWidth),
               Index(p.at[2] - vehicle[2], V, terrainVoxelHalfWidth)>>

NextShift == <<Rolled(vehicle[1], terrainVoxelShift[1]), Rolled(vehicle[2], terrainVoxelShift[2])>>

\* where the contents of a cell were before the grid rolled
Before(c) == <<c[1] + NextShift[1] - terrainVoxelShift[1], c[2] + NextShift[2] - terrainVoxelShift[2]>>

Stacked(c) == {p \in laserCloudCrop : CellOf(p) = c}
Filled(c) == (IF Before(c) \in Cells THEN terrainVoxelCloud[Before(c)] ELSE {}) \cup Stacked(c)

\* downSizeFilter: points of one place become one, with their mean time
Downsized(cloud) ==
  {[at |-> q, t |-> LET same == {p \in cloud : p.at = q}
                    IN  MapThenSumSet(LAMBDA p : p.t, same) \div Cardinality(same)] :
     q \in {p.at : p \in cloud}}

\* the counters are indexed by cell and do not roll
UpdateNum(c) == terrainVoxelUpdateNum[c] + Cardinality(Stacked(c))

(* Mutant: a request to clear waits for the cell's turn.                   *)
UpdatedInTurn(c) ==
  \/ UpdateNum(c) >= voxelPointUpdateThre
  \/ laserCloudTime - terrainVoxelUpdateTime[c] >= voxelTimeUpdateThre

Updated(c) ==
  \/ UpdateNum(c) >= voxelPointUpdateThre
  \/ laserCloudTime - terrainVoxelUpdateTime[c] >= voxelTimeUpdateThre
  \/ clearingCloud

Kept(p) ==
  /\ InWindow(p)
  /\ laserCloudTime - p.t < decayTime \/ Dis2(p) < Square(noDecayDis)
  /\ ~(clearingCloud /\ Dis2(p) < Square(clearingDis))

ShownCells == {c \in Cells : \A a \in {1, 2} : c[a] - terrainVoxelHalfWidth \in -Shown .. Shown}

\* the part of the main loop that both nodes share
UpdateMap ==
  /\ newlaserCloud
  /\ newlaserCloud' = FALSE
  /\ terrainVoxelShift' = NextShift
  /\ terrainVoxelCloud' = [c \in Cells |-> IF Updated(c) THEN {p \in Downsized(Filled(c)) : Kept(p)}
                                           ELSE Filled(c)]
  /\ terrainVoxelUpdateNum' = [c \in Cells |-> IF Updated(c) THEN 0 ELSE UpdateNum(c)]
  /\ terrainVoxelUpdateTime' = [c \in Cells |-> IF Updated(c) THEN laserCloudTime
                                                ELSE terrainVoxelUpdateTime[c]]
  /\ terrainCloud' = UNION {terrainVoxelCloud'[c] : c \in ShownCells}
  /\ clearingCloud' = FALSE

(***************************************************************************)
(* Elevation                                                               *)
(***************************************************************************)
PlanarOf(p) == <<Index(p.at[1] - vehicle[1], 2, planarVoxelHalfWidth),
                 Index(p.at[2] - vehicle[2], 2, planarVoxelHalfWidth)>>
PlanarVoxels == PlanarSide \X PlanarSide
Adjacent(v, w, r) == \A a \in {1, 2} : v[a] - w[a] \in -r .. r

\* the points whose heights are collected for a planar voxel
planarPointElev(cloud, v) == {p \in cloud : InWindow(p) /\ Adjacent(PlanarOf(p), v, 1)}

Lowest(points) == Min({p.at[3] : p \in points})

\* element of the sorted heights at quantileZ
QuantileOf(points) ==
  LET n == Cardinality(points)
      id == Min({(n * quantileNum) \div quantileDen, n - 1})
      Below(z) == Cardinality({p \in points : p.at[3] < z})
      UpTo(z) == Cardinality({p \in points : p.at[3] <= z})
  IN  CHOOSE z \in {p.at[3] : p \in points} : Below(z) <= id /\ id < UpTo(z)

Ground(points) ==
  IF "useSorting" \notin Flags THEN Lowest(points)
  ELSE IF "limitGroundLift" \in Flags /\ node = "local"
       THEN Min({QuantileOf(points), Lowest(points) + maxGroundLift})
       ELSE QuantileOf(points)

\* a point that would count as dynamic, seen by a level sensor
MayBeDynamic(p) ==
  /\ Dis2(p) > Square(minDyObsDis) /\ p.at[3] > minDyObsRelZ
  /\ \/ Square(p.at[3]) < Square(dyObsSlope) * Dis2(p)
     \/ Square(p.at[3]) < Square(absDyObsRelZThre)

planarVoxelDyObs(v) ==
  IF \E p \in laserCloudCrop : PlanarOf(p) = v /\ p.at[3] > minDyObsRelZ THEN 0
  ELSE LET here == {p \in terrainCloud' : PlanarOf(p) = v}
       IN  Cardinality({p \in here : MayBeDynamic(p)})
             + minDyObsPointNum * Cardinality({p \in here : Dis2(p) <= Square(minDyObsDis)})

Elevated(p) ==
  LET points == planarPointElev(terrainCloud', PlanarOf(p))
      disZ == p.at[3] - Ground(points)
  IN  IF disZ < 0 /\ ("considerDrop" \in Flags \/ node = "ext") THEN -disZ ELSE disZ

LocalPoint(p) ==
  /\ InWindow(p) /\ PlanarOf(p) \in PlanarVoxels
  /\ "clearDyObs" \in Flags => planarVoxelDyObs(PlanarOf(p)) < minDyObsPointNum
  /\ Elevated(p) \in 0 .. vehicleHeight - 1
  /\ Cardinality(planarPointElev(terrainCloud', PlanarOf(p))) >= minBlockPointNum

\* voxels more than noDataBlockSkipNum away from data (see TerrainBlocks)
NoDataVoxels ==
  {v \in PlanarVoxels :
     \A w \in PlanarVoxels : Adjacent(v, w, noDataBlockSkipNum) =>
        Cardinality(planarPointElev(terrainCloud', w)) < minBlockPointNum}

\* rest of the main loop of terrain_analysis
ProcessLocal ==
  /\ node = "local"
  /\ UpdateMap
  /\ terrainCloudElev' =
       {[at |-> p.at, t |-> p.t, h |-> Elevated(p)] : p \in {q \in terrainCloud' : LocalPoint(q)}} \cup
       (IF "noDataObstacle" \in Flags /\ noDataInited = 2
        THEN {[voxel |-> v, h |-> vehicleHeight] : v \in NoDataVoxels} ELSE {})
  /\ UNCHANGED <<node, vehicle, noDataInited, vehicleRec, laserCloudTime, laserCloudCrop,
                 clearingDis, terrainCloudLocal>>

ExtPoint(p) ==
  /\ InWindow(p) /\ Dis2(p) > Square(localTerrainMapRadius)
  /\ PlanarOf(p) \in PlanarVoxels /\ Elevated(p) < vehicleHeight

\* rest of the main loop of terrain_analysis_ext
ProcessExt ==
  /\ node = "ext"
  /\ UpdateMap
  /\ terrainCloudElev' =
       {[at |-> p.at, t |-> p.t, h |-> Elevated(p)] : p \in {q \in terrainCloud' : ExtPoint(q)}} \cup
       {p \in terrainCloudLocal : Dis2(p) <= Square(localTerrainMapRadius)}
  /\ UNCHANGED <<node, vehicle, noDataInited, vehicleRec, laserCloudTime, laserCloudCrop,
                 clearingDis, terrainCloudLocal>>

LocalClouds == {{}, {[at |-> q, t |-> 0, h |-> 0] : q \in ScanPoints}}

TerrainNext ==
  \/ \E v \in VehicleAt : odometryHandler(v) \/ odometryHandlerExt(v)
  \/ \E cloud \in SUBSET ScanPoints : laserCloudHandler(cloud)
  \/ joystickHandler
  \/ \E dis \in ClearingDistances : clearingHandler(dis)
  \/ \E cloud \in LocalClouds : terrainCloudLocalHandler(cloud)
  \/ ProcessLocal
  \/ ProcessExt

TerrainSpec == TerrainInit /\ [][TerrainNext]_terrainVars

(***************************************************************************)
(* Properties                                                              *)
(***************************************************************************)
(* A stored point is within one and a half cells of the middle of the cell *)
(* that holds it, on either axis, however the grid has rolled: a point is  *)
(* put in its cell relative to the vehicle, which itself may be one cell   *)
(* away from the middle of the grid.                                       *)
PointsStayNearTheirCell ==
  \A c \in Cells : \A p \in terrainVoxelCloud[c] : \A a \in {1, 2} :
     2 * (p.at[a] - V * (terrainVoxelShift[a] + c[a] - terrainVoxelHalfWidth)) \in -(3 * V) .. 3 * V

ProcessStep == newlaserCloud /\ ~newlaserCloud'

(* After each scan every stored point closer to the vehicle than Shown     *)
(* cells less one and a half is in terrainCloud, the only points that the  *)
(* costmap will get to see.                                                *)
NearPointsAreShown ==
  [][ProcessStep =>
       \A c \in Cells : \A p \in terrainVoxelCloud'[c] :
          (\A a \in {1, 2} : 2 * (p.at[a] - vehicle[a]) < (2 * Shown - 3) * V
                          /\ 2 * (vehicle[a] - p.at[a]) < (2 * Shown - 3) * V)
             => p \in terrainCloud']_terrainVars

(* A request to clear takes effect with the next scan, on every point of   *)
(* the whole map within clearingDis of the vehicle, those of that scan     *)
(* included.                                                               *)
ClearingClears ==
  [][(ProcessStep /\ clearingCloud) =>
       \A c \in Cells : \A p \in terrainVoxelCloud'[c] : Dis2(p) >= Square(clearingDis)]_terrainVars

(* With limitGroundLift the published elevation of a point misses its      *)
(* height above the lowest point around it by at most maxGroundLift.       *)
ElevationIsAboveGround ==
  [][(ProcessStep /\ node = "local" /\ "limitGroundLift" \in Flags) =>
       \A p \in terrainCloud' : LocalPoint(p) =>
          LET low == Lowest(planarPointElev(terrainCloud', PlanarOf(p)))
          IN  Elevated(p) - (p.at[3] - low) \in -maxGroundLift .. maxGroundLift]_terrainVars

\* The rolling map keeps points where they are, shows the near ones at the right
\* elevation and forgets what it is told to, wherever the vehicle drives.
TerrainFollowsTheVehicle ==
    /\ []PointsStayNearTheirCell
    /\ NearPointsAreShown /\ ClearingClears /\ ElevationIsAboveGround
=============================================================================

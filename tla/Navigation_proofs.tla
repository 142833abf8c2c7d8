-------------------------- MODULE Navigation_proofs -------------------------
(* Proofs about the navigation stack: the goals of the attack plugin, the     *)
(* costmap layer of the intensity voxels, the chain from FAST_LIO's clouds to *)
(* the robot's odometry, the two passes over the planar voxels of the terrain *)
(* maps, the rolling map the terrain analysis keeps its points in, the        *)
(* controller's cycle and the frames the lidar driver cuts.                   *)
EXTENDS AttackPose, IntensityLayer, ScanChain, TerrainBlocks, TerrainMap, OmniController,
        LivoxFrames, FiniteSetTheorems, SequenceTheorems, WellFoundedInduction, TLAPS

-----------------------------------------------------------------------------
(* Numbers.                                                                  *)

\* A set of naturals that is not empty has a least element.
LEMMA LeastNat ==
  ASSUME NEW S \in SUBSET Nat, S # {}
  PROVE  \E h \in S : \A k \in S : h <= k
<1>1. PICK h \in S : \A k \in S : <<k, h>> \notin OpToRel(<, Nat)
  BY NatLessThanWellFounded, WFMin
<1>2. ASSUME NEW k \in S PROVE h <= k
  <2>1. <<k, h>> \in Nat \X Nat
    OBVIOUS
  <2>2. ~(k < h)
    BY <1>1, <2>1 DEF OpToRel
  <2> QED BY <2>1, <2>2
<1> QED BY <1>2

\* Division with remainder: what a quotient is, and that quotients keep the order.
LEMMA QuotientBounds ==
  ASSUME NEW n \in Int, NEW r \in Nat \ {0}
  PROVE  n \div r \in Int /\ r * (n \div r) <= n /\ n < r * (n \div r) + r
OBVIOUS

LEMMA DivisionBounds ==
  ASSUME NEW n \in Int, NEW r \in Nat \ {0}
  PROVE  /\ n \div r \in Int /\ r * (n \div r) <= n /\ n < r * (n \div r) + r
         /\ n % r \in 0..(r - 1) /\ n % r = n - r * (n \div r)
<1>1. n \div r \in Int /\ r * (n \div r) <= n /\ n < r * (n \div r) + r
  BY QuotientBounds
<1>2. n % r \in 0..(r - 1)
  OBVIOUS
<1>3. n % r = n - r * (n \div r)
  OBVIOUS
<1> QED BY <1>1, <1>2, <1>3

LEMMA QuotientsAreOrdered ==
  ASSUME NEW p \in Int, NEW q \in Int, NEW r \in Nat \ {0}, r * p < r * q + r
  PROVE  p <= q
<1> SUFFICES ASSUME p > q PROVE FALSE
  OBVIOUS
<1>1. p - (q + 1) \in Nat
  OBVIOUS
<1>2. r * (p - (q + 1)) \in Nat
  BY <1>1
<1>3. r * (p - (q + 1)) = r * p - (r * q + r)
  OBVIOUS
<1> DEFINE a == r * p
           b == r * q
           c == r * (p - (q + 1))
<1>4. a \in Int /\ b \in Int /\ c \in Nat /\ c = a - (b + r) /\ a < b + r
  BY <1>2, <1>3
<1> HIDE DEF a, b, c
<1> QED BY <1>4

-----------------------------------------------------------------------------
(* The goals of the attack plugin.                                           *)

\* What the place where an enemy was last seen and the goal rest on.
AttackInv ==
    /\ costmap_port \in Grids \union {Nothing}
    /\ tracker_port \in Sightings \union {Lost, Nothing}
    /\ robotPlace \in RobotPlaces \union {Nothing}
    /\ enemy_on_costmap_ # <<0, 0>> => lastSeen = enemy_on_costmap_
    /\ AttackPosesAreSound

\* The free places are those of a cell of the costmap, or less than a cell
\* beyond its lower border.
PlaceIsFree(p, grid) ==
    LET off(a) == p[a] - GridOrigin[a]
        cell == <<off(1) \div CellLen, off(2) \div CellLen>>
    IN  \/ cell \in DOMAIN grid /\ grid[cell] >= 0 /\ grid[cell] <= cost_threshold
        \/ \E a \in 1..2 : off(a) < 0 /\ off(a) > -CellLen

\* The conversion to int is the division, except in the cell below the origin.
LEMMA CutAboveZero ==
  ASSUME NEW n \in Int, CutToCell(n) >= 0
  PROVE  (n >= 0 /\ CutToCell(n) = n \div CellLen) \/ (n < 0 /\ n > -CellLen)
<1>1. CellLen \in Nat /\ CellLen > 0
  BY AttackAssumption
<1>2. CASE n >= 0
  BY <1>2 DEF CutToCell
<1>3. CASE n < 0
  <2>1. -n \in Nat /\ -n > 0
    BY <1>3
  <2>2. -((-n) \div CellLen) >= 0
    BY <1>3 DEF CutToCell
  <2> DEFINE m == -n
             q == m \div CellLen
  <2>3. q \in Int /\ q <= 0
    BY <2>1, <2>2, <1>1
  <2>4. m < (q + 1) * CellLen
    BY <2>1, <1>1
  <2>5. (q + 1) * CellLen <= CellLen
    BY <2>3, <1>1
  <2> QED BY <2>1, <2>3, <2>4, <2>5, <1>1, <1>3
<1> QED BY <1>2, <1>3

LEMMA FeasibleIsFree ==
  ASSUME NEW p \in Int \X Int, NEW grid \in Grids, Feasible(p, grid)
  PROVE  PlaceIsFree(p, grid)
<1> DEFINE off(a) == p[a] - GridOrigin[a]
           cut == <<CutToCell(off(1)), CutToCell(off(2))>>
<1>1. off(1) \in Int /\ off(2) \in Int
  BY AttackAssumption
<1>2. cut \in DOMAIN grid /\ grid[cut] >= 0 /\ grid[cut] <= cost_threshold
  BY DEF Feasible
<1>3. cut \in Nat \X Nat
  BY <1>2, AttackAssumption
<1>4. CutToCell(off(1)) >= 0 /\ CutToCell(off(2)) >= 0
  BY <1>3
<1> HIDE DEF off
<1>5. CASE off(1) >= 0 /\ off(2) >= 0
  <2>1. cut = <<off(1) \div CellLen, off(2) \div CellLen>>
    BY <1>1, <1>4, <1>5, CutAboveZero
  <2> QED BY <1>2, <2>1 DEF PlaceIsFree, off
<1>6. CASE off(1) < 0 /\ off(1) > -CellLen
  BY <1>6 DEF PlaceIsFree, off
<1>7. CASE off(2) < 0 /\ off(2) > -CellLen
  BY <1>7 DEF PlaceIsFree, off
<1> QED BY <1>1, <1>4, <1>5, <1>6, <1>7, CutAboveZero

\* The candidates are places around the enemy.
LEMMA CandidatesArePlaces ==
  ASSUME NEW enemy \in Int \X Int
  PROVE  generateCandidatePoints(enemy) \in Seq(Int \X Int)
<1>1. DOMAIN Sectors = 1..Len(Sectors) /\ Len(Sectors) \in Nat
  BY AttackAssumption
<1>2. ASSUME NEW i \in DOMAIN Sectors
      PROVE  <<enemy[1] + Sectors[i][1], enemy[2] + Sectors[i][2]>> \in Int \X Int
  <2>1. Sectors[i] \in Int \X Int
    BY <1>1, AttackAssumption
  <2> QED BY <2>1
<1>3. generateCandidatePoints(enemy) \in [1..Len(Sectors) -> Int \X Int]
  BY <1>1, <1>2 DEF generateCandidatePoints
<1> QED BY <1>1, <1>3, SeqDef

\* selectBestPoint chooses one of the points it is given.
LEMMA BestIsFeasible ==
  ASSUME NEW candidates \in Seq(Int \X Int), NEW feasible \in SUBSET DOMAIN candidates,
         feasible # {}, NEW robot \in Int \X Int
  PROVE  \E i \in feasible : selectBestPoint(candidates, feasible, robot) = candidates[i]
<1> DEFINE d(i) == Range2(candidates[i], robot)
           nearest == {i \in feasible : \A j \in feasible : d(i) <= d(j)}
<1>1. ASSUME NEW i \in feasible PROVE d(i) \in Nat
  <2>1. candidates[i] \in Int \X Int
    OBVIOUS
  <2>2. \A n \in Int : n * n \in Nat
    OBVIOUS
  <2> DEFINE x == candidates[i][1] - robot[1]
             y == candidates[i][2] - robot[2]
  <2>3. x \in Int /\ y \in Int
    BY <2>1
  <2>4. d(i) = x * x + y * y
    BY DEF Range2
  <2>5. x * x \in Nat /\ y * y \in Nat
    BY <2>2, <2>3
  <2> HIDE DEF x, y, d
  <2> DEFINE a == x * x
             b == y * y
  <2>6. a \in Nat /\ b \in Nat /\ d(i) = a + b
    BY <2>4, <2>5
  <2> HIDE DEF a, b
  <2> QED BY <2>6
<1> HIDE DEF d
<1>2. nearest # {}
  <2>1. {d(i) : i \in feasible} \in SUBSET Nat /\ {d(i) : i \in feasible} # {}
    BY <1>1
  <2>2. PICK least \in {d(i) : i \in feasible} : \A k \in {d(i) : i \in feasible} : least <= k
    BY <2>1, LeastNat
  <2> QED BY <2>2
<1>3. nearest \in SUBSET Nat
  OBVIOUS
<1>4. \E i \in nearest : \A j \in nearest : i <= j
  BY <1>2, <1>3, LeastNat
<1>5. (CHOOSE i \in nearest : \A j \in nearest : i <= j) \in nearest
  BY <1>4
<1> QED BY <1>5 DEF selectBestPoint, d

LEMMA AttackInvStep == AttackInv /\ [AttackNext]_attackVars => AttackInv'
<1> SUFFICES ASSUME AttackInv, [AttackNext]_attackVars PROVE AttackInv'
  OBVIOUS
<1> USE DEF AttackInv, AttackPosesAreSound
<1>1. CASE UNCHANGED attackVars
  BY <1>1 DEF attackVars, attackIn, AttackPlaceIsFree, LostEnemyIsSoughtWhereSeen
<1>2. CASE AttackInputs
  <2>1. /\ costmap_port' \in Grids \union {Nothing}
        /\ tracker_port' \in Sightings \union {Lost, Nothing}
        /\ robotPlace' \in RobotPlaces \union {Nothing}
    BY <1>2 DEF AttackInputs, CostmapMsg, TargetMsg, Transforms
  <2>2. UNCHANGED <<enemy_on_costmap_, lastSeen>> /\ result' = "IDLE"
    BY <1>2 DEF AttackInputs
  <2> QED BY <2>1, <2>2 DEF AttackPlaceIsFree, LostEnemyIsSoughtWhereSeen
<1>3. CASE tick
  <2> USE DEF attackIn
  <2>1. UNCHANGED attackIn
    BY <1>3 DEF tick
  <2>2. CASE result' = "FAILURE" /\ UNCHANGED <<enemy_on_costmap_, lastSeen>>
    BY <2>1, <2>2 DEF AttackPlaceIsFree, LostEnemyIsSoughtWhereSeen
  <2>3. CASE tracker_port = Lost /\ DirectToLastKnown
    <3>1. CASE enemy_on_costmap_ = <<0, 0>>
      BY <2>2, <2>3, <3>1 DEF DirectToLastKnown, Fails
    <3>2. CASE enemy_on_costmap_ # <<0, 0>>
      <4>1. goal'.at = enemy_on_costmap_ /\ UNCHANGED <<enemy_on_costmap_, lastSeen>>
        BY <2>3, <3>2 DEF DirectToLastKnown, Outputs
      <4> QED BY <2>1, <2>3, <3>2, <4>1 DEF AttackPlaceIsFree, LostEnemyIsSoughtWhereSeen
    <3> QED BY <3>1, <3>2
  <2>4. CASE /\ costmap_port # Nothing /\ tracker_port \notin {Nothing, Lost}
             /\ AttackFromCircle(tracker_port)
    <3> DEFINE candidates == generateCandidatePoints(tracker_port)
               feasible == filterFeasiblePoints(candidates, costmap_port)
    <3>1. CASE ~canTransform
      BY <2>2, <2>4, <3>1 DEF AttackFromCircle, Fails
    <3>2. CASE canTransform
      <4>1. enemy_on_costmap_' = tracker_port /\ lastSeen' = tracker_port
        BY <2>4, <3>2 DEF AttackFromCircle
      <4>2. CASE result' = "FAILURE"
        BY <2>1, <4>1, <4>2 DEF AttackPlaceIsFree, LostEnemyIsSoughtWhereSeen
      <4>3. CASE /\ feasible # {} /\ robotPlace # Nothing
                 /\ goal'.at = selectBestPoint(candidates, feasible, robotPlace)
        <5>t. tracker_port \in Sightings
          BY <2>4
        <5>r. robotPlace \in RobotPlaces
          BY <4>3
        <5>1. costmap_port \in Grids
          BY <2>4
        <5>2. tracker_port \in Int \X Int /\ robotPlace \in Int \X Int
          BY <5>t, <5>r, AttackAssumption
        <5>c. candidates \in Seq(Int \X Int)
          BY <5>2, CandidatesArePlaces
        <5>f. /\ feasible \subseteq DOMAIN candidates
              /\ \A i \in feasible : Feasible(candidates[i], costmap_port)
          BY DEF filterFeasiblePoints
        <5>b. \E i \in feasible : selectBestPoint(candidates, feasible, robotPlace) = candidates[i]
          <6>1. feasible \in SUBSET DOMAIN candidates /\ feasible # {} /\ robotPlace \in Int \X Int
            BY <4>3, <5>2, <5>f
          <6> HIDE DEF candidates, feasible
          <6> QED BY <5>c, <6>1, BestIsFeasible
        <5>3. PICK i \in feasible : goal'.at = candidates[i]
          BY <4>3, <5>b
        <5>4. candidates[i] \in Int \X Int /\ Feasible(candidates[i], costmap_port)
          BY <5>3, <5>c, <5>f
        <5>5. PlaceIsFree(goal'.at, costmap_port)
          BY <5>1, <5>3, <5>4, FeasibleIsFree
        <5>6. AttackPlaceIsFree'
          BY <5>5, <2>1 DEF PlaceIsFree, AttackPlaceIsFree
        <5> QED BY <2>1, <2>4, <4>1, <5>6 DEF LostEnemyIsSoughtWhereSeen
      <4> QED BY <2>4, <3>2, <4>2, <4>3 DEF AttackFromCircle, Fails, Outputs
    <3> QED BY <3>1, <3>2
  <2> QED BY <1>3, <2>2, <2>3, <2>4 DEF tick, Fails
<1> QED BY <1>1, <1>2, <1>3 DEF AttackNext

\* For every costmap, every circle of candidates and every order of messages, ticks
\* and failures: a tracked enemy is attacked from a free place, and one that is lost
\* is looked for where a tick saw it last.
THEOREM AttackCorrect == AttackSpec => []AttackPosesAreSound
<1>1. AttackInit => AttackInv
  BY DEF AttackInit, AttackInv, AttackPosesAreSound, AttackPlaceIsFree,
     LostEnemyIsSoughtWhereSeen
<1> QED BY <1>1, AttackInvStep, PTL DEF AttackSpec, AttackInv

-----------------------------------------------------------------------------
(* The costmap layer.                                                        *)

\* A set of integers that is bounded has a least and a greatest element.
LEMMA BoundedHasEnds ==
  ASSUME NEW S \in SUBSET Int, S # {}, NEW L \in Int, NEW U \in Int,
         \A x \in S : L <= x /\ x <= U
  PROVE  /\ \E x \in S : \A y \in S : x <= y
         /\ \E x \in S : \A y \in S : y <= x
<1>1. \E x \in S : \A y \in S : x <= y
  <2> DEFINE T == {x - L : x \in S}
  <2>1. T \in SUBSET Nat /\ T # {}
    <3>1. \A x \in S : x - L \in Nat
      OBVIOUS
    <3>2. \A n \in T : n \in Nat
      BY <3>1
    <3> QED BY <3>2
  <2>2. PICK h \in T : \A k \in T : h <= k
    BY <2>1, LeastNat
  <2>3. PICK x \in S : h = x - L
    OBVIOUS
  <2>4. ASSUME NEW y \in S PROVE x <= y
    <3>1. y - L \in T
      OBVIOUS
    <3>2. x - L <= y - L
      BY <2>2, <2>3, <3>1
    <3>3. x \in Int /\ y \in Int
      OBVIOUS
    <3> HIDE DEF T
    <3> QED BY <3>2, <3>3
  <2> QED BY <2>4
<1>2. \E x \in S : \A y \in S : y <= x
  <2> DEFINE T == {U - x : x \in S}
  <2>1. T \in SUBSET Nat /\ T # {}
    <3>1. \A x \in S : U - x \in Nat
      OBVIOUS
    <3>2. \A n \in T : n \in Nat
      BY <3>1
    <3> QED BY <3>2
  <2>2. PICK h \in T : \A k \in T : h <= k
    BY <2>1, LeastNat
  <2>3. PICK x \in S : h = U - x
    OBVIOUS
  <2>4. ASSUME NEW y \in S PROVE y <= x
    <3>1. U - y \in T
      OBVIOUS
    <3>2. U - x <= U - y
      BY <2>2, <2>3, <3>1
    <3>3. x \in Int /\ y \in Int
      OBVIOUS
    <3> HIDE DEF T
    <3> QED BY <3>2, <3>3
  <2> QED BY <2>4
<1> QED BY <1>1, <1>2

Bounds == [min : Int, max : Int]

\* The bounds that Touched widens hold what they held and the new places.
LEMMA TouchedHolds ==
  ASSUME NEW b \in Bounds, NEW xs \in SUBSET Int, NEW L \in Int, NEW U \in Int,
         \A x \in xs : L <= x /\ x <= U
  PROVE  LET t == Touched(b, xs) IN
         /\ t \in Bounds /\ t.min <= b.min /\ b.max <= t.max
         /\ \A x \in xs : t.min <= x /\ x <= t.max
<1> DEFINE low == xs \union {b.min}
           high == xs \union {b.max}
           min == CHOOSE x \in low : \A y \in low : x <= y
           max == CHOOSE x \in high : \A y \in high : y <= x
<1>1. b.min \in Int /\ b.max \in Int
  BY DEF Bounds
<1>2. \E x \in low : \A y \in low : x <= y
  <2> DEFINE M == IF L <= b.min THEN L ELSE b.min
             N == IF b.min <= U THEN U ELSE b.min
  <2>1. M \in Int /\ N \in Int /\ \A x \in low : M <= x /\ x <= N
    BY <1>1
  <2>2. low \in SUBSET Int /\ low # {}
    BY <1>1
  <2> HIDE DEF low, M, N
  <2> QED BY <2>1, <2>2, BoundedHasEnds
<1>3. \E x \in high : \A y \in high : y <= x
  <2> DEFINE M == IF L <= b.max THEN L ELSE b.max
             N == IF b.max <= U THEN U ELSE b.max
  <2>1. M \in Int /\ N \in Int /\ \A x \in high : M <= x /\ x <= N
    BY <1>1
  <2>2. high \in SUBSET Int /\ high # {}
    BY <1>1
  <2> HIDE DEF high, M, N
  <2> QED BY <2>1, <2>2, BoundedHasEnds
<1>4. min \in low /\ \A y \in low : min <= y
  BY <1>2
<1>5. max \in high /\ \A y \in high : y <= max
  BY <1>3
<1>6. Touched(b, xs) = [min |-> min, max |-> max]
  BY DEF Touched
<1> HIDE DEF min, max
<1>7. min \in Int /\ max \in Int /\ min <= b.min /\ b.max <= max
  BY <1>1, <1>4, <1>5
<1>8. \A x \in xs : min <= x /\ x <= max
  BY <1>4, <1>5
<1> QED BY <1>6, <1>7, <1>8 DEF Bounds

\* Cells follow the places, and move with the origin of the map.
LEMMA CellHolds ==
  ASSUME NEW x \in Int, NEW o \in Int, NEW c \in Int, CellAt(x, o) = c
  PROVE  resolution_ * c <= x - o /\ x - o < resolution_ * c + resolution_
<1>1. resolution_ \in Nat \ {0} /\ x - o \in Int
  BY LayerAssumption
<1> QED BY <1>1, QuotientBounds DEF CellAt

LEMMA CellsAreOrdered ==
  ASSUME NEW x \in Int, NEW y \in Int, NEW o \in Int, x <= y
  PROVE  CellAt(x, o) \in Int /\ CellAt(x, o) <= CellAt(y, o)
<1>r. resolution_ \in Nat \ {0}
  BY LayerAssumption
<1> DEFINE r == resolution_
           p == CellAt(x, o)
           q == CellAt(y, o)
<1>1. p \in Int /\ r * p <= x - o
  BY <1>r, QuotientBounds DEF CellAt
<1>2. q \in Int /\ y - o < r * q + r
  BY <1>r, QuotientBounds DEF CellAt
<1> HIDE DEF p, q
<1>3. r * p \in Int /\ r * q \in Int
  BY <1>1, <1>2, <1>r
<1>4. r * p < r * q + r
  BY <1>1, <1>2, <1>3, <1>r
<1>5. p <= q
  BY <1>1, <1>2, <1>4, <1>r, QuotientsAreOrdered
<1> QED BY <1>1, <1>5 DEF p, q

LEMMA CellsMoveWithTheOrigin ==
  ASSUME NEW x \in Int, NEW o \in Int, NEW k \in Int
  PROVE  /\ o + k * resolution_ \in Int
         /\ ((o + k * resolution_) - o) \div resolution_ = k
         /\ CellAt(x, o + k * resolution_) = CellAt(x, o) - k
<1> DEFINE r == resolution_
           p == CellAt(x, o)
           q == CellAt(x, o + k * r)
           m == ((o + k * r) - o) \div r
<1>r. r \in Nat \ {0}
  BY LayerAssumption
<1>k. k * r \in Int /\ k * r = r * k
  BY <1>r
<1>1. p \in Int /\ r * p <= x - o /\ x - o < r * p + r
  BY <1>r, QuotientBounds DEF CellAt
<1>2. x - (o + k * r) \in Int
  BY <1>k
<1>3. q \in Int /\ r * q <= x - (o + k * r) /\ x - (o + k * r) < r * q + r
  BY <1>r, <1>2, QuotientBounds DEF CellAt
<1>4. (o + k * r) - o = r * k
  BY <1>k, <1>r
<1>5. m \in Int /\ r * m <= r * k /\ r * k < r * m + r
  BY <1>4, <1>r, <1>k, QuotientBounds
<1> HIDE DEF m, p, q
<1> DEFINE s == r * k
<1>6. s \in Int /\ s = k * r /\ r * (q + k) = r * q + s
  BY <1>3, <1>k, <1>r
<1>7. r * p \in Int /\ r * q \in Int /\ r * m \in Int
  BY <1>1, <1>3, <1>5, <1>r
<1>8. r * p < r * (q + k) + r /\ r * (q + k) < r * p + r
  <2> HIDE DEF s
  <2> QED BY <1>1, <1>3, <1>6, <1>7, <1>r
<1>9. r * k < r * m + r /\ r * m < r * k + r
  <2>1. s \in Int /\ r * m <= s /\ s < r * m + r
    BY <1>5, <1>6
  <2> HIDE DEF s
  <2>2. r * m < s + r
    BY <2>1, <1>7, <1>r
  <2> QED BY <2>1, <2>2 DEF s
<1>10. p <= q + k /\ q + k <= p
  BY <1>1, <1>3, <1>8, <1>r, QuotientsAreOrdered
<1>11. k <= m /\ m <= k
  BY <1>5, <1>9, <1>r, QuotientsAreOrdered
<1> QED BY <1>1, <1>3, <1>5, <1>10, <1>11, <1>k DEF p, q, m

\* The cells that are reset are all those of the places inside the bounds.
LEMMA BoundsAreReset ==
  ASSUME NEW w \in Bounds, NEW o \in Int, NEW x \in Int, NEW c \in 0..(size_x_ - 1),
         CellAt(x, o) = c, w.min <= x, x <= w.max
  PROVE  c \in Enforced(w.min - inflation_radius_, o)..Enforced(w.max + inflation_radius_, o)
<1> DEFINE y == w.min - inflation_radius_
           z == w.max + inflation_radius_
<1>1. y \in Int /\ z \in Int /\ y <= x /\ x <= z /\ size_x_ \in Nat \ {0}
  BY LayerAssumption DEF Bounds
<1> HIDE DEF y, z
<1>2. CellAt(y, o) \in Int /\ CellAt(y, o) <= c /\ CellAt(z, o) \in Int /\ c <= CellAt(z, o)
  <2>1. CellAt(y, o) \in Int /\ CellAt(y, o) <= CellAt(x, o)
    BY <1>1, CellsAreOrdered
  <2>2. CellAt(x, o) <= CellAt(z, o)
    BY <1>1, CellsAreOrdered
  <2>3. CellAt(z, o) \in Int
    BY <1>1, CellsAreOrdered
  <2> QED BY <2>1, <2>2, <2>3
<1>3. x >= o
  <2>r. resolution_ \in Nat \ {0}
    BY LayerAssumption
  <2>1. resolution_ * c <= x - o
    BY <2>r, QuotientBounds DEF CellAt
  <2>2. resolution_ * c \in Nat
    BY <2>r
  <2> QED BY <2>1, <2>2
<1>4. Enforced(y, o) \in Int /\ Enforced(y, o) <= c
  BY <1>1, <1>2 DEF Enforced
<1>5. Enforced(z, o) \in Int /\ c <= Enforced(z, o)
  BY <1>1, <1>2, <1>3 DEF Enforced
<1> QED BY <1>4, <1>5 DEF y, z

\* The cells of the layer lie inside the bounds that the last cycle reported.
Reported(cells, b, o) ==
    \A c \in cells : \E x \in Int : b.min <= x /\ x <= b.max /\ CellAt(x, o) = c

LayerInv ==
    /\ origin_x_ \in Int /\ CostmapIsCurrent
    /\ costmap_ \subseteq 0..(size_x_ - 1)
    /\ lastBounds \in Bounds /\ Reported(costmap_, lastBounds, origin_x_)

LEMMA NowhereHasNoCells ==
  ASSUME NEW cells, NEW o, Reported(cells, Nowhere, o)
  PROVE  cells = {}
BY DEF Reported, Nowhere

\* A cycle of the layer marks only cells that its bounds report.
LEMMA UpdateBoundsReports ==
  ASSUME NEW hits \in Echoes, NEW robot \in RobotAt, NEW o \in Int
  PROVE  LET u == updateBounds(hits, robot, o) IN
         /\ u.cells \subseteq 0..(size_x_ - 1)
         /\ u.bounds \in Bounds /\ u.bounds # Nowhere
         /\ Reported(u.cells, u.bounds, o)
<1> DEFINE used == Usable(hits, robot, o)
           cells == Marked(used, o)
           at(c) == (CHOOSE h \in used : CellAt(h.x, o) = c).x
           xs == {robot} \union {at(c) : c \in cells}
           t == Touched(Nowhere, xs)
           u == updateBounds(hits, robot, o)
<1>1. robot \in Int /\ \A h \in used : h.x \in Int
  BY LayerAssumption DEF Usable
<1>2. cells \subseteq 0..(size_x_ - 1)
  BY DEF Marked
<1>3. ASSUME NEW c \in cells
      PROVE  at(c) \in Int /\ CellAt(at(c), o) = c
  <2> DEFINE there == {g \in used : CellAt(g.x, o) = c}
  <2>1. Cardinality({Voxel(h) : h \in there}) > mark_threshold_
    BY DEF Marked
  <2>2. there # {}
    <3> SUFFICES ASSUME there = {} PROVE FALSE
      OBVIOUS
    <3>1. {Voxel(h) : h \in there} = {}
      OBVIOUS
    <3>2. 0 > mark_threshold_
      BY <2>1, <3>1, FS_EmptySet
    <3> QED BY <3>2, LayerAssumption
  <2>3. \E h \in used : CellAt(h.x, o) = c
    BY <2>2
  <2> QED BY <2>3, <1>1
<1> HIDE DEF at, cells, used
<1>4. xs \in SUBSET Int
  BY <1>1, <1>3
\* All of it lies on the layer, so the new places are bounded.
<1>5. \E L, U \in Int : \A x \in xs : L <= x /\ x <= U
  <2> DEFINE M == o
             N == o + resolution_ * size_x_
  <2>1. resolution_ \in Nat \ {0} /\ size_x_ \in Nat \ {0}
    BY LayerAssumption
  <2>2. M \in Int /\ N \in Int
    BY <2>1
  <2>3. ASSUME NEW c \in cells PROVE M <= at(c) /\ at(c) <= N
    <3>1. c \in Int /\ 0 <= c /\ c + 1 <= size_x_ /\ at(c) \in Int /\ CellAt(at(c), o) = c
      BY <1>2, <1>3, <2>1
    <3>2. resolution_ * c <= at(c) - o /\ at(c) - o < resolution_ * c + resolution_
      <4> HIDE DEF at
      <4> QED BY <3>1, CellHolds
    <3>3. /\ resolution_ * c \in Nat /\ resolution_ * (size_x_ - (c + 1)) \in Nat
      BY <3>1, <2>1
    <3>4. resolution_ * (size_x_ - (c + 1)) = resolution_ * size_x_ - (resolution_ * c + resolution_)
      BY <3>1, <2>1
    <3> DEFINE p == resolution_ * c
               q == resolution_ * size_x_
               d == resolution_ * (size_x_ - (c + 1))
               x == at(c)
    <3>5. p \in Nat /\ q \in Int /\ d \in Nat /\ x \in Int /\ d = q - (p + resolution_)
      BY <3>1, <3>3, <3>4, <2>1
    <3>6. p <= x - o /\ x - o < p + resolution_ /\ N = o + q
      BY <3>2
    <3> HIDE DEF p, q, d, x, N
    <3>7. o <= x /\ x <= N
      BY <3>5, <3>6, <2>1
    <3> QED BY <3>7 DEF x
  <2> HIDE DEF M, N
  <2> DEFINE L == IF robot <= M THEN robot ELSE M
             U == IF robot <= N THEN N ELSE robot
  <2>4. L \in Int /\ U \in Int /\ L <= robot /\ robot <= U /\ L <= M /\ N <= U
    BY <1>1, <2>2
  <2> HIDE DEF L, U
  <2>5. \A x \in xs : L <= x /\ x <= U
    BY <1>1, <1>3, <2>2, <2>3, <2>4
  <2> QED BY <2>4, <2>5
<1>6. PICK L \in Int, U \in Int : \A x \in xs : L <= x /\ x <= U
  BY <1>5
<1>7. Nowhere \in Bounds
  BY DEF Nowhere, Bounds
<1>8. t \in Bounds /\ \A x \in xs : t.min <= x /\ x <= t.max
  <2> HIDE DEF xs
  <2> QED BY <1>4, <1>6, <1>7, TouchedHolds
<1>9. u.cells = cells \ {CellAt(robot, o)} /\ u.bounds = t
  BY DEF updateBounds, at, cells, used
<1>10. t # Nowhere
  <2>1. t.min <= robot /\ robot <= t.max /\ t.min \in Int /\ t.max \in Int
    BY <1>8 DEF Bounds
  <2> HIDE DEF t
  <2> QED BY <2>1, <1>1 DEF Nowhere
<1>11. Reported(u.cells, t, o)
  <2>1. ASSUME NEW c \in u.cells
        PROVE  \E x \in Int : t.min <= x /\ x <= t.max /\ CellAt(x, o) = c
    <3>1. c \in cells
      BY <1>9
    <3>2. at(c) \in xs
      BY <3>1
    <3> HIDE DEF t, xs
    <3> QED BY <3>1, <3>2, <1>3, <1>8
  <2> QED BY <2>1 DEF Reported
<1> HIDE DEF t, u
<1> QED BY <1>2, <1>8, <1>9, <1>10, <1>11 DEF u

LEMMA LayerInvStep == LayerInv /\ [LayerNext]_layerVars => LayerInv'
<1> SUFFICES ASSUME LayerInv, [LayerNext]_layerVars PROVE LayerInv'
  OBVIOUS
<1>0. CASE UNCHANGED layerVars
  BY <1>0 DEF LayerInv, layerVars, CostmapIsCurrent, ObstaclesAreCurrent, OriginsAgree, Reported
<1>1. CASE LayerNext
  <2>1. PICK hits \in Echoes, robot \in RobotAt, enabled \in BOOLEAN :
          updateMap(hits, robot, enabled)
    BY <1>1 DEF LayerNext
  <2> DEFINE new == robot - (size_x_ * resolution_) \div 2
             k == Truncated(new - origin_x_, resolution_)
             home == origin_x_ + k * resolution_
             u == IF enabled THEN updateBounds(hits, robot, home)
                  ELSE [cells |-> {}, bounds |-> Nowhere]
             ends == {lastBounds.min, lastBounds.max}
             both == Touched(u.bounds, ends)
             wide == IF lastBounds = Nowhere THEN u.bounds ELSE both
             x0 == Enforced(wide.min - inflation_radius_, home)
             xn == Enforced(wide.max + inflation_radius_, home)
             reset == IF lastBounds = Nowhere /\ u.bounds = Nowhere THEN {} ELSE x0..xn
             kept == MasterRolled(master, masterOrigin, home)
  <2>2. masterOrigin = origin_x_ /\ master = costmap_ /\ origin_x_ \in Int
    BY DEF LayerInv, CostmapIsCurrent, ObstaclesAreCurrent, OriginsAgree
  <2>3. /\ origin_x_' = home /\ masterOrigin' = home
        /\ costmap_' = u.cells /\ lastBounds' = u.bounds
        /\ master' = (kept \ reset) \union (u.cells \intersect reset)
    BY <2>1, <2>2 DEF updateMap, updateOrigin
  <2> HIDE DEF new
  <2>4. k \in Int /\ home \in Int
    <3>1. new \in Int
      BY LayerAssumption DEF new
    <3>2. resolution_ \in Nat \ {0}
      BY LayerAssumption
    <3>3. k \in Int
      BY <2>2, <3>1, <3>2, QuotientBounds DEF Truncated
    <3> QED BY <2>2, <3>2, <3>3
  <2>5. /\ u.cells \subseteq 0..(size_x_ - 1) /\ u.bounds \in Bounds
        /\ Reported(u.cells, u.bounds, home)
        /\ u.cells # {} => u.bounds # Nowhere
    <3>1. CASE enabled
      <4>1. u = updateBounds(hits, robot, home)
        BY <3>1
      <4> HIDE DEF u, home
      <4> QED BY <4>1, <2>4, UpdateBoundsReports
    <3>2. CASE ~enabled
      BY <3>2 DEF Reported, Nowhere, Bounds
    <3> QED BY <3>1, <3>2
  <2> HIDE DEF u
  \* What is kept was reported by the cycle before, so it is reset.
  <2>6. kept \subseteq reset
    <3> SUFFICES ASSUME NEW c \in kept PROVE c \in reset
      OBVIOUS
    <3>1. (home - origin_x_) \div resolution_ = k
      BY <2>2, <2>4, CellsMoveWithTheOrigin
    <3>2. c \in 0..(size_x_ - 1) /\ c + k \in costmap_
      BY <2>2, <3>1 DEF MasterRolled
    <3>3. PICK x \in Int : /\ lastBounds.min <= x /\ x <= lastBounds.max
                           /\ CellAt(x, origin_x_) = c + k
      BY <3>2 DEF LayerInv, Reported
    <3>4. CellAt(x, home) = c
      <4>1. CellAt(x, home) = CellAt(x, origin_x_) - k
        BY <2>2, <2>4, CellsMoveWithTheOrigin
      <4> HIDE DEF k, home
      <4> QED BY <4>1, <3>2, <3>3, <2>4, LayerAssumption
    <3>5. lastBounds # Nowhere
      BY <3>2, NowhereHasNoCells DEF LayerInv
    <3>6. lastBounds \in Bounds /\ lastBounds.min \in Int /\ lastBounds.max \in Int
      BY DEF LayerInv, Bounds
    <3>7. both \in Bounds /\ both.min <= x /\ x <= both.max
      <4>1. /\ ends \in SUBSET Int /\ lastBounds.min \in ends /\ lastBounds.max \in ends
            /\ \A y \in ends : lastBounds.min <= y /\ y <= lastBounds.max
        BY <3>3, <3>6
      <4> HIDE DEF ends
      <4>2. /\ both \in Bounds
            /\ both.min <= lastBounds.min /\ lastBounds.max <= both.max
        BY <4>1, <3>6, <2>5, TouchedHolds
      <4>3. both.min \in Int /\ both.max \in Int
        BY <4>2 DEF Bounds
      <4> HIDE DEF both
      <4> QED BY <4>2, <4>3, <3>3, <3>6
    <3> HIDE DEF both, home, kept
    <3>8. c \in x0..xn
      BY <3>2, <3>4, <3>5, <3>7, <2>4, BoundsAreReset
    <3> QED BY <3>5, <3>8
  \* What is marked is reported by this cycle.
  <2>7. u.cells \subseteq reset
    <3> SUFFICES ASSUME NEW c \in u.cells PROVE c \in reset
      OBVIOUS
    <3>1. c \in 0..(size_x_ - 1) /\ u.bounds # Nowhere
      BY <2>5
    <3>2. PICK x \in Int : u.bounds.min <= x /\ x <= u.bounds.max /\ CellAt(x, home) = c
      BY <2>5 DEF Reported
    <3>3. wide \in Bounds /\ wide.min <= x /\ x <= wide.max
      <4>1. CASE lastBounds = Nowhere
        BY <4>1, <3>2, <2>5
      <4>2. CASE lastBounds # Nowhere
        <5> DEFINE L == IF lastBounds.min <= lastBounds.max THEN lastBounds.min ELSE lastBounds.max
                   U == IF lastBounds.min <= lastBounds.max THEN lastBounds.max ELSE lastBounds.min
        <5>1. lastBounds.min \in Int /\ lastBounds.max \in Int
          BY DEF LayerInv, Bounds
        <5>2. /\ L \in Int /\ U \in Int /\ ends \in SUBSET Int
              /\ \A y \in ends : L <= y /\ y <= U
          BY <5>1
        <5>3. both \in Bounds /\ both.min <= u.bounds.min /\ u.bounds.max <= both.max
          <6> HIDE DEF L, U, ends
          <6> QED BY <5>2, <2>5, TouchedHolds
        <5>4. both.min \in Int /\ both.max \in Int /\ u.bounds.min \in Int /\ u.bounds.max \in Int
          BY <5>3, <2>5 DEF Bounds
        <5>5. wide = both
          BY <4>2
        <5> HIDE DEF both, wide
        <5> QED BY <5>3, <5>4, <5>5, <3>2
      <4> QED BY <4>1, <4>2
    <3> HIDE DEF wide, home
    <3>4. c \in x0..xn
      BY <3>1, <3>2, <3>3, <2>4, BoundsAreReset
    <3> QED BY <3>1, <3>4
  <2>8. master' = costmap_'
    <3> HIDE DEF reset, kept
    <3> QED BY <2>3, <2>6, <2>7
  <2> QED BY <2>3, <2>4, <2>5, <2>8
       DEF LayerInv, CostmapIsCurrent, ObstaclesAreCurrent, OriginsAgree, Reported
<1> QED BY <1>0, <1>1

\* For maps, cells, thresholds and radii of every size: however the robot moves and
\* the layer is switched on and off, the costmap shows the obstacles of the last cycle.
THEOREM CostmapCorrect == LayerSpec => []CostmapIsCurrent
<1>1. LayerInit => LayerInv
  <2> SUFFICES ASSUME LayerInit PROVE LayerInv
    OBVIOUS
  <2>1. lastBounds \in Bounds
    BY DEF LayerInit, Everywhere, Bounds
  <2> QED BY <2>1 DEF LayerInit, LayerInv, CostmapIsCurrent, ObstaclesAreCurrent,
           OriginsAgree, Reported
<1> QED BY <1>1, LayerInvStep, PTL DEF LayerSpec, LayerInv

-----------------------------------------------------------------------------
(* The chain of scans.                                                       *)

\* A transform keeps a point on the grid, and so does the product of two.
LEMMA MovedPoint ==
  ASSUME NEW t \in Transform, NEW v \in Int \X Int
  PROVE  ByTransform(t, v) \in Int \X Int
<1>1. /\ t.place[1] \in Int /\ t.place[2] \in Int /\ v[1] \in Int /\ v[2] \in Int
      /\ t.yaw \in 0..3 /\ v = <<v[1], v[2]>>
  BY DEF Transform
<1> DEFINE w == QuarterTurns(v, t.yaw)
<1>2. w[1] \in Int /\ w[2] \in Int
  BY <1>1 DEF QuarterTurns
<1> HIDE DEF w
<1>3. ByTransform(t, v) = <<t.place[1] + w[1], t.place[2] + w[2]>>
  BY DEF ByTransform, Plus, w
<1> QED BY <1>1, <1>2, <1>3

LEMMA Composed ==
  ASSUME NEW t \in Transform, NEW u \in Transform
  PROVE  Compose(t, u) \in Transform /\ Compose(t, u).place = ByTransform(t, u.place)
<1>1. u.place \in Int \X Int /\ t.yaw \in 0..3 /\ u.yaw \in 0..3
  BY DEF Transform
<1>2. (t.yaw + u.yaw) % 4 \in 0..3
  BY <1>1
<1> QED BY <1>1, <1>2, MovedPoint DEF Compose, Transform

\* A point at the place of a transform comes back to the origin.
LEMMA BackAtTheOrigin ==
  ASSUME NEW t \in Transform
  PROVE  ByInverse(t, t.place) = <<0, 0>>
<1>1. t.place[1] \in Int /\ t.place[2] \in Int /\ t.yaw \in 0..3
  BY DEF Transform
<1>2. Minus(t.place, t.place) = <<0, 0>>
  BY <1>1 DEF Minus
<1>3. (4 - t.yaw) % 4 \in 0..3
  BY <1>1
<1>4. \A n \in 0..3 : QuarterTurns(<<0, 0>>, n) = <<0, 0>>
  BY DEF QuarterTurns
<1> QED BY <1>2, <1>3, <1>4 DEF ByInverse

\* What the two messages of a frame have in common.  A frame has one pose, and every
\* message that is still on its way carries its place: a cloud and an odometry that
\* were moved after the transform was known were moved by the same one.
Stamps(S) == \A m \in S : m.stamp \in Int /\ m.stamp < frames

ChainTypes ==
    /\ frames \in Int /\ mount \in Mounts /\ tf_odom_to_lidar_odom_ \in Mounts
    /\ base_frame_to_lidar_initialized_ \in BOOLEAN /\ wall \in Nat
    /\ Stamps(clouds) /\ Stamps(odoms) /\ Stamps(registered_scan) /\ Stamps(lidar_odometry)
    /\ \A c \in clouds : c.at \in Int \X Int
    /\ \A o \in odoms \union lidar_odometry : o.pose \in Transform
    /\ {"place", "time"} \subseteq DOMAIN previous /\ previous.place \in Int \X Int

ChainInv ==
    /\ ChainTypes
    /\ \A c \in clouds, o \in odoms : c.stamp = o.stamp => c.at = o.pose.place
    /\ \A c \in registered_scan : c.known \in BOOLEAN
    /\ \A c \in registered_scan : c.known =>
         /\ base_frame_to_lidar_initialized_
         /\ \A o \in odoms : o.stamp = c.stamp =>
              c.at = ByTransform(tf_odom_to_lidar_odom_, o.pose.place)
         /\ \A o \in lidar_odometry : o.stamp = c.stamp => c.at = o.pose.place
    /\ \A o \in lidar_odometry :
         /\ base_frame_to_lidar_initialized_
         /\ \A c \in clouds : o.stamp = c.stamp =>
              o.pose.place = ByTransform(tf_odom_to_lidar_odom_, c.at)
    /\ ScansReturnToTheLidar
    /\ out.kind = "scan" =>
         /\ previous.time = out.motion.now /\ previous.time \in Nat
         /\ out.motion.position = <<previous.place[2], -previous.place[1]>>

LEMMA FrameInv ==
  ASSUME ChainInv, NEW pose \in Poses, Frame(pose)
  PROVE  ChainInv'
<1> USE DEF ChainInv, ChainTypes
<1>1. pose \in Transform /\ pose.place \in Int \X Int /\ frames' = frames + 1 /\ frames \in Int
  BY ScanChainAssumption DEF Frame, Transform
<1> DEFINE cloud == [stamp |-> frames, at |-> pose.place]
           odom == [stamp |-> frames, pose |-> pose]
<1>2. /\ clouds' = clouds \union {cloud} /\ odoms' = odoms \union {odom}
      /\ UNCHANGED <<loamVars, registered_scan, lidar_odometry, mount, wall, previous, out>>
  BY DEF Frame
<1>3. /\ cloud.stamp = frames /\ cloud.at = pose.place
      /\ odom.stamp = frames /\ odom.pose = pose
  OBVIOUS
<1> HIDE DEF cloud, odom
<1>4. Stamps(clouds)' /\ Stamps(odoms)' /\ Stamps(registered_scan)' /\ Stamps(lidar_odometry)'
  BY <1>1, <1>2, <1>3 DEF Stamps
<1>5. \A m \in clouds \union odoms \union registered_scan \union lidar_odometry :
        m.stamp # frames
  BY <1>1 DEF Stamps
<1>6. \A c \in clouds', o \in odoms' : c.stamp = o.stamp => c.at = o.pose.place
  BY <1>2, <1>3, <1>5
<1>7. \A c \in registered_scan' : c.known =>
         /\ base_frame_to_lidar_initialized_'
         /\ \A o \in odoms' : o.stamp = c.stamp =>
              c.at = ByTransform(tf_odom_to_lidar_odom_', o.pose.place)
         /\ \A o \in lidar_odometry' : o.stamp = c.stamp => c.at = o.pose.place
  BY <1>2, <1>3, <1>5 DEF loamVars
<1>8. \A o \in lidar_odometry' :
         /\ base_frame_to_lidar_initialized_'
         /\ \A c \in clouds' : o.stamp = c.stamp =>
              o.pose.place = ByTransform(tf_odom_to_lidar_odom_', c.at)
  BY <1>2, <1>3, <1>5 DEF loamVars
<1>9. /\ \A c \in clouds' : c.at \in Int \X Int
      /\ \A o \in odoms' \union lidar_odometry' : o.pose \in Transform
  BY <1>1, <1>2, <1>3
<1> QED BY <1>1, <1>2, <1>4, <1>6, <1>7, <1>8, <1>9 DEF loamVars, ScansReturnToTheLidar

LEMMA CloudInv ==
  ASSUME ChainInv, NEW msg \in clouds, pointCloudCallback(msg)
  PROVE  ChainInv'
<1> USE DEF ChainInv, ChainTypes
<1> DEFINE new == [stamp |-> msg.stamp, at |-> ByTransform(tf_odom_to_lidar_odom_, msg.at),
                   known |-> base_frame_to_lidar_initialized_]
<1>1. /\ clouds' = clouds \ {msg} /\ registered_scan' = registered_scan \union {new}
      /\ UNCHANGED <<frames, odoms, loamVars, lidar_odometry, mount, wall, previous, out>>
  BY DEF pointCloudCallback
<1>2. /\ new.stamp = msg.stamp /\ new.at = ByTransform(tf_odom_to_lidar_odom_, msg.at)
      /\ new.known = base_frame_to_lidar_initialized_
  OBVIOUS
<1> HIDE DEF new
<1>4. Stamps(clouds)' /\ Stamps(odoms)' /\ Stamps(registered_scan)' /\ Stamps(lidar_odometry)'
  BY <1>1, <1>2 DEF Stamps
<1>5. base_frame_to_lidar_initialized_ =>
        /\ \A o \in odoms : o.stamp = new.stamp =>
             new.at = ByTransform(tf_odom_to_lidar_odom_, o.pose.place)
        /\ \A o \in lidar_odometry : o.stamp = new.stamp => new.at = o.pose.place
  BY <1>2
<1>6. \A c \in registered_scan' : c.known =>
         /\ base_frame_to_lidar_initialized_'
         /\ \A o \in odoms' : o.stamp = c.stamp =>
              c.at = ByTransform(tf_odom_to_lidar_odom_', o.pose.place)
         /\ \A o \in lidar_odometry' : o.stamp = c.stamp => c.at = o.pose.place
  BY <1>1, <1>2, <1>5 DEF loamVars
<1>7. \A c \in registered_scan' : c.known \in BOOLEAN
  BY <1>1, <1>2
<1>8. \A o \in lidar_odometry' :
         /\ base_frame_to_lidar_initialized_'
         /\ \A c \in clouds' : o.stamp = c.stamp =>
              o.pose.place = ByTransform(tf_odom_to_lidar_odom_', c.at)
  BY <1>1 DEF loamVars
<1> QED BY <1>1, <1>4, <1>6, <1>7, <1>8 DEF loamVars, ScansReturnToTheLidar

LEMMA OdometryInv ==
  ASSUME ChainInv, NEW msg \in odoms, NEW found \in BOOLEAN, loamOdometryCallback(msg, found)
  PROVE  ChainInv'
<1> USE DEF ChainInv, ChainTypes
<1>1. /\ odoms' = odoms \ {msg}
      /\ UNCHANGED <<frames, clouds, registered_scan, mount, wall, previous, out>>
  BY DEF loamOdometryCallback
<1>2. CASE UNCHANGED <<loamVars, lidar_odometry>>
  <2>1. Stamps(clouds)' /\ Stamps(odoms)' /\ Stamps(registered_scan)' /\ Stamps(lidar_odometry)'
    BY <1>1, <1>2 DEF Stamps
  <2> QED BY <1>1, <1>2, <2>1 DEF loamVars, ScansReturnToTheLidar
<1>3. CASE base_frame_to_lidar_initialized_ \/ found
  <2> DEFINE tf == tf_odom_to_lidar_odom_'
             new == [stamp |-> msg.stamp, pose |-> Compose(tf, msg.pose)]
  <2>1. /\ tf = MountUsed(found)
        /\ base_frame_to_lidar_initialized_' = TRUE
        /\ lidar_odometry' = lidar_odometry \union {new}
    BY <1>3 DEF loamOdometryCallback
  <2>3. /\ tf \in Mounts /\ tf \in Transform
        /\ base_frame_to_lidar_initialized_ => tf = tf_odom_to_lidar_odom_
    BY <2>1, ScanChainAssumption DEF MountUsed
  <2>2. /\ new.stamp = msg.stamp /\ new.pose \in Transform
        /\ new.pose.place = ByTransform(tf, msg.pose.place)
    BY <2>3, Composed
  <2> HIDE DEF new, tf
  <2>5. Stamps(clouds)' /\ Stamps(odoms)' /\ Stamps(registered_scan)' /\ Stamps(lidar_odometry)'
    BY <1>1, <2>1, <2>2 DEF Stamps
  <2>6. ASSUME NEW c \in registered_scan', c.known
        PROVE  /\ base_frame_to_lidar_initialized_'
               /\ \A o \in odoms' : o.stamp = c.stamp => c.at = ByTransform(tf, o.pose.place)
               /\ \A o \in lidar_odometry' : o.stamp = c.stamp => c.at = o.pose.place
    <3>1. c \in registered_scan /\ tf = tf_odom_to_lidar_odom_
      BY <1>1, <2>3, <2>6
    <3>2. /\ \A o \in odoms : o.stamp = c.stamp => c.at = ByTransform(tf, o.pose.place)
          /\ \A o \in lidar_odometry : o.stamp = c.stamp => c.at = o.pose.place
      BY <3>1, <2>6
    <3> QED BY <1>1, <2>1, <2>2, <3>1, <3>2
  <2>7. ASSUME NEW o \in lidar_odometry'
        PROVE  \A c \in clouds' : o.stamp = c.stamp => o.pose.place = ByTransform(tf, c.at)
    <3>1. CASE o \in lidar_odometry
      BY <1>1, <2>3, <3>1
    <3>2. CASE o = new
      BY <1>1, <2>2, <3>2
    <3> QED BY <2>1, <3>1, <3>2
  <2>8. \A o \in odoms' \union lidar_odometry' : o.pose \in Transform
    BY <1>1, <2>1, <2>2
  <2> QED BY <1>1, <2>1, <2>3, <2>5, <2>6, <2>7, <2>8 DEF ScansReturnToTheLidar, tf
<1> QED BY <1>2, <1>3 DEF loamOdometryCallback

\* The handler publishes what the invariant says of the pair it is given.
LEMMA HandlerInv ==
  ASSUME ChainInv, NEW odom \in lidar_odometry, NEW cloud \in registered_scan,
         NEW toBase \in RobotBases, NEW found \in BOOLEAN,
         laserCloudAndOdometryHandler(odom, cloud, toBase, found)
  PROVE  ChainInv' /\ VelocityIsOfTheMotion
<1> USE DEF ChainInv, ChainTypes
<1>1. /\ lidar_odometry' \subseteq lidar_odometry /\ registered_scan' \subseteq registered_scan
      /\ UNCHANGED <<chainIn, loamVars, mount>> /\ wall' = wall + 1 /\ wall' \in Nat
  BY DEF laserCloudAndOdometryHandler, NewerThan
<1>2. Stamps(clouds)' /\ Stamps(odoms)' /\ Stamps(registered_scan)' /\ Stamps(lidar_odometry)'
  BY <1>1 DEF Stamps, chainIn
<1>3. /\ odom.pose \in Transform
      /\ cloud.known /\ odom.stamp = cloud.stamp => cloud.at = odom.pose.place
  OBVIOUS
<1>4. /\ frames' \in Int /\ mount' \in Mounts /\ tf_odom_to_lidar_odom_' \in Mounts
      /\ base_frame_to_lidar_initialized_' \in BOOLEAN
      /\ \A c \in clouds' : c.at \in Int \X Int
      /\ \A o \in odoms' \union lidar_odometry' : o.pose \in Transform
      /\ \A c \in clouds', o \in odoms' : c.stamp = o.stamp => c.at = o.pose.place
      /\ \A c \in registered_scan' : c.known \in BOOLEAN
  BY <1>1 DEF chainIn, loamVars
<1>5. /\ \A c \in registered_scan' : c.known =>
           /\ base_frame_to_lidar_initialized_'
           /\ \A o \in odoms' : o.stamp = c.stamp =>
                c.at = ByTransform(tf_odom_to_lidar_odom_', o.pose.place)
           /\ \A o \in lidar_odometry' : o.stamp = c.stamp => c.at = o.pose.place
      /\ \A o \in lidar_odometry' :
           /\ base_frame_to_lidar_initialized_'
           /\ \A c \in clouds' : o.stamp = c.stamp =>
                o.pose.place = ByTransform(tf_odom_to_lidar_odom_', c.at)
  BY <1>1 DEF chainIn, loamVars
<1>6. CASE ~found
  <2>1. UNCHANGED <<previous, out>>
    BY <1>6 DEF laserCloudAndOdometryHandler
  <2> QED BY <1>1, <1>2, <1>4, <1>5, <2>1 DEF ScansReturnToTheLidar, VelocityIsOfTheMotion
<1>7. CASE found
  <2> DEFINE base == Compose(odom.pose, toBase).place
             back == ByInverse(odom.pose, cloud.at)
  <2>0. base \in Int \X Int /\ base[1] \in Int /\ base[2] \in Int
    <3>1. toBase \in Transform
      BY ScanChainAssumption
    <3> QED BY <3>1, <1>3, Composed DEF Transform
  <2>1. /\ previous' = [place |-> base, time |-> wall']
        /\ out' = [kind |-> "scan", at |-> back,
                   same |-> odom.stamp = cloud.stamp, known |-> cloud.known,
                   motion |-> Published(base)]
    BY <1>7 DEF laserCloudAndOdometryHandler
  <2> HIDE DEF base, back
  <2>2. /\ out'.at = back /\ out'.motion = Published(base) /\ out'.kind = "scan"
        /\ out'.same = (odom.stamp = cloud.stamp) /\ out'.known = cloud.known
    BY <2>1
  <2>3. /\ out'.motion.position = <<base[2], -base[1]>> /\ out'.motion.now = wall'
        /\ out'.motion.moved = Minus(base, previous.place)
        /\ previous.time # NoTime => out'.motion.over = wall' - previous.time
    BY <2>2 DEF Published
  <2>4. ScansReturnToTheLidar'
    <3>1. SUFFICES ASSUME out'.same, out'.known PROVE back = <<0, 0>>
      BY <2>2 DEF ScansReturnToTheLidar
    <3>2. odom.stamp = cloud.stamp /\ cloud.known
      BY <2>2, <3>1, Zenon
    <3> QED BY <1>3, <3>2, BackAtTheOrigin DEF back
  <2>5. VelocityIsOfTheMotion
    <3> SUFFICES ASSUME out.kind = "scan"
                 PROVE  /\ Minus(out'.motion.position, out.motion.position)
                             = QuarterTurns(out'.motion.moved, 3)
                        /\ out'.motion.over = out'.motion.now - out.motion.now
      BY DEF VelocityIsOfTheMotion
    <3> DEFINE p == previous.place
    <3>1. p[1] \in Int /\ p[2] \in Int /\ out.motion.position = <<p[2], -p[1]>>
      OBVIOUS
    <3>2. previous.time = out.motion.now /\ previous.time # NoTime
      BY DEF NoTime
    <3> HIDE DEF p
    <3>3. Minus(out'.motion.position, out.motion.position) = <<base[2] - p[2], (-base[1]) - (-p[1])>>
      BY <2>3, <3>1 DEF Minus
    <3>4. QuarterTurns(out'.motion.moved, 3) = <<base[2] - p[2], -(base[1] - p[1])>>
      BY <2>3 DEF QuarterTurns, Minus, p
    <3>5. (-base[1]) - (-p[1]) = -(base[1] - p[1])
      BY <2>0, <3>1
    <3> QED BY <2>3, <3>2, <3>3, <3>4, <3>5
  <2>6. DOMAIN previous' = {"place", "time"} /\ previous'.place = base /\ previous'.time = wall'
    BY <2>1
  <2>7. /\ previous'.time = out'.motion.now /\ previous'.time \in Nat
        /\ out'.motion.position = <<previous'.place[2], -previous'.place[1]>>
    BY <1>1, <2>3, <2>6
  <2>8. {"place", "time"} \subseteq DOMAIN previous' /\ previous'.place \in Int \X Int
    BY <2>0, <2>6
  <2>9. ChainInv'
    BY <1>1, <1>2, <1>4, <1>5, <2>4, <2>7, <2>8
  <2> QED BY <2>5, <2>9
<1> QED BY <1>6, <1>7

\* For every sequence of poses, turns of the gimbal, losses and overtakings: the cloud
\* comes back to where the lidar saw it, and the velocity is that of the published
\* positions, which are turned by a quarter turn against it.
THEOREM ChainCorrect == ChainSpec => ChainKeepsThePose
<1>1. ChainInit => ChainInv
  <2> SUFFICES ASSUME ChainInit PROVE ChainInv
    OBVIOUS
  <2>1. /\ clouds = {} /\ odoms = {} /\ registered_scan = {} /\ lidar_odometry = {}
        /\ frames = 0 /\ mount \in Mounts /\ tf_odom_to_lidar_odom_ \in Mounts
        /\ base_frame_to_lidar_initialized_ = FALSE /\ wall = 0
    BY DEF ChainInit, LoamInit
  <2>2. out.kind = "none" /\ DOMAIN previous = {"place", "time"} /\ previous.place = <<0, 0>>
    BY DEF ChainInit, NoOutput
  <2>3. {"place", "time"} \subseteq DOMAIN previous /\ previous.place \in Int \X Int
    BY <2>2
  <2>4. /\ Stamps(clouds) /\ Stamps(odoms) /\ Stamps(registered_scan) /\ Stamps(lidar_odometry)
        /\ ScansReturnToTheLidar
    BY <2>1, <2>2 DEF Stamps, ScansReturnToTheLidar
  <2>5. base_frame_to_lidar_initialized_ \in BOOLEAN
    BY <2>1, Zenon
  <2>7. frames \in Int /\ out.kind # "scan" /\ wall \in Nat
    BY <2>1, <2>2
  <2>6. /\ \A c \in registered_scan \union clouds : FALSE
        /\ \A o \in lidar_odometry \union odoms : FALSE
    BY <2>1
  <2>8. /\ \A c \in registered_scan : FALSE
        /\ \A c \in clouds : FALSE
        /\ \A o \in lidar_odometry : FALSE
        /\ \A o \in odoms : FALSE
    BY <2>6
  <2> QED BY <2>1, <2>3, <2>4, <2>5, <2>6, <2>7, <2>8, Zenon DEF ChainInv, ChainTypes
<1>2. ChainInv /\ [ChainNext]_chainVars =>
        ChainInv' /\ [ScansReturnToTheLidar' /\ VelocityIsOfTheMotion]_chainVars
  <2> SUFFICES ASSUME ChainInv, [ChainNext]_chainVars
               PROVE  ChainInv' /\ (VelocityIsOfTheMotion \/ UNCHANGED chainVars)
    BY DEF ChainInv
  <2>1. CASE UNCHANGED chainVars
    BY <2>1 DEF chainVars, chainIn, loamVars, ChainInv, ChainTypes, Stamps, ScansReturnToTheLidar
  <2>2. CASE \E pose \in Poses : Frame(pose)
    BY <2>2, FrameInv DEF Frame, VelocityIsOfTheMotion
  <2>3. CASE GimbalTurns
    BY <2>3 DEF GimbalTurns, chainIn, loamVars, ChainInv, ChainTypes, Stamps,
       ScansReturnToTheLidar, VelocityIsOfTheMotion
  <2>4. CASE \E msg \in clouds : pointCloudCallback(msg)
    BY <2>4, CloudInv DEF pointCloudCallback, VelocityIsOfTheMotion
  <2>5. CASE \E msg \in odoms, found \in BOOLEAN : loamOdometryCallback(msg, found)
    BY <2>5, OdometryInv DEF loamOdometryCallback, VelocityIsOfTheMotion
  <2>6. CASE \E odom \in lidar_odometry, cloud \in registered_scan :
               \E toBase \in RobotBases, found \in BOOLEAN :
                 laserCloudAndOdometryHandler(odom, cloud, toBase, found)
    BY <2>6, HandlerInv
  <2> QED BY <2>1, <2>2, <2>3, <2>4, <2>5, <2>6 DEF ChainNext
<1> QED BY <1>1, <1>2, PTL DEF ChainSpec, ChainKeepsThePose

-----------------------------------------------------------------------------
(* The passes over the planar voxels: the no-data rings.                     *)

\* The index of a voxel in the array stands for that voxel only.
LEMMA IndexIsUnique ==
  ASSUME NEW v \in Voxels, NEW w \in Voxels, VoxelIndex(v) = VoxelIndex(w)
  PROVE  v = w
<1> DEFINE r == blockWidth
           a == v[1]
           b == w[1]
           c == v[2]
           d == w[2]
<1>1. /\ r \in Nat \ {0} /\ a \in Int /\ b \in Int /\ v = <<a, c>> /\ w = <<b, d>>
      /\ c \in 0..(r - 1) /\ d \in 0..(r - 1)
  BY BlockAssumption DEF Voxels, Axis
<1>2. r * a + c = r * b + d
  BY DEF VoxelIndex
<1> HIDE DEF a, b, c, d, r
<1>3. r * a < r * b + r /\ r * b < r * a + r
  <2> DEFINE p == r * a
             q == r * b
  <2>1. p \in Int /\ q \in Int /\ p + c = q + d
    BY <1>1, <1>2
  <2> HIDE DEF p, q
  <2>2. p < q + r /\ q < p + r
    BY <2>1, <1>1
  <2> QED BY <2>2 DEF p, q
<1>4. a <= b /\ b <= a
  BY <1>1, <1>3, QuotientsAreOrdered
<1>5. a = b
  BY <1>1, <1>4
<1>6. c = d
  <2> DEFINE p == r * a
  <2>1. p \in Int /\ p + c = p + d
    BY <1>1, <1>2, <1>5
  <2> HIDE DEF p
  <2> QED BY <2>1, <1>1
<1> QED BY <1>1, <1>5, <1>6

LEMMA IndexInArray ==
  ASSUME NEW v \in Voxels
  PROVE  VoxelIndex(v) \in 0..(PlanarVoxelNum - 1)
<1> DEFINE r == blockWidth
           a == v[1]
           c == v[2]
<1>1. r \in Nat \ {0} /\ a \in 0..(r - 1) /\ c \in 0..(r - 1)
  BY BlockAssumption DEF Voxels, Axis
<1>2. VoxelIndex(v) = r * a + c /\ PlanarVoxelNum = r * r
  BY DEF VoxelIndex, PlanarVoxelNum
<1> HIDE DEF a, c, r
<1>3. r * a \in Nat /\ r * (r - 1 - a) \in Nat /\ r * r \in Nat
  BY <1>1
<1>4. r * (r - 1 - a) = r * r - r - r * a
  BY <1>1
<1> DEFINE p == r * a
           q == r * r
           d == r * (r - 1 - a)
<1>5. p \in Nat /\ q \in Nat /\ d \in Nat /\ d = q - r - p
  BY <1>3, <1>4
<1> HIDE DEF p, q, d
<1>6. p + c \in 0..(q - 1)
  BY <1>1, <1>5
<1> QED BY <1>2, <1>6 DEF p, q

LEMMA VoxelOfIndex ==
  ASSUME NEW i \in 0..(PlanarVoxelNum - 1)
  PROVE  VoxelAt(i) \in Voxels /\ VoxelIndex(VoxelAt(i)) = i
<1> DEFINE r == blockWidth
           a == i \div r
           c == i % r
<1>1. r \in Nat \ {0} /\ i \in Nat /\ r * r \in Nat /\ i < r * r
  BY BlockAssumption DEF PlanarVoxelNum
<1>2. a \in Int /\ r * a <= i /\ i < r * a + r /\ c = i - r * a /\ c \in 0..(r - 1)
  BY <1>1, DivisionBounds
<1>e. i = r * a + c
  <2> DEFINE p == r * a
  <2>1. p \in Int /\ c \in Int /\ c = i - p
    BY <1>1, <1>2
  <2> HIDE DEF p, c
  <2>2. i = p + c
    BY <2>1, <1>1
  <2> QED BY <2>2 DEF p
<1> HIDE DEF a, c, r
<1>3. a <= r - 1
  <2> DEFINE p == r * a
             q == r * r
             m == r * (r - 1)
  <2>1. p \in Int /\ q \in Nat /\ m \in Int /\ m = q - r
    BY <1>1, <1>2
  <2>2. p < m + r
    <3>1. p <= i /\ i < q
      BY <1>1, <1>2
    <3> HIDE DEF p, q, m
    <3> QED BY <2>1, <3>1, <1>1
  <2>3. r * a < r * (r - 1) + r
    BY <2>2
  <2> QED BY <2>3, <1>1, <1>2, QuotientsAreOrdered
<1>4. 0 <= a
  <2> DEFINE p == r * a
             m == r * (-1)
  <2>1. r * 0 < p + r
    BY <1>1, <1>2
  <2> QED BY <2>1, <1>1, <1>2, QuotientsAreOrdered
<1>5. a \in 0..(r - 1)
  BY <1>1, <1>2, <1>3, <1>4
<1>6. VoxelAt(i) = <<a, c>>
  BY DEF VoxelAt, a, c, r
<1> QED BY <1>2, <1>e, <1>5, <1>6 DEF Voxels, Axis, VoxelIndex, r

-----------------------------------------------------------------------------
(* The order of the array.                                                   *)

LEMMA VoxelSetsAreFinite ==
  ASSUME NEW S \in SUBSET Voxels
  PROVE  IsFiniteSet(S)
<1>1. IsFiniteSet(Axis)
  BY FS_Interval, BlockAssumption DEF Axis
<1>2. IsFiniteSet(Voxels)
  BY <1>1, FS_Product DEF Voxels
<1> QED BY <1>2, FS_Subset

\* InArrayOrder lists the voxels of a set, each of them and no other.
LEMMA ArrayOrderLists ==
  ASSUME NEW S \in SUBSET Voxels
  PROVE  /\ InArrayOrder(S) \in Seq(S)
         /\ \A w \in S : \E k \in DOMAIN InArrayOrder(S) : InArrayOrder(S)[k] = w
<1> DEFINE n == Cardinality(S)
           below(w) == {v \in S : VoxelIndex(v) < VoxelIndex(w)}
           rank(w) == Cardinality(below(w))
<1>1. IsFiniteSet(S) /\ n \in Nat
  BY VoxelSetsAreFinite, FS_CardinalityType
<1>2. ASSUME NEW w \in S PROVE rank(w) \in 0..(n - 1) /\ rank(w) \in Nat
  <2>1. below(w) \in SUBSET (S \ {w})
    <3>1. VoxelIndex(w) \in Int
      BY IndexInArray
    <3> QED BY <3>1
  <2>2. IsFiniteSet(S \ {w}) /\ Cardinality(S \ {w}) = n - 1
    BY <1>1, FS_RemoveElement
  <2>3. IsFiniteSet(below(w)) /\ rank(w) <= n - 1
    BY <2>1, <2>2, FS_Subset
  <2>4. rank(w) \in Nat
    BY <2>3, FS_CardinalityType
  <2> QED BY <2>3, <2>4, <1>1
<1>3. ASSUME NEW v \in S, NEW w \in S, VoxelIndex(v) < VoxelIndex(w) PROVE rank(v) < rank(w)
  <2>1. VoxelIndex(v) \in Int /\ VoxelIndex(w) \in Int
    BY IndexInArray
  <2>2. \A u \in S : VoxelIndex(u) \in Int
    BY IndexInArray
  <2>3. below(v) \in SUBSET below(w) /\ v \in below(w) /\ v \notin below(v)
    BY <1>3, <2>1, <2>2
  <2>4. IsFiniteSet(below(w))
    BY VoxelSetsAreFinite
  <2>5. rank(v) <= rank(w) /\ rank(v) # rank(w)
    BY <2>3, <2>4, FS_Subset
  <2> QED BY <2>5, <1>2
<1> HIDE DEF rank, n
<1>4. ASSUME NEW v \in S, NEW w \in S, rank(v) = rank(w) PROVE v = w
  <2>1. VoxelIndex(v) \in Int /\ VoxelIndex(w) \in Int /\ rank(v) \in Nat /\ rank(w) \in Nat
    BY IndexInArray, <1>2
  <2>2. ~(VoxelIndex(v) < VoxelIndex(w)) /\ ~(VoxelIndex(w) < VoxelIndex(v))
    BY <1>3, <1>4, <2>1
  <2> QED BY <2>1, <2>2, IndexIsUnique
<1>5. ASSUME NEW k \in 1..n PROVE \E w \in S : rank(w) = k - 1
  <2> DEFINE f == [w \in S |-> rank(w)]
             T == 0..(n - 1)
  <2>1. f \in Injection(S, T)
    BY <1>2, <1>4 DEF Injection, IsInjective
  <2>2. IsFiniteSet(T) /\ Cardinality(T) = n
    BY <1>1, FS_Interval
  <2>3. f \in Surjection(S, T)
    BY <2>1, <2>2, FS_Injection DEF n
  <2>4. k - 1 \in T
    BY <1>1
  <2> QED BY <2>3, <2>4 DEF Surjection
<1> DEFINE s == InArrayOrder(S)
<1>6. s = [k \in 1..n |-> CHOOSE w \in S : rank(w) = k - 1]
  BY DEF InArrayOrder, n, rank
<1>7. ASSUME NEW k \in 1..n PROVE s[k] \in S /\ rank(s[k]) = k - 1
  BY <1>5, <1>6
<1> HIDE DEF s
<1>8. s \in Seq(S)
  <2>1. s \in [1..n -> S]
    BY <1>6, <1>7
  <2> QED BY <2>1, <1>1, SeqDef
<1>9. ASSUME NEW w \in S PROVE \E k \in DOMAIN s : s[k] = w
  <2> DEFINE k == rank(w) + 1
  <2>1. k \in 1..n /\ k - 1 = rank(w)
    BY <1>1, <1>2
  <2>2. s[k] \in S /\ rank(s[k]) = rank(w)
    BY <2>1, <1>7
  <2>3. s[k] = w
    BY <2>2, <1>4
  <2> QED BY <2>1, <2>3, <1>6
<1> QED BY <1>8, <1>9 DEF s

-----------------------------------------------------------------------------
(* The rings of the no-data obstacles.                                       *)

Far(v, r) == ~\E w \in withData : Within(v, w, r)

\* How deep the edge of a voxel has been counted: one more than the rounds that
\* have come to it.
Depth(v) == noDataBlockSkipCount + 1 + (IF VoxelIndex(v) < nextVoxel THEN 1 ELSE 0)

EdgeIsDepth(v) ==
    /\ planarVoxelEdge[v] \in Nat /\ planarVoxelEdge[v] <= Depth(v)
    /\ \A d \in 1..Depth(v) : (planarVoxelEdge[v] >= d) <=> Far(v, d - 1)

RingInv ==
    /\ withData \subseteq Voxels
    /\ noDataBlockSkipCount \in Nat /\ nextVoxel \in 0..(PlanarVoxelNum - 1)
    /\ pass = "nodata" =>
         planarVoxelEdge \in [Voxels -> Nat] /\ \A v \in Voxels : EdgeIsDepth(v)

\* Between a voxel and one that is r away lies a neighbour that is r - 1 away.
LEMMA Towards ==
  ASSUME NEW v \in Voxels, NEW u \in Voxels, NEW r \in Nat, r >= 1, Within(v, u, r)
  PROVE  \E w \in Voxels : Within(v, w, 1) /\ Within(w, u, r - 1)
<1> DEFINE c(a, b) == IF a < b THEN a + 1 ELSE IF b < a THEN a - 1 ELSE a
<1>1. ASSUME NEW a \in Axis, NEW b \in Axis, Gap(a, b) <= r
      PROVE  c(a, b) \in Axis /\ Gap(a, c(a, b)) <= 1 /\ Gap(c(a, b), b) <= r - 1
  BY <1>1, BlockAssumption DEF Axis, Gap
<1> DEFINE w == <<c(v[1], u[1]), c(v[2], u[2])>>
<1>2. /\ v[1] \in Axis /\ v[2] \in Axis /\ u[1] \in Axis /\ u[2] \in Axis
      /\ Gap(v[1], u[1]) <= r /\ Gap(v[2], u[2]) <= r
  BY DEF Voxels, Within
<1>3. w[1] = c(v[1], u[1]) /\ w[2] = c(v[2], u[2])
  OBVIOUS
<1> HIDE DEF c
<1>4. w \in Voxels
  BY <1>1, <1>2 DEF Voxels
<1> HIDE DEF w
<1>5. Within(v, w, 1) /\ Within(w, u, r - 1)
  BY <1>1, <1>2, <1>3 DEF Within
<1> QED BY <1>4, <1>5

LEMMA Further ==
  ASSUME NEW v \in Voxels, NEW w \in Voxels, NEW u \in Voxels, NEW r \in Nat,
         Within(v, w, 1), Within(w, u, r)
  PROVE  Within(v, u, r + 1)
<1>1. /\ v[1] \in Int /\ v[2] \in Int /\ w[1] \in Int /\ w[2] \in Int
      /\ u[1] \in Int /\ u[2] \in Int
  BY BlockAssumption DEF Voxels, Axis
<1> QED BY <1>1 DEF Within, Gap

LEMMA Wider ==
  ASSUME NEW v \in Voxels, NEW u \in Voxels, NEW r \in Nat, NEW q \in Nat, r <= q,
         Within(v, u, r)
  PROVE  Within(v, u, q)
<1>1. v[1] \in Int /\ v[2] \in Int /\ u[1] \in Int /\ u[2] \in Int
  BY BlockAssumption DEF Voxels, Axis
<1> QED BY <1>1 DEF Within, Gap

\* A voxel whose edge has been counted up to k comes to k + 1 exactly if no data is
\* within k of it, whether its neighbours have been counted in this round or not.
LEMMA EdgeStepCounts ==
  ASSUME RingInv, pass = "nodata", NEW v \in Voxels, VoxelIndex(v) = nextVoxel,
         NEW edge, edge = EdgeStep(planarVoxelEdge, v)
  PROVE  /\ edge \in [Voxels -> Nat]
         /\ \A w \in Voxels : w # v => edge[w] = planarVoxelEdge[w]
         /\ edge[v] <= Depth(v) + 1
         /\ \A d \in 1..(Depth(v) + 1) : (edge[v] >= d) <=> Far(v, d - 1)
<1> DEFINE D == noDataBlockSkipCount + 1
           e == planarVoxelEdge[v]
           deep == \A w \in Voxels : Within(v, w, 1) => planarVoxelEdge[w] >= e
<1>1. /\ planarVoxelEdge \in [Voxels -> Nat] /\ D \in Nat \ {0} /\ nextVoxel \in Int
      /\ withData \subseteq Voxels /\ e \in Nat
  BY DEF RingInv
<1>2. Depth(v) = D
  BY <1>1 DEF Depth
<1>3. e <= D /\ \A d \in 1..D : (e >= d) <=> Far(v, d - 1)
  BY <1>2 DEF RingInv, EdgeIsDepth
<1>4. \A w \in Voxels, d \in 1..D : (planarVoxelEdge[w] >= d) <=> Far(w, d - 1)
  <2> SUFFICES ASSUME NEW w \in Voxels, NEW d \in 1..D
               PROVE  (planarVoxelEdge[w] >= d) <=> Far(w, d - 1)
    OBVIOUS
  <2>1. VoxelIndex(w) \in Int
    BY IndexInArray
  <2>2. d \in 1..Depth(w)
    BY <1>1, <2>1 DEF Depth
  <2> QED BY <2>2 DEF RingInv, EdgeIsDepth
<1> HIDE DEF D, e
\* A voxel that is not as far as its count of rounds has a neighbour with less.
<1>5. ASSUME NEW r \in 1..D, NEW u \in withData, Within(v, u, r)
      PROVE  \E w \in Voxels : Within(v, w, 1) /\ ~(planarVoxelEdge[w] >= r)
  <2>1. PICK w \in Voxels : Within(v, w, 1) /\ Within(w, u, r - 1)
    BY <1>1, <1>5, Towards
  <2>2. ~Far(w, r - 1)
    BY <2>1 DEF Far
  <2> QED BY <2>1, <2>2, <1>4
<1>6. CASE e >= 1 /\ deep
  <2>1. edge = [planarVoxelEdge EXCEPT ![v] = @ + 1]
    BY <1>6 DEF EdgeStep, e
  <2>2. edge \in [Voxels -> Nat] /\ edge[v] = e + 1 /\ \A w \in Voxels : w # v => edge[w] = planarVoxelEdge[w]
    BY <2>1, <1>1 DEF e
  <2>3. e = D
    <3> SUFFICES ASSUME e < D PROVE FALSE
      BY <1>1, <1>3
    <3>1. e + 1 \in 1..D /\ ~(e >= e + 1)
      BY <1>1
    <3>2. ~Far(v, (e + 1) - 1)
      BY <3>1, <1>3
    <3>3. PICK u \in withData : Within(v, u, (e + 1) - 1)
      BY <3>2 DEF Far
    <3>4. (e + 1) - 1 = e /\ e \in 1..D
      BY <1>1, <1>6
    <3>5. \E w \in Voxels : Within(v, w, 1) /\ ~(planarVoxelEdge[w] >= e)
      BY <3>3, <3>4, <1>5
    <3> QED BY <3>5, <1>6
  <2>4. Far(v, D)
    <3> SUFFICES ASSUME NEW u \in withData, Within(v, u, D) PROVE FALSE
      BY DEF Far
    <3>1. D \in 1..D
      BY <1>1
    <3>2. \E w \in Voxels : Within(v, w, 1) /\ ~(planarVoxelEdge[w] >= D)
      BY <3>1, <1>5
    <3> QED BY <3>2, <2>3, <1>6
  <2>5. ASSUME NEW d \in 1..(D + 1) PROVE (edge[v] >= d) <=> Far(v, d - 1)
    <3>1. CASE d \in 1..D
      BY <3>1, <1>1, <1>3, <2>2, <2>3
    <3>2. CASE d = D + 1
      <4>1. edge[v] >= d /\ d - 1 = D
        BY <3>2, <1>1, <2>2, <2>3
      <4> QED BY <4>1, <2>4
    <3> QED BY <3>1, <3>2, <1>1
  <2> QED BY <2>2, <2>3, <2>5, <1>1, <1>2
<1>7. CASE ~(e >= 1 /\ deep)
  <2>1. edge = planarVoxelEdge /\ edge[v] = e
    BY <1>7 DEF EdgeStep, e
  <2>2. ~Far(v, D)
    <3>1. CASE e >= 1
      <4>1. PICK w \in Voxels : Within(v, w, 1) /\ ~(planarVoxelEdge[w] >= e)
        BY <3>1, <1>7
      <4>2. e \in 1..D
        BY <3>1, <1>1, <1>3
      <4>3. ~Far(w, e - 1)
        BY <4>1, <4>2, <1>4
      <4>4. PICK u \in withData : Within(w, u, e - 1)
        BY <4>3 DEF Far
      <4>5. e - 1 \in Nat /\ (e - 1) + 1 = e /\ u \in Voxels /\ e <= D /\ D \in Nat
        BY <4>2, <4>4, <1>1
      <4>6. Within(v, u, e)
        BY <4>1, <4>4, <4>5, Further
      <4>7. Within(v, u, D)
        BY <4>5, <4>6, <1>1, Wider
      <4> QED BY <4>7 DEF Far
    <3>2. CASE ~(e >= 1)
      <4>1. 1 \in 1..D
        BY <1>1
      <4>2. ~Far(v, 1 - 1)
        BY <4>1, <3>2, <1>3
      <4>3. PICK u \in withData : Within(v, u, 0)
        BY <4>2 DEF Far
      <4>4. Within(v, u, D)
        BY <4>3, <1>1, Wider
      <4> QED BY <4>4 DEF Far
    <3> QED BY <3>1, <3>2
  <2>3. ASSUME NEW d \in 1..(D + 1) PROVE (edge[v] >= d) <=> Far(v, d - 1)
    <3>1. CASE d \in 1..D
      BY <3>1, <1>3, <2>1
    <3>2. CASE d = D + 1
      <4>1. ~(edge[v] >= d) /\ d - 1 = D
        BY <3>2, <1>1, <1>3, <2>1
      <4> QED BY <4>1, <2>2
    <3> QED BY <3>1, <3>2, <1>1
  <2> QED BY <2>1, <2>3, <1>1, <1>2, <1>3
<1> QED BY <1>6, <1>7

LEMMA RingInvStep == RingInv /\ [BlockNext]_blockVars => RingInv'
<1> SUFFICES ASSUME RingInv, [BlockNext]_blockVars PROVE RingInv'
  OBVIOUS
<1>1. CASE SkipRound
  <2> DEFINE v == VoxelAt(nextVoxel)
  <2>1. /\ pass = "nodata" /\ planarVoxelEdge' = EdgeStep(planarVoxelEdge, v)
        /\ UNCHANGED <<pass, withData>>
        /\ IF nextVoxel = PlanarVoxelNum - 1
           THEN nextVoxel' = 0 /\ noDataBlockSkipCount' = noDataBlockSkipCount + 1
           ELSE nextVoxel' = nextVoxel + 1 /\ noDataBlockSkipCount' = noDataBlockSkipCount
    BY <1>1 DEF SkipRound
  <2>2. v \in Voxels /\ VoxelIndex(v) = nextVoxel
    BY VoxelOfIndex DEF RingInv
  <2> HIDE DEF v
  <2>3. /\ planarVoxelEdge' \in [Voxels -> Nat]
        /\ \A w \in Voxels : w # v => planarVoxelEdge'[w] = planarVoxelEdge[w]
        /\ planarVoxelEdge'[v] <= Depth(v) + 1
        /\ \A d \in 1..(Depth(v) + 1) : (planarVoxelEdge'[v] >= d) <=> Far(v, d - 1)
    BY <2>1, <2>2, EdgeStepCounts
  <2>4. nextVoxel \in Nat /\ PlanarVoxelNum \in Nat \ {0} /\ nextVoxel <= PlanarVoxelNum - 1
        /\ noDataBlockSkipCount \in Nat
    <3>1. PlanarVoxelNum \in Nat
      BY BlockAssumption DEF PlanarVoxelNum
    <3> QED BY <3>1 DEF RingInv
  <2>5. nextVoxel' \in 0..(PlanarVoxelNum - 1) /\ noDataBlockSkipCount' \in Nat
    BY <2>1, <2>4
  <2>6. ASSUME NEW w \in Voxels
        PROVE  Depth(w)' = IF w = v THEN Depth(v) + 1 ELSE Depth(w)
    <3>1. VoxelIndex(w) \in Int /\ VoxelIndex(w) >= 0 /\ VoxelIndex(w) <= PlanarVoxelNum - 1
      BY <2>4, IndexInArray
    <3>2. w # v => VoxelIndex(w) # nextVoxel
      BY <2>2, IndexIsUnique
    <3>3. Depth(w)' = noDataBlockSkipCount' + 1 + (IF VoxelIndex(w) < nextVoxel' THEN 1 ELSE 0)
      BY DEF Depth
    <3> QED BY <2>1, <2>2, <2>4, <3>1, <3>2, <3>3 DEF Depth
  <2>7. \A w \in Voxels : \A r : Far(w, r)' = Far(w, r)
    BY <2>1 DEF Far
  <2>8. ASSUME NEW w \in Voxels PROVE EdgeIsDepth(w)'
    <3>1. CASE w = v
      BY <3>1, <2>3, <2>6, <2>7 DEF EdgeIsDepth
    <3>2. CASE w # v
      BY <3>2, <2>1, <2>3, <2>6, <2>7 DEF EdgeIsDepth, RingInv
    <3> QED BY <3>1, <3>2
  <2> QED BY <2>1, <2>3, <2>5, <2>8 DEF RingInv
<1>2. CASE SearchStep \/ UNCHANGED blockVars
  <2>1. UNCHANGED <<pass, withData, planarVoxelEdge, noDataBlockSkipCount, nextVoxel>>
    BY <1>2 DEF SearchStep, blockVars
  <2> QED BY <2>1 DEF RingInv, EdgeIsDepth, Depth, Far
<1> QED BY <1>1, <1>2 DEF BlockNext

LEMMA RingInvInit == BlockInit => RingInv
<1> SUFFICES ASSUME BlockInit PROVE RingInv
  OBVIOUS
<1>1. noDataBlockSkipCount = 0 /\ nextVoxel = 0 /\ PlanarVoxelNum - 1 >= 0 /\ PlanarVoxelNum \in Nat
  <2>1. blockWidth * blockWidth \in Nat /\ blockWidth * blockWidth # 0
    BY BlockAssumption
  <2> QED BY <2>1 DEF BlockInit, PlanarVoxelNum
<1>2. withData \subseteq Voxels
  BY BlockAssumption DEF BlockInit
<1>3. ASSUME pass = "nodata"
      PROVE  planarVoxelEdge \in [Voxels -> Nat] /\ \A v \in Voxels : EdgeIsDepth(v)
  <2>1. planarVoxelEdge = [v \in Voxels |-> IF v \notin withData THEN 1 ELSE 0]
    BY <1>3 DEF BlockInit
  <2>2. ASSUME NEW v \in Voxels PROVE EdgeIsDepth(v)
    <3>1. VoxelIndex(v) \in 0..(PlanarVoxelNum - 1)
      BY IndexInArray
    <3>2. Depth(v) = 1
      BY <1>1, <3>1 DEF Depth
    <3>3. Far(v, 0) <=> v \notin withData
      <4>1. \A w \in Voxels : Within(v, w, 0) <=> v = w
        <5> SUFFICES ASSUME NEW w \in Voxels PROVE Within(v, w, 0) <=> v = w
          OBVIOUS
        <5>1. /\ v[1] \in Int /\ v[2] \in Int /\ w[1] \in Int /\ w[2] \in Int
              /\ v = <<v[1], v[2]>> /\ w = <<w[1], w[2]>>
          BY BlockAssumption DEF Voxels, Axis
        <5>2. Within(v, w, 0) <=> v[1] = w[1] /\ v[2] = w[2]
          BY <5>1 DEF Within, Gap
        <5> QED BY <5>1, <5>2
      <4> QED BY <4>1, <1>2 DEF Far
    <3> QED BY <2>1, <3>2, <3>3 DEF EdgeIsDepth
  <2> QED BY <2>1, <2>2
<1> QED BY <1>1, <1>2, <1>3 DEF RingInv

-----------------------------------------------------------------------------
(* The connectivity check.                                                   *)

In(v) == planarVoxelConn[v] \in {1, 2}

ConnInv == pass = "conn" =>
    /\ planarVoxelConn \in [Voxels -> {-1, 0, 1, 2}]
    /\ planarVoxelElev \in [Voxels -> Int]
    /\ planarVoxelQueue \in Seq(Voxels)
    /\ \A i \in DOMAIN planarVoxelQueue : In(planarVoxelQueue[i])
    /\ \A v \in Voxels : planarVoxelConn[v] = 1 =>
         \E i \in DOMAIN planarVoxelQueue : planarVoxelQueue[i] = v
    /\ fronts \in Seq(Voxels)
    /\ \A v \in Voxels : planarVoxelConn[v] = 2 => \E k \in DOMAIN fronts : fronts[k] = v
    /\ FirstFrontDecides
    /\ Centre \in Voxels /\ In(Centre)
    /\ ConnectedTerrainHangsTogether

\* The queue after a step: the rest of it, and the voxels that join.
QueueAfter(q, S, r) ==
    /\ r \in Seq(Voxels)
    /\ \A i \in DOMAIN r : r[i] \in S \/ \E k \in DOMAIN q : r[i] = q[k]
    /\ \A w \in S : \E i \in DOMAIN r : r[i] = w
    /\ \A k \in DOMAIN q : q[k] # Head(q) => \E i \in DOMAIN r : r[i] = q[k]

LEMMA QueueStep ==
  ASSUME NEW q \in Seq(Voxels), q # <<>>, NEW S \in SUBSET Voxels,
         NEW r, r = Tail(q) \o InArrayOrder(S)
  PROVE  QueueAfter(q, S, r)
<1> DEFINE t == Tail(q)
           j == InArrayOrder(S)
<1>1. /\ j \in Seq(S) /\ \A w \in S : \E k \in DOMAIN j : j[k] = w
  BY ArrayOrderLists
<1>2. j \in Seq(Voxels)
  BY <1>1, SeqMonotonic
<1>3. /\ t \in Seq(Voxels) /\ Len(t) = Len(q) - 1 /\ Head(q) = q[1]
      /\ \A i \in 1..Len(t) : t[i] = q[i + 1]
  BY HeadTailProperties
<1> HIDE DEF t, j
<1>4. /\ r \in Seq(Voxels) /\ Len(r) = Len(t) + Len(j)
      /\ \A i \in 1..(Len(t) + Len(j)) : r[i] = IF i <= Len(t) THEN t[i] ELSE j[i - Len(t)]
  <2>1. r = t \o j
    BY DEF t, j
  <2>2. /\ t \o j \in Seq(Voxels) /\ Len(t \o j) = Len(t) + Len(j)
        /\ \A i \in 1..(Len(t) + Len(j)) : (t \o j)[i] = IF i <= Len(t) THEN t[i] ELSE j[i - Len(t)]
    BY <1>2, <1>3, ConcatProperties
  <2> QED BY <2>1, <2>2
<1>5. /\ DOMAIN r = 1..Len(r) /\ DOMAIN q = 1..Len(q) /\ DOMAIN j = 1..Len(j)
      /\ Len(t) \in Nat /\ Len(j) \in Nat /\ Len(q) \in Nat
  BY <1>2, <1>3, <1>4, LenProperties
<1>6. ASSUME NEW i \in DOMAIN r
      PROVE  r[i] \in S \/ \E k \in DOMAIN q : r[i] = q[k]
  <2>1. CASE i <= Len(t)
    <3>1. r[i] = q[i + 1] /\ i + 1 \in DOMAIN q
      BY <2>1, <1>3, <1>4, <1>5
    <3> QED BY <3>1
  <2>2. CASE ~(i <= Len(t))
    <3>1. i \in Nat /\ i - Len(t) \in DOMAIN j /\ i \in 1..(Len(t) + Len(j))
      BY <2>2, <1>4, <1>5
    <3>2. r[i] = j[i - Len(t)]
      BY <3>1, <2>2, <1>4
    <3>3. j[i - Len(t)] \in S
      BY <3>1, <1>1, ElementOfSeq, <1>5
    <3> QED BY <3>2, <3>3
  <2> QED BY <2>1, <2>2
<1>7. ASSUME NEW w \in S PROVE \E i \in DOMAIN r : r[i] = w
  <2>1. PICK k \in DOMAIN j : j[k] = w
    BY <1>1
  <2>2. /\ k \in Nat /\ k + Len(t) \in DOMAIN r /\ (k + Len(t)) - Len(t) = k
        /\ ~(k + Len(t) <= Len(t)) /\ k + Len(t) \in 1..(Len(t) + Len(j))
    BY <1>4, <1>5
  <2>3. r[k + Len(t)] = j[(k + Len(t)) - Len(t)]
    BY <2>2, <1>4
  <2> QED BY <2>1, <2>2, <2>3
<1>8. ASSUME NEW k \in DOMAIN q, q[k] # Head(q) PROVE \E i \in DOMAIN r : r[i] = q[k]
  <2>1. k # 1
    BY <1>3, <1>8
  <2>2. k - 1 \in 1..Len(t) /\ (k - 1) + 1 = k
    BY <2>1, <1>3, <1>5
  <2>3. t[k - 1] = q[k]
    BY <2>2, <1>3
  <2>4. k - 1 \in DOMAIN r /\ r[k - 1] = q[k]
    BY <2>2, <2>3, <1>4, <1>5
  <2> QED BY <2>4
<1> QED BY <1>4, <1>6, <1>7, <1>8 DEF QueueAfter

LEMMA SearchStepInv ==
  ASSUME RingInv, ConnInv, SearchStep
  PROVE  ConnInv'
<1> DEFINE front == Head(planarVoxelQueue)
           J == Connected(front)
           C == Ceiling(front)
<1>1. /\ pass = "conn" /\ planarVoxelQueue # <<>>
      /\ planarVoxelQueue' = Tail(planarVoxelQueue) \o InArrayOrder(J)
      /\ planarVoxelConn' =
              [w \in Voxels |-> CASE w = front -> 2
                                  [] w \in J -> 1
                                  [] w \in C -> -1
                                  [] OTHER -> planarVoxelConn[w]]
      /\ fronts' = Append(fronts, front)
      /\ UNCHANGED <<pass, withData, planarVoxelElev>>
  BY DEF SearchStep
<1>2. /\ planarVoxelConn \in [Voxels -> {-1, 0, 1, 2}]
      /\ planarVoxelQueue \in Seq(Voxels)
      /\ \A i \in DOMAIN planarVoxelQueue : In(planarVoxelQueue[i])
      /\ \A v \in Voxels : planarVoxelConn[v] = 1 =>
           \E i \in DOMAIN planarVoxelQueue : planarVoxelQueue[i] = v
      /\ fronts \in Seq(Voxels)
      /\ \A v \in Voxels : planarVoxelConn[v] = 2 => \E k \in DOMAIN fronts : fronts[k] = v
      /\ FirstFrontDecides
      /\ Centre \in Voxels /\ In(Centre)
      /\ ConnectedTerrainHangsTogether
  BY <1>1 DEF ConnInv
<1>3. front \in Voxels /\ In(front)
  <2>1. front = planarVoxelQueue[1] /\ 1 \in DOMAIN planarVoxelQueue /\ front \in Voxels
    BY <1>1, <1>2, HeadTailProperties, LenProperties, EmptySeq
  <2> HIDE DEF front
  <2> QED BY <2>1, <1>2
<1>4. /\ withData \subseteq Voxels
      /\ J \subseteq withData /\ \A w \in J : planarVoxelConn[w] = 0
      /\ C \subseteq withData /\ \A w \in C : planarVoxelConn[w] = 0 /\ w \notin J
      /\ \A w \in J : Within(front, w, ConnReach) /\ Rise(front, w) < terrainConnThre
      /\ \A w \in Voxels : planarVoxelConn[w] = 0
           => /\ w \in J \cup C <=> Decides(front, w)
              /\ w \in J <=> Decides(front, w) /\ Rise(front, w) < terrainConnThre
  BY DEF RingInv, NewNeighbours, Connected, Ceiling, Decides
<1> HIDE DEF front, J, C
<1>7. front \notin J /\ front \notin C
  BY <1>3, <1>4 DEF In
\* A step decides only the voxel it searches and voxels that were undecided.
<1>5. ASSUME NEW w \in Voxels
      PROVE  planarVoxelConn'[w] = IF w = front THEN 2
                                   ELSE IF w \in J THEN 1
                                   ELSE IF w \in C THEN -1 ELSE planarVoxelConn[w]
  <2>1. planarVoxelConn'[w] = CASE w = front -> 2
                                [] w \in J -> 1
                                [] w \in C -> -1
                                [] OTHER -> planarVoxelConn[w]
    BY <1>1, Zenon
  <2> QED BY <2>1, <1>4, <1>7
<1>6. planarVoxelConn' \in [Voxels -> {-1, 0, 1, 2}]
  <2>1. \A w \in Voxels : planarVoxelConn'[w] \in {-1, 0, 1, 2}
    BY <1>2, <1>5
  <2>2. planarVoxelConn' = [w \in Voxels |-> planarVoxelConn'[w]]
    BY <1>1
  <2> QED BY <2>1, <2>2
<1>8. \A w \in Voxels : In(w)' <=> In(w) \/ w \in J
  BY <1>2, <1>3, <1>4, <1>5 DEF In
<1>9. /\ planarVoxelQueue' \in Seq(Voxels)
      /\ \A i \in DOMAIN planarVoxelQueue' :
           planarVoxelQueue'[i] \in J \/ \E k \in DOMAIN planarVoxelQueue : planarVoxelQueue'[i] = planarVoxelQueue[k]
      /\ \A w \in J : \E i \in DOMAIN planarVoxelQueue' : planarVoxelQueue'[i] = w
      /\ \A k \in DOMAIN planarVoxelQueue : planarVoxelQueue[k] # front =>
           \E i \in DOMAIN planarVoxelQueue' : planarVoxelQueue'[i] = planarVoxelQueue[k]
  <2>1. J \in SUBSET Voxels /\ planarVoxelQueue \in Seq(Voxels) /\ planarVoxelQueue # <<>>
        /\ planarVoxelQueue' = Tail(planarVoxelQueue) \o InArrayOrder(J)
    BY <1>1, <1>2, <1>4
  <2>2. QueueAfter(planarVoxelQueue, J, planarVoxelQueue')
    BY <2>1, QueueStep
  <2> QED BY <2>2 DEF QueueAfter, front
<1>10. \A i \in DOMAIN planarVoxelQueue' : planarVoxelConn'[planarVoxelQueue'[i]] \in {1, 2}
  <2> SUFFICES ASSUME NEW i \in DOMAIN planarVoxelQueue'
               PROVE  planarVoxelConn'[planarVoxelQueue'[i]] \in {1, 2}
    OBVIOUS
  <2>1. planarVoxelQueue'[i] \in Voxels
    <3> DEFINE r == planarVoxelQueue'
    <3>1. r \in Seq(Voxels) /\ i \in DOMAIN r
      BY <1>9
    <3> HIDE DEF r
    <3>2. r[i] \in Voxels
      BY <3>1, ElementOfSeq, LenProperties
    <3> QED BY <3>2 DEF r
  <2>2. planarVoxelQueue'[i] \in J \/ In(planarVoxelQueue'[i])
    BY <1>2, <1>9
  <2>3. \A w \in Voxels : In(w) \/ w \in J => planarVoxelConn'[w] \in {1, 2}
    BY <1>8 DEF In
  <2> QED BY <2>1, <2>2, <2>3
<1>11. \A v \in Voxels : planarVoxelConn'[v] = 1 =>
         \E i \in DOMAIN planarVoxelQueue' : planarVoxelQueue'[i] = v
  <2> SUFFICES ASSUME NEW v \in Voxels, planarVoxelConn'[v] = 1
               PROVE  \E i \in DOMAIN planarVoxelQueue' : planarVoxelQueue'[i] = v
    OBVIOUS
  <2>1. v # front /\ (v \in J \/ planarVoxelConn[v] = 1)
    BY <1>5
  <2> QED BY <2>1, <1>2, <1>9
<1>12. /\ fronts' \in Seq(Voxels) /\ Len(fronts) \in Nat /\ DOMAIN fronts = 1 .. Len(fronts)
       /\ DOMAIN fronts' = 1 .. (Len(fronts) + 1)
       /\ \A k \in DOMAIN fronts : k \in DOMAIN fronts' /\ fronts'[k] = fronts[k]
       /\ Len(fronts) + 1 \in DOMAIN fronts' /\ fronts'[Len(fronts) + 1] = front
  BY <1>1, <1>2, <1>3
<1>15. ASSUME NEW v \in Voxels, planarVoxelConn'[v] = 2
       PROVE  \E k \in DOMAIN fronts' : fronts'[k] = v
  <2>1. CASE v = front
    BY <2>1, <1>12
  <2>2. CASE v # front
    <3>1. planarVoxelConn[v] = 2
      BY <2>2, <1>15, <1>5
    <3> QED BY <3>1, <1>2, <1>12
  <2> QED BY <2>1, <2>2
\* A voxel that was decided stays so; of the others the front decides those it can.
<1>16. FirstFrontDecides'
  <2> SUFFICES ASSUME NEW w \in Voxels \ {Centre}
               PROVE  /\ planarVoxelConn'[w] = 0
                           <=> \A k \in DOMAIN fronts' : ~Decides(fronts'[k], w)
                      /\ \A k \in DOMAIN fronts' :
                           (Decides(fronts'[k], w)
                              /\ \A j \in 1 .. k - 1 : ~Decides(fronts'[j], w))
                             => (planarVoxelConn'[w] = -1
                                   <=> Rise(fronts'[k], w) >= terrainConnThre)
    <3>1. \A v, x : (Rise(v, x)' = Rise(v, x)) /\ (Decides(v, x)' <=> Decides(v, x))
      BY <1>1 DEF Rise, Decides
    <3> QED BY <1>1, <3>1 DEF FirstFrontDecides, Rise, Decides
  <2>0. w \in Voxels /\ planarVoxelConn[w] \in {-1, 0, 1, 2}
    BY <1>2
  <2>1. /\ planarVoxelConn[w] = 0 <=> \A k \in DOMAIN fronts : ~Decides(fronts[k], w)
        /\ \A k \in DOMAIN fronts :
             (Decides(fronts[k], w) /\ \A j \in 1 .. k - 1 : ~Decides(fronts[j], w))
               => (planarVoxelConn[w] = -1 <=> Rise(fronts[k], w) >= terrainConnThre)
    BY <1>1, <1>2 DEF FirstFrontDecides
  <2>2. \A k \in DOMAIN fronts' : k \in DOMAIN fronts \/ k = Len(fronts) + 1
    BY <1>12
  <2>3. \A k \in DOMAIN fronts : \A j \in 1 .. k - 1 : j \in DOMAIN fronts
    BY <1>12
  <2>4. CASE planarVoxelConn[w] # 0
    <3>1. planarVoxelConn'[w] # 0 /\ (planarVoxelConn'[w] = -1 <=> planarVoxelConn[w] = -1)
      BY <2>0, <2>4, <1>3, <1>4, <1>5 DEF In
    <3>2. PICK d \in DOMAIN fronts : Decides(fronts[d], w)
      BY <2>1, <2>4
    <3>3. d \in DOMAIN fronts' /\ Decides(fronts'[d], w) /\ d \in 1 .. (Len(fronts) + 1) - 1
      BY <3>2, <1>12
    <3>4. ASSUME NEW k \in DOMAIN fronts', Decides(fronts'[k], w),
                 \A j \in 1 .. k - 1 : ~Decides(fronts'[j], w)
          PROVE  planarVoxelConn'[w] = -1 <=> Rise(fronts'[k], w) >= terrainConnThre
      <4>1. k # Len(fronts) + 1
        BY <3>3, <3>4
      <4>2. k \in DOMAIN fronts /\ fronts'[k] = fronts[k]
        BY <4>1, <2>2, <1>12
      <4>3. \A j \in 1 .. k - 1 : ~Decides(fronts[j], w)
        BY <4>2, <3>4, <2>3, <1>12
      <4> QED BY <4>2, <4>3, <3>1, <3>4, <2>1
    <3> QED BY <3>1, <3>3, <3>4
  <2>5. CASE planarVoxelConn[w] = 0
    <3>1. /\ w # front
          /\ w \in J \cup C <=> Decides(front, w)
          /\ w \in J <=> Decides(front, w) /\ Rise(front, w) < terrainConnThre
      BY <2>0, <2>5, <1>3, <1>4 DEF In
    <3>2. \A k \in DOMAIN fronts : ~Decides(fronts'[k], w)
      BY <2>1, <2>5, <1>12
    <3>3. ASSUME NEW k \in DOMAIN fronts', Decides(fronts'[k], w)
          PROVE  fronts'[k] = front
      BY <3>2, <3>3, <2>2, <1>12
    <3>4. planarVoxelConn'[w] = 0 <=> ~Decides(front, w)
      BY <3>1, <2>0, <2>5, <1>5
    <3>5. Decides(front, w)
            => (planarVoxelConn'[w] = -1 <=> ~(Rise(front, w) < terrainConnThre))
      BY <3>1, <2>0, <2>5, <1>4, <1>5
    <3>6. Rise(front, w) \in Int
      <4>1. planarVoxelElev \in [Voxels -> Int]
        BY <1>1 DEF ConnInv
      <4> QED BY <4>1, <1>3, <2>0 DEF Rise, Gap
    <3>7. ~(Rise(front, w) < terrainConnThre) <=> Rise(front, w) >= terrainConnThre
      BY <3>6, BlockAssumption
    <3>8. planarVoxelConn'[w] = 0 <=> \A k \in DOMAIN fronts' : ~Decides(fronts'[k], w)
      BY <3>3, <3>4, <1>12
    <3> QED BY <3>3, <3>5, <3>7, <3>8
  <2> QED BY <2>4, <2>5
<1>13. Centre \in Voxels /\ In(Centre)'
  BY <1>2, <1>8
\* A part that holds the centre and not all voxels is left by a step in it, or by
\* one from the voxel that was searched.
<1>14. ConnectedTerrainHangsTogether'
  <2> DEFINE in == {v \in Voxels : In(v)}
             new == {v \in Voxels : In(v) \/ v \in J}
  <2>1. ASSUME NEW part \in SUBSET new, Centre \in part, part # new
        PROVE  \E v \in part, w \in new \ part :
                 Within(v, w, ConnReach) /\ Rise(v, w) < terrainConnThre
    <3>1. CASE in \subseteq part
      <4>1. PICK w \in new : w \notin part
        BY <2>1
      <4>2. w \in J /\ front \in part
        BY <3>1, <4>1, <1>3
      <4> QED BY <4>1, <4>2, <1>4
    <3>2. CASE ~(in \subseteq part)
      <4>1. /\ part \cap in \in SUBSET in /\ Centre \in part \cap in /\ part \cap in # in
        BY <3>2, <2>1, <1>2
      <4>2. PICK v \in part \cap in, w \in in \ (part \cap in) :
              Within(v, w, ConnReach) /\ Rise(v, w) < terrainConnThre
        BY <4>1, <1>1, <1>2 DEF ConnectedTerrainHangsTogether, In
      <4>3. w \in new \ part
        BY <4>2
      <4> QED BY <4>2, <4>3
    <3> QED BY <3>1, <3>2
  <2>2. {v \in Voxels : planarVoxelConn'[v] \in {1, 2}} = new
    BY <1>8 DEF In
  <2> HIDE DEF new, in
  <2>3. \A v, w : Rise(v, w)' = Rise(v, w)
    BY <1>1 DEF Rise
  <2> QED BY <2>1, <2>2, <2>3 DEF ConnectedTerrainHangsTogether
<1> QED BY <1>1, <1>6, <1>9, <1>10, <1>11, <1>12, <1>13, <1>14, <1>15, <1>16 DEF ConnInv, In

LEMMA CentreIsAVoxel == Centre \in Voxels /\ blockHalfWidth \in Axis
<1>1. blockHalfWidth \in Axis
  <2> DEFINE h == blockHalfWidth
  <2>1. h \in Int /\ 2 * h <= blockWidth - 1 /\ blockWidth - 1 < 2 * h + 2
    BY BlockAssumption, DivisionBounds DEF blockHalfWidth
  <2> HIDE DEF h
  <2>2. h \in 0..(blockWidth - 1)
    BY <2>1, BlockAssumption
  <2> QED BY <2>2 DEF h, Axis
<1> QED BY <1>1 DEF Centre, Voxels

LEMMA ConnInvInit == BlockInit => ConnInv
<1> SUFFICES ASSUME BlockInit, pass = "conn" PROVE ConnInv
  BY DEF ConnInv
<1>1. /\ planarVoxelConn = [v \in Voxels |-> IF v = Centre THEN 1 ELSE 0]
      /\ planarVoxelQueue = <<Centre>>
  BY DEF BlockInit
<1>2. planarVoxelQueue \in Seq(Voxels) /\ DOMAIN planarVoxelQueue = {1} /\ planarVoxelQueue[1] = Centre
  BY <1>1, CentreIsAVoxel
<1>3. planarVoxelConn \in [Voxels -> {-1, 0, 1, 2}] /\ In(Centre)
  BY <1>1, CentreIsAVoxel DEF In
<1>4. \A v \in Voxels : (planarVoxelConn[v] = 1 => v = Centre) /\ planarVoxelConn[v] # 2
  BY <1>1
<1>5. ConnectedTerrainHangsTogether
  BY <1>4 DEF ConnectedTerrainHangsTogether
<1>6. fronts \in Seq(Voxels) /\ FirstFrontDecides
  <2>1. fronts = <<>> /\ DOMAIN fronts = {}
    BY DEF BlockInit
  <2> QED BY <2>1, <1>1 DEF FirstFrontDecides
<1>7. planarVoxelElev \in [Voxels -> Int]
  <2>1. PICK e \in [withData \cup {Centre} -> Heights] :
          planarVoxelElev = [v \in Voxels |-> IF v \in DOMAIN e THEN e[v] ELSE 0]
    BY DEF BlockInit
  <2>2. \A v \in DOMAIN e : e[v] \in Int
    BY BlockAssumption
  <2> QED BY <2>1, <2>2
<1> QED BY <1>2, <1>3, <1>4, <1>5, <1>6, <1>7, CentreIsAVoxel DEF ConnInv

LEMMA BlockInvariance == BlockSpec => [](RingInv /\ ConnInv)
<1>1. RingInv /\ ConnInv /\ [BlockNext]_blockVars => (RingInv /\ ConnInv)'
  <2> SUFFICES ASSUME RingInv, ConnInv, [BlockNext]_blockVars PROVE ConnInv'
    BY RingInvStep
  <2>1. CASE SearchStep
    BY <2>1, SearchStepInv
  <2>2. CASE SkipRound
    BY <2>2 DEF SkipRound, ConnInv
  <2>3. CASE UNCHANGED blockVars
    BY <2>3 DEF blockVars, ConnInv, In, FirstFrontDecides, Decides, Rise,
                ConnectedTerrainHangsTogether
  <2> QED BY <2>1, <2>2, <2>3 DEF BlockNext
<1> QED BY <1>1, RingInvInit, ConnInvInit, PTL DEF BlockSpec

\* For maps of every width, every reach and every threshold: however the rounds walk the
\* array they change, the depth counted for the voxels without data is their distance to
\* the data; and the search makes of a voxel what the first terrain that can tell says,
\* for good, searches from all terrain it finds, and finds only what hangs together.
THEOREM BlocksCorrect == BlockSpec => []VoxelMarksAreSound
<1>1. RingInv => NoDataRingsAreDistances
  <2> SUFFICES ASSUME RingInv, pass = "nodata", NEW v \in Voxels,
                      NEW d \in 1..(noDataBlockSkipCount + 1)
               PROVE  (planarVoxelEdge[v] >= d) <=> ~\E w \in withData : Within(v, w, d - 1)
    BY DEF NoDataRingsAreDistances
  <2>1. d \in 1..Depth(v)
    BY IndexInArray DEF RingInv, Depth
  <2> QED BY <2>1 DEF RingInv, EdgeIsDepth, Far
<1>2. ConnInv => FirstFrontDecides /\ ConnectedTerrainHangsTogether
  BY DEF ConnInv, FirstFrontDecides, ConnectedTerrainHangsTogether
<1>3. ConnInv => AllTerrainIsSearched
  <2> SUFFICES ASSUME ConnInv, pass = "conn", planarVoxelQueue = <<>>,
                      NEW v \in Voxels, planarVoxelConn[v] \in {1, 2}
               PROVE  \E k \in DOMAIN fronts : fronts[k] = v
    BY DEF AllTerrainIsSearched
  <2>1. DOMAIN planarVoxelQueue = {}
    OBVIOUS
  <2>2. planarVoxelConn[v] # 1
    BY <2>1 DEF ConnInv
  <2> QED BY <2>2 DEF ConnInv
<1> QED BY <1>1, <1>2, <1>3, BlockInvariance, PTL DEF VoxelMarksAreSound
-----------------------------------------------------------------------------
(* The rolling map of the terrain analysis.                                  *)

\* Of the members of a set that are measured with naturals, one has the least measure.
LEMMA LeastMeasure ==
  ASSUME NEW S, S # {}, NEW f \in [S -> Nat]
  PROVE  \E x \in S : \A y \in S : f[x] <= f[y]
<1> DEFINE B == {f[x] : x \in S}
<1>1. B \in SUBSET Nat /\ B # {}
  OBVIOUS
<1>2. PICK h \in B : \A k \in B : h <= k
  BY <1>1, LeastNat
<1>3. PICK x \in S : h = f[x]
  OBVIOUS
<1>4. \A y \in S : f[y] \in B
  OBVIOUS
<1> QED BY <1>2, <1>3, <1>4

\* A finite set of integers has a least and a greatest element.
LEMMA FiniteHasEnds ==
  ASSUME NEW S \in SUBSET Int, S # {}, IsFiniteSet(S)
  PROVE  /\ \E x \in S : \A y \in S : x <= y
         /\ \E x \in S : \A y \in S : y <= x
<1> DEFINE below(x) == {y \in S : y < x}
           above(x) == {y \in S : x < y}
           down == [x \in S |-> Cardinality(below(x))]
           up == [x \in S |-> Cardinality(above(x))]
<1>1. \A x \in S : /\ IsFiniteSet(below(x)) /\ Cardinality(below(x)) \in Nat
                   /\ IsFiniteSet(above(x)) /\ Cardinality(above(x)) \in Nat
  <2> TAKE x \in S
  <2>1. below(x) \in SUBSET S /\ above(x) \in SUBSET S
    OBVIOUS
  <2>2. IsFiniteSet(below(x)) /\ IsFiniteSet(above(x))
    BY <2>1, FS_Subset
  <2> HIDE DEF below, above
  <2> QED BY <2>2, FS_CardinalityType
<1>a. \A x, y \in S : (y \in below(x) <=> y < x) /\ (y \in above(x) <=> x < y)
  OBVIOUS
<1>b. \A x, y \in S : /\ y < x => below(y) \in SUBSET below(x)
                      /\ x < y => above(y) \in SUBSET above(x)
  <2> TAKE x, y \in S
  <2>1. ASSUME y < x, NEW z \in S, z < y PROVE z < x
    BY <2>1
  <2>2. ASSUME x < y, NEW z \in S, y < z PROVE x < z
    BY <2>2
  <2> QED BY <2>1, <2>2
<1> HIDE DEF below, above
<1>2. \E x \in S : \A y \in S : x <= y
  <2>1. down \in [S -> Nat]
    BY <1>1
  <2> HIDE DEF down
  <2>2. PICK x \in S : \A y \in S : down[x] <= down[y]
    BY <2>1, LeastMeasure
  <2>3. ASSUME NEW y \in S, ~(x <= y) PROVE FALSE
    <3>1. below(y) \in SUBSET below(x) /\ below(y) # below(x)
      BY <2>3, <1>a, <1>b
    <3>2. Cardinality(below(y)) <= Cardinality(below(x)) /\ Cardinality(below(x)) # Cardinality(below(y))
      BY <3>1, <1>1, FS_Subset
    <3>3. Cardinality(below(x)) <= Cardinality(below(y))
      BY <2>2 DEF down
    <3> QED BY <3>2, <3>3, <1>1
  <2> QED BY <2>3
<1>3. \E x \in S : \A y \in S : y <= x
  <2>1. up \in [S -> Nat]
    BY <1>1
  <2> HIDE DEF up
  <2>2. PICK x \in S : \A y \in S : up[x] <= up[y]
    BY <2>1, LeastMeasure
  <2>3. ASSUME NEW y \in S, ~(y <= x) PROVE FALSE
    <3>1. above(y) \in SUBSET above(x) /\ above(y) # above(x)
      BY <2>3, <1>a, <1>b
    <3>2. Cardinality(above(y)) <= Cardinality(above(x)) /\ Cardinality(above(x)) # Cardinality(above(y))
      BY <3>1, <1>1, FS_Subset
    <3>3. Cardinality(above(x)) <= Cardinality(above(y))
      BY <2>2 DEF up
    <3> QED BY <3>2, <3>3, <1>1
  <2> QED BY <2>3
<1> QED BY <1>2, <1>3

\* What Min gives for such a set, and for two numbers.
LEMMA MinIsLeast ==
  ASSUME NEW S \in SUBSET Int, S # {}, IsFiniteSet(S)
  PROVE  Min(S) \in S /\ \A y \in S : Min(S) <= y
BY FiniteHasEnds DEF Min

LEMMA MinOfTwo ==
  ASSUME NEW a \in Int, NEW b \in Int
  PROVE  Min({a, b}) = IF a <= b THEN a ELSE b
BY DEF Min

\* The voxel of a coordinate is the one whose middle is at most half a voxel away.
LEMMA IndexIsNear ==
  ASSUME NEW d \in Int, NEW h \in Nat \ {0}, NEW half \in Int
  PROVE  LET i == Index(d, 2 * h, half)
         IN  i \in Int /\ d - 2 * h * (i - half) \in (-h) .. h
<1> DEFINE size == 2 * h
           e == d + h
           i == Index(d, size, half)
<1>0. size \in Nat \ {0} /\ size \div 2 = h /\ e \in Int
  OBVIOUS
<1>s. size = 2 * h /\ i = Index(d, size, half)
  OBVIOUS
<1>d. e = d + h
  OBVIOUS
<1> HIDE DEF size, e
<1>1. CASE e >= 0
  <2> DEFINE q == e \div size
  <2>1. q \in Int /\ size * q <= e /\ e < size * q + size
    BY <1>0, QuotientBounds
  <2>2. i = half + q
    BY <1>0, <1>d, <1>1 DEF Index
  <2> HIDE DEF q
  <2>3. i - half = q
    BY <2>1, <2>2
  <2>4. i \in Int /\ e - size * q \in 0..(size - 1)
    BY <2>1, <2>2, <1>0
  <2> HIDE DEF i
  <2> QED BY <2>1, <2>3, <2>4, <1>0, <1>s, <1>d DEF size
<1>2. CASE e < 0
  <2> DEFINE m == -e
             q == m \div size
  <2>1. m \in Int /\ q \in Int /\ size * q <= m /\ m < size * q + size
    BY <1>0, QuotientBounds
  <2>2. i = half + (-q - 1)
    BY <1>0, <1>d, <1>2 DEF Index
  <2> HIDE DEF q
  <2>3. i - half = -q - 1
    BY <2>1, <2>2
  <2>4. size * (-q - 1) = -(size * q) - size
    BY <2>1, <1>0
  <2>5. i \in Int /\ e - size * (i - half) \in 0..size
    BY <2>1, <2>2, <2>3, <2>4, <1>0
  <2> HIDE DEF i
  <2> QED BY <2>5, <1>0, <1>s, <1>d DEF size
<1> QED BY <1>0, <1>1, <1>2

\* Where an axis stops rolling, the vehicle is at most one cell from the middle.
LEMMA RolledIsNear ==
  ASSUME NEW v \in Int, NEW s \in Int
  PROVE  Rolled(v, s) \in Int /\ v - V * Rolled(v, s) \in (-V) .. V
<1>0. V \in Nat \ {0}
  BY TerrainAssumption DEF V
<1>1. CASE v - V * s < -V
  <2> DEFINE q == v \div V
  <2>1. q \in Int /\ V * q <= v /\ v < V * q + V
    BY <1>0, QuotientBounds
  <2>2. Rolled(v, s) = q + 1
    BY <1>1 DEF Rolled
  <2> HIDE DEF q
  <2>3. V * (q + 1) = V * q + V
    BY <2>1, <1>0
  <2> QED BY <2>1, <2>2, <2>3, <1>0
<1>2. CASE v - V * s > V
  <2> DEFINE m == -v
             q == m \div V
  <2>1. q \in Int /\ V * q <= m /\ m < V * q + V
    BY <1>0, QuotientBounds
  <2>2. Rolled(v, s) = -q - 1
    BY <1>2, <1>0 DEF Rolled
  <2> HIDE DEF q
  <2>3. V * (-q - 1) = -(V * q) - V
    BY <2>1, <1>0
  <2> QED BY <2>1, <2>2, <2>3, <1>0
<1>3. CASE v - V * s \in (-V) .. V
  <2>1. Rolled(v, s) = s
    BY <1>3, <1>0 DEF Rolled
  <2> QED BY <1>3, <2>1
<1> DEFINE w == v - V * s
<1>4. w \in Int
  BY <1>0
<1> QED BY <1>0, <1>1, <1>2, <1>3, <1>4

\* A point that lies within one and a half cells of the middle of the cell c, when
\* the grid has the given shift.
NearCell(q, shift, c) ==
    \A a \in {1, 2} : 2 * (q[a] - V * (shift[a] + c[a] - terrainVoxelHalfWidth)) \in -(3 * V) .. 3 * V

\* The clouds of the map hold finitely many points, at places a scan may hold.
CloudOf(cloud) == IsFiniteSet(cloud) /\ \A p \in cloud : p.at \in ScanPoints

TerrInv ==
    /\ vehicle \in VehicleAt
    /\ terrainVoxelShift \in Int \X Int
    /\ clearingDis \in ClearingDistances
    /\ CloudOf(laserCloudCrop)
    /\ \A c \in Cells : CloudOf(terrainVoxelCloud[c])
    /\ PointsStayNearTheirCell

LEMMA TerrainNumbers ==
  /\ V \in Nat \ {0} /\ terrainVoxelHalfWidth \in Nat
  /\ V = 2 * (V \div 2) /\ V \div 2 \in Nat \ {0}
  /\ \A v \in VehicleAt : v[1] \in Int /\ v[2] \in Int
  /\ \A q \in ScanPoints : q[1] \in Int /\ q[2] \in Int /\ q[3] \in Int
  /\ \A c \in Cells : c[1] \in Int /\ c[2] \in Int
<1>1. V \in Nat \ {0} /\ terrainVoxelHalfWidth \in Nat /\ V % 2 = 0
  BY TerrainAssumption DEF V
<1>2. V = 2 * (V \div 2) /\ V \div 2 \in Nat \ {0}
  BY <1>1
<1> QED BY <1>1, <1>2, TerrainAssumption DEF Cells, Side

LEMMA CellsAreFinite == IsFiniteSet(Cells)
<1>1. IsFiniteSet(Side)
  <2>1. 0 \in Int /\ 2 * terrainVoxelHalfWidth \in Int
    BY TerrainNumbers
  <2> QED BY <2>1, FS_Interval DEF Side
<1> QED BY <1>1, FS_Product DEF Cells

\* The grid follows the vehicle to within one cell.
LEMMA ShiftIsNear ==
  ASSUME TerrInv
  PROVE  /\ NextShift \in Int \X Int
         /\ \A a \in {1, 2} : vehicle[a] - V * NextShift[a] \in (-V) .. V
<1>1. vehicle[1] \in Int /\ vehicle[2] \in Int
  BY TerrainNumbers DEF TerrInv
<1>2. terrainVoxelShift[1] \in Int /\ terrainVoxelShift[2] \in Int
  BY DEF TerrInv
<1>3. /\ NextShift[1] = Rolled(vehicle[1], terrainVoxelShift[1])
      /\ NextShift[2] = Rolled(vehicle[2], terrainVoxelShift[2])
      /\ NextShift = <<NextShift[1], NextShift[2]>>
  BY DEF NextShift
<1>4. /\ NextShift[1] \in Int /\ vehicle[1] - V * NextShift[1] \in (-V) .. V
      /\ NextShift[2] \in Int /\ vehicle[2] - V * NextShift[2] \in (-V) .. V
  BY <1>1, <1>2, <1>3, RolledIsNear
<1> QED BY <1>3, <1>4

\* A scan point is put into a cell relative to the vehicle.
LEMMA StackedIsNear ==
  ASSUME TerrInv, NEW c \in Cells, NEW p \in Stacked(c)
  PROVE  p.at \in ScanPoints /\ NearCell(p.at, NextShift, c)
<1>1. p \in laserCloudCrop /\ CellOf(p) = c /\ p.at \in ScanPoints
  BY DEF Stacked, TerrInv, CloudOf
<1>2. ASSUME NEW a \in {1, 2}
      PROVE  2 * (p.at[a] - V * (NextShift[a] + c[a] - terrainVoxelHalfWidth)) \in -(3 * V) .. 3 * V
  <2> DEFINE d == p.at[a] - vehicle[a]
             h == V \div 2
             half == terrainVoxelHalfWidth
             s == NextShift[a]
             x == p.at[a]
             v == vehicle[a]
             n == c[a] - half
  <2>1. c[a] = Index(d, V, half)
    BY <1>1 DEF CellOf
  <2>2. x \in Int /\ v \in Int /\ half \in Int /\ s \in Int /\ h \in Nat \ {0} /\ V = 2 * h /\ d \in Int
    BY <1>1, TerrainNumbers, ShiftIsNear DEF TerrInv
  <2>3. c[a] \in Int /\ d - V * n \in (-h) .. h
    BY <2>1, <2>2, IndexIsNear
  <2>4. v - V * s \in (-V) .. V
    BY ShiftIsNear
  <2>5. n \in Int /\ s + c[a] - half = s + n
    BY <2>2, <2>3
  <2>d. d = x - v
    OBVIOUS
  <2> HIDE DEF n, s, h, half, x, v, d
  <2>6. V * (s + n) = V * s + V * n
    BY <2>2, <2>5, TerrainNumbers
  <2> DEFINE vs == V * s
             vn == V * n
  <2>7. vs \in Int /\ vn \in Int
    BY <2>2, <2>5, TerrainNumbers
  <2>8. d - vn \in (-h) .. h /\ v - vs \in (-V) .. V /\ V * (s + n) = vs + vn
    BY <2>3, <2>4, <2>6
  <2> HIDE DEF vs, vn
  <2>9. 2 * (x - (vs + vn)) \in -(3 * V) .. 3 * V
    BY <2>2, <2>7, <2>8, <2>d, TerrainNumbers
  <2> QED BY <2>5, <2>8, <2>9 DEF x, s, half
<1> QED BY <1>1, <1>2 DEF NearCell

\* What a cell holds after the grid has rolled and the scan was put in.
LEMMA FilledIsNear ==
  ASSUME TerrInv, NEW c \in Cells
  PROVE  CloudOf(Filled(c)) /\ \A p \in Filled(c) : NearCell(p.at, NextShift, c)
<1>1. CloudOf(Stacked(c)) /\ \A p \in Stacked(c) : NearCell(p.at, NextShift, c)
  <2>1. IsFiniteSet(Stacked(c))
    BY FS_Subset DEF TerrInv, CloudOf, Stacked
  <2> QED BY <2>1, StackedIsNear DEF CloudOf
<1>2. CASE Before(c) \notin Cells
  BY <1>1, <1>2 DEF Filled
<1>3. CASE Before(c) \in Cells
  <2> DEFINE b == Before(c)
             old == terrainVoxelCloud[b]
  <2>1. CloudOf(old) /\ b \in Cells
    BY <1>3 DEF TerrInv
  <2>2. Filled(c) = old \cup Stacked(c)
    BY <1>3 DEF Filled
  <2>3. \A a \in {1, 2} : /\ b[a] = c[a] + NextShift[a] - terrainVoxelShift[a]
                          /\ c[a] \in Int /\ NextShift[a] \in Int /\ terrainVoxelShift[a] \in Int
    BY ShiftIsNear, TerrainNumbers DEF Before, TerrInv
  <2>4. \A a \in {1, 2} : terrainVoxelShift[a] + b[a] - terrainVoxelHalfWidth
                            = NextShift[a] + c[a] - terrainVoxelHalfWidth
    BY <2>3, TerrainNumbers
  <2>5. \A p \in old : NearCell(p.at, terrainVoxelShift, b)
    BY <2>1 DEF TerrInv, PointsStayNearTheirCell, NearCell
  <2>6. \A p \in old : NearCell(p.at, NextShift, c)
    <3> HIDE DEF b, old
    <3> QED BY <2>4, <2>5 DEF NearCell
  <2>7. CloudOf(Filled(c))
    <3> HIDE DEF old
    <3>1. IsFiniteSet(old) /\ IsFiniteSet(Stacked(c))
      BY <2>1, <1>1 DEF CloudOf
    <3>2. IsFiniteSet(old \cup Stacked(c))
      BY <3>1, FS_Union
    <3> QED BY <3>2, <2>1, <2>2, <1>1 DEF CloudOf
  <2> QED BY <2>2, <2>6, <2>7, <1>1
<1> QED BY <1>2, <1>3

\* The voxel filter moves no point to another place.
LEMMA DownsizedKeepsPlaces ==
  ASSUME NEW cloud, CloudOf(cloud)
  PROVE  /\ CloudOf(Downsized(cloud))
         /\ \A q \in Downsized(cloud) : \E p \in cloud : p.at = q.at
<1> DEFINE places == {p.at : p \in cloud}
           time(q) == LET same == {p \in cloud : p.at = q}
                      IN  MapThenSumSet(LAMBDA p : p.t, same) \div Cardinality(same)
           f == [q \in places |-> [at |-> q, t |-> time(q)]]
<1>1. places \in SUBSET ScanPoints
  BY DEF CloudOf
<1>2. IsFiniteSet(places)
  BY <1>1, FS_Subset, TerrainAssumption
<1>3. Downsized(cloud) = {f[q] : q \in places}
  BY DEF Downsized
<1>4. \A q \in places : f[q].at = q
  OBVIOUS
<1> HIDE DEF f
<1>5. f \in Surjection(places, Downsized(cloud))
  <2>1. f \in [places -> Downsized(cloud)]
    BY <1>3 DEF f
  <2> QED BY <1>3, <2>1 DEF Surjection
<1>6. IsFiniteSet(Downsized(cloud))
  BY <1>2, <1>5, FS_Surjection
<1>7. \A q \in Downsized(cloud) : q.at \in places
  BY <1>3, <1>4
<1> QED BY <1>1, <1>6, <1>7 DEF CloudOf

\* The invariant holds at the start, and no callback touches the map.
LEMMA TerrInvInit == TerrainInit => TerrInv
<1> SUFFICES ASSUME TerrainInit PROVE TerrInv
  OBVIOUS
<1>1. CloudOf({})
  BY FS_EmptySet DEF CloudOf
<1>2. \A c \in Cells : terrainVoxelCloud[c] = {}
  BY DEF TerrainInit
<1> QED BY <1>1, <1>2, TerrainAssumption DEF TerrainInit, TerrInv, PointsStayNearTheirCell

\* The part of the main loop that both nodes share, after the grid has rolled.
LEMMA UpdateMapInv ==
  ASSUME TerrInv, UpdateMap, vehicle' = vehicle, laserCloudCrop' = laserCloudCrop,
         clearingDis' = clearingDis
  PROVE  /\ TerrInv'
         /\ terrainVoxelShift' = NextShift
         /\ \A c \in Cells : CloudOf(terrainVoxelCloud'[c])
         /\ \A c \in Cells : \A p \in terrainVoxelCloud'[c] : NearCell(p.at, NextShift, c)
<1>1. ASSUME NEW c \in Cells
      PROVE  /\ CloudOf(terrainVoxelCloud'[c])
             /\ \A p \in terrainVoxelCloud'[c] : NearCell(p.at, NextShift, c)
  <2> DEFINE filled == Filled(c)
             down == Downsized(filled)
             kept == {p \in down : Kept(p)}
  <2>1. CloudOf(filled) /\ \A p \in filled : NearCell(p.at, NextShift, c)
    BY FilledIsNear
  <2>2. terrainVoxelCloud'[c] = IF Updated(c) THEN kept ELSE filled
    BY DEF UpdateMap
  <2> HIDE DEF filled
  <2>3. CloudOf(down) /\ \A q \in down : \E p \in filled : p.at = q.at
    BY <2>1, DownsizedKeepsPlaces
  <2> HIDE DEF down
  <2>4. kept \in SUBSET down
    OBVIOUS
  <2> HIDE DEF kept
  <2>5. CloudOf(kept)
    BY <2>3, <2>4, FS_Subset DEF CloudOf
  <2>6. \A q \in kept : NearCell(q.at, NextShift, c)
    BY <2>1, <2>3, <2>4 DEF NearCell
  <2> QED BY <2>1, <2>2, <2>5, <2>6
<1>2. terrainVoxelShift' = NextShift
  BY DEF UpdateMap
<1>3. PointsStayNearTheirCell'
  BY <1>1, <1>2 DEF PointsStayNearTheirCell, NearCell
<1>4. CloudOf(laserCloudCrop') /\ clearingDis' \in ClearingDistances
  BY DEF TerrInv
<1>5. (\A c \in Cells : CloudOf(terrainVoxelCloud[c]))'
  BY <1>1 DEF CloudOf
<1>6. TerrInv'
  BY <1>2, <1>3, <1>4, <1>5, ShiftIsNear DEF TerrInv, CloudOf
<1> QED BY <1>1, <1>2, <1>6

LEMMA TerrInvStep == TerrInv /\ [TerrainNext]_terrainVars => TerrInv'
<1> SUFFICES ASSUME TerrInv, [TerrainNext]_terrainVars PROVE TerrInv'
  OBVIOUS
<1>k. ASSUME UNCHANGED gridVars, vehicle' \in VehicleAt, CloudOf(laserCloudCrop'),
             clearingDis' \in ClearingDistances
      PROVE  TerrInv'
  BY <1>k DEF gridVars, TerrInv, CloudOf, PointsStayNearTheirCell
<1>1. ASSUME NEW v \in VehicleAt, odometryHandler(v) \/ odometryHandlerExt(v) PROVE TerrInv'
  BY <1>1, <1>k DEF odometryHandler, odometryHandlerExt, sensed, clearVars, TerrInv
<1>2. ASSUME NEW cloud \in SUBSET ScanPoints, laserCloudHandler(cloud) PROVE TerrInv'
  <2> DEFINE t == laserCloudTime'
             all == {[at |-> q, t |-> t] : q \in cloud}
             f == [q \in cloud |-> [at |-> q, t |-> t]]
  <2>1. laserCloudCrop' \in SUBSET all
    BY <1>2 DEF laserCloudHandler, Cropped
  <2>2. f \in Surjection(cloud, all)
    BY DEF Surjection
  <2>3. IsFiniteSet(cloud)
    BY TerrainAssumption, FS_Subset
  <2>4. \A p \in all : p.at \in ScanPoints
    OBVIOUS
  <2> HIDE DEF f, all
  <2>5. IsFiniteSet(all)
    BY <2>2, <2>3, FS_Surjection
  <2>6. CloudOf(laserCloudCrop')
    BY <2>1, <2>4, <2>5, FS_Subset DEF CloudOf
  <2> QED BY <1>2, <2>6, <1>k DEF laserCloudHandler, clearVars, TerrInv
<1>3. ASSUME joystickHandler \/ (\E dis \in ClearingDistances : clearingHandler(dis))
             \/ (\E cloud \in LocalClouds : terrainCloudLocalHandler(cloud))
      PROVE  TerrInv'
  BY <1>3, <1>k DEF joystickHandler, clearingHandler, AskClearing,
     terrainCloudLocalHandler, sensed, clearVars, TerrInv
<1>4. CASE ProcessLocal \/ ProcessExt
  BY <1>4, UpdateMapInv DEF ProcessLocal, ProcessExt
<1>5. CASE UNCHANGED terrainVars
  BY <1>5, <1>k DEF terrainVars, sensed, clearVars, TerrInv
<1> QED BY <1>1, <1>2, <1>3, <1>4, <1>5 DEF TerrainNext

THEOREM TerrainInvariance == TerrainSpec => []TerrInv
BY TerrInvInit, TerrInvStep, PTL DEF TerrainSpec

\* Only the two loops process a scan.
LEMMA ProcessSteps ==
  ASSUME [TerrainNext]_terrainVars, ProcessStep
  PROVE  /\ UpdateMap /\ vehicle' = vehicle /\ laserCloudCrop' = laserCloudCrop
         /\ clearingDis' = clearingDis /\ node' = node
<1>1. newlaserCloud /\ ~newlaserCloud'
  BY DEF ProcessStep
<1>2. ~(UNCHANGED newlaserCloud) /\ newlaserCloud' # TRUE
  BY <1>1
<1> QED BY <1>2 DEF TerrainNext, terrainVars, sensed, clearVars, odometryHandler, odometryHandlerExt,
     laserCloudHandler, joystickHandler, clearingHandler, AskClearing, terrainCloudLocalHandler,
     ProcessLocal, ProcessExt

\* The cells shown reach as far as promised, wherever the vehicle is in its cell.
LEMMA NearIsShown ==
  ASSUME TerrInv, [TerrainNext]_terrainVars, ProcessStep,
         NEW c \in Cells, NEW p \in terrainVoxelCloud'[c],
         \A a \in {1, 2} : 2 * (p.at[a] - vehicle[a]) < (2 * Shown - 3) * V
                        /\ 2 * (vehicle[a] - p.at[a]) < (2 * Shown - 3) * V
  PROVE  p \in terrainCloud'
<1>1. /\ UpdateMap /\ vehicle' = vehicle /\ laserCloudCrop' = laserCloudCrop
      /\ clearingDis' = clearingDis
  BY ProcessSteps
<1>2. p.at \in ScanPoints /\ NearCell(p.at, NextShift, c)
  BY <1>1, UpdateMapInv DEF CloudOf
<1>3. ASSUME NEW a \in {1, 2} PROVE c[a] - terrainVoxelHalfWidth \in -Shown .. Shown
  <2> DEFINE x == p.at[a]
             v == vehicle[a]
             s == NextShift[a]
             n == c[a] - terrainVoxelHalfWidth
             sh == Shown
  <2>1. x \in Int /\ v \in Int /\ s \in Int /\ n \in Int /\ sh \in Nat /\ V \in Nat \ {0}
    BY <1>2, TerrainNumbers, ShiftIsNear, TerrainAssumption DEF TerrInv
  <2>2. v - V * s \in (-V) .. V
    BY ShiftIsNear
  <2>3. s + c[a] - terrainVoxelHalfWidth = s + n
    BY <2>1, TerrainNumbers
  <2>4. 2 * (x - V * (s + n)) \in -(3 * V) .. 3 * V
    BY <1>2, <2>3 DEF NearCell
  <2>5. 2 * (x - v) < (2 * sh - 3) * V /\ 2 * (v - x) < (2 * sh - 3) * V
    OBVIOUS
  <2> HIDE DEF x, v, s, n, sh
  <2> DEFINE vs == V * s
             vn == V * n
             vh == V * sh
  <2>6. V * (s + n) = vs + vn /\ (2 * sh - 3) * V = 2 * vh - 3 * V
    BY <2>1
  <2>7. vs \in Int /\ vn \in Int /\ vh \in Int
    BY <2>1
  <2>n. v - vs \in (-V) .. V /\ 2 * (x - (vs + vn)) \in -(3 * V) .. 3 * V
    BY <2>2, <2>4, <2>6
  <2>o. 2 * (x - v) < 2 * vh - 3 * V /\ 2 * (v - x) < 2 * vh - 3 * V
    BY <2>5, <2>6
  <2> HIDE DEF vs, vn, vh
  <2>8. 2 * vn < 2 * vh + 2 * V /\ -(2 * vn) < 2 * vh + 2 * V
    BY <2>1, <2>7, <2>n, <2>o
  <2>9. V * n < V * sh + V /\ V * (-n) < V * sh + V
    BY <2>1, <2>7, <2>8 DEF vn, vh
  <2>10. n <= sh /\ -n <= sh
    BY <2>1, <2>9, QuotientsAreOrdered
  <2> QED BY <2>1, <2>10 DEF n, sh
<1>4. c \in ShownCells
  BY <1>3 DEF ShownCells
<1> QED BY <1>1, <1>4 DEF UpdateMap

\* The points of the published cloud are finitely many.
LEMMA TerrainCloudIsFinite ==
  ASSUME TerrInv, [TerrainNext]_terrainVars, ProcessStep
  PROVE  CloudOf(terrainCloud')
<1> DEFINE f == [c \in ShownCells |-> terrainVoxelCloud'[c]]
           shown == {terrainVoxelCloud'[c] : c \in ShownCells}
<1>1. \A c \in ShownCells : CloudOf(terrainVoxelCloud'[c])
  BY ProcessSteps, UpdateMapInv DEF ShownCells
<1>2. terrainCloud' = UNION shown
  BY ProcessSteps DEF UpdateMap
<1>3. IsFiniteSet(ShownCells)
  <2>1. ShownCells \in SUBSET Cells
    BY DEF ShownCells
  <2> QED BY <2>1, CellsAreFinite, FS_Subset
<1>4. f \in Surjection(ShownCells, shown)
  BY DEF Surjection
<1>5. \A cloud \in shown : IsFiniteSet(cloud) /\ \A p \in cloud : p.at \in ScanPoints
  BY <1>1 DEF CloudOf
<1> HIDE DEF f, shown
<1>6. IsFiniteSet(shown)
  BY <1>3, <1>4, FS_Surjection
<1>7. IsFiniteSet(UNION shown)
  BY <1>5, <1>6, FS_UNION
<1> QED BY <1>2, <1>5, <1>7 DEF CloudOf

\* A quantile of a finite set of points is the height of one of them.
LEMMA QuantileIsAHeight ==
  ASSUME NEW points, CloudOf(points), points # {}
  PROVE  QuantileOf(points) \in {p.at[3] : p \in points}
<1> DEFINE heights == {p.at[3] : p \in points}
           n == Cardinality(points)
           share == (n * quantileNum) \div quantileDen
           id == Min({share, n - 1})
           under(z) == {p \in points : p.at[3] < z}
           upto(z) == {p \in points : p.at[3] <= z}
           reaching == {z \in heights : id < Cardinality(upto(z))}
<1>1. heights \in SUBSET Int /\ heights # {} /\ \A p \in points : p.at[3] \in Int
  BY TerrainNumbers DEF CloudOf
<1>2. IsFiniteSet(points) /\ n \in Nat /\ n # 0
  BY FS_CardinalityType, FS_EmptySet DEF CloudOf
<1>3. id \in Int /\ id < n /\ id >= 0
  <2>1. n * quantileNum \in Nat
    BY <1>2, TerrainAssumption
  <2>2. share \in Nat
    BY <2>1, TerrainAssumption
  <2> HIDE DEF share, n
  <2>3. n - 1 \in Int
    BY <1>2
  <2>4. id = IF share <= n - 1 THEN share ELSE n - 1
    BY <2>2, <2>3, MinOfTwo
  <2> QED BY <2>2, <2>4, <1>2
<1>4. IsFiniteSet(heights)
  <2> DEFINE f == [p \in points |-> p.at[3]]
  <2>1. f \in Surjection(points, heights)
    BY DEF Surjection
  <2> HIDE DEF f, heights
  <2> QED BY <1>2, <2>1, FS_Surjection
<1>5. \A z : /\ IsFiniteSet(under(z)) /\ Cardinality(under(z)) \in Nat
             /\ IsFiniteSet(upto(z)) /\ Cardinality(upto(z)) \in Nat
  <2> TAKE z
  <2>1. under(z) \in SUBSET points /\ upto(z) \in SUBSET points
    OBVIOUS
  <2>2. IsFiniteSet(under(z)) /\ IsFiniteSet(upto(z))
    BY <2>1, <1>2, FS_Subset
  <2> HIDE DEF under, upto
  <2> QED BY <2>2, FS_CardinalityType
<1> HIDE DEF n, id, share
\* the least height that reaches beyond id
<1>6. reaching # {}
  <2>1. PICK top \in heights : \A y \in heights : y <= top
    BY <1>1, <1>4, FiniteHasEnds
  <2>2. \A p \in points : p.at[3] <= top
    BY <2>1
  <2>3. upto(top) = points
    BY <2>2
  <2> HIDE DEF upto
  <2> QED BY <2>1, <2>3, <1>3 DEF n
<1>7. PICK z \in reaching : \A y \in reaching : z <= y
  <2>1. reaching \in SUBSET heights
    OBVIOUS
  <2>2. reaching \in SUBSET Int /\ IsFiniteSet(reaching)
    BY <2>1, <1>1, <1>4, FS_Subset
  <2> HIDE DEF reaching
  <2> QED BY <2>2, <1>6, FiniteHasEnds
<1>8. z \in heights /\ id < Cardinality(upto(z)) /\ z \in Int
  BY <1>1
\* no lower height reaches that far
<1>9. Cardinality(under(z)) <= id
  <2> SUFFICES ASSUME ~(Cardinality(under(z)) <= id) PROVE FALSE
    OBVIOUS
  <2> DEFINE lower == {y \in heights : y < z}
  <2>1. id < Cardinality(under(z))
    <3>1. Cardinality(under(z)) \in Nat
      BY <1>5
    <3> HIDE DEF under
    <3> QED BY <3>1, <1>3
  <2>2. under(z) # {}
    <3> HIDE DEF under
    <3> QED BY <2>1, <1>3, FS_EmptySet
  <2>3. lower # {} /\ lower \in SUBSET heights
    BY <2>2
  <2>4. lower \in SUBSET Int /\ IsFiniteSet(lower)
    BY <2>3, <1>1, <1>4, FS_Subset
  <2>5. PICK y \in lower : \A w \in lower : w <= y
    <3> HIDE DEF lower
    <3> QED BY <2>3, <2>4, FiniteHasEnds
  <2>6. y \in heights /\ y < z /\ y \in Int
    BY <1>1
  <2>7. under(z) \subseteq upto(y)
    <3> SUFFICES ASSUME NEW p \in points, p.at[3] < z PROVE p.at[3] <= y
      OBVIOUS
    <3>1. p.at[3] \in lower
      OBVIOUS
    <3> QED BY <3>1, <2>5
  <2>8. Cardinality(under(z)) <= Cardinality(upto(y))
    <3> HIDE DEF under, upto
    <3> QED BY <2>7, <1>5, FS_Subset
  <2>9. id < Cardinality(upto(y))
    <3> HIDE DEF under, upto
    <3> QED BY <2>1, <2>8, <1>3, <1>5
  <2>10. y \in reaching
    BY <2>6, <2>9
  <2>11. z <= y
    BY <2>10, <1>7
  <2> QED BY <2>6, <2>11, <1>8
<1>10. QuantileOf(points) = CHOOSE y \in heights : Cardinality(under(y)) <= id /\ id < Cardinality(upto(y))
  BY DEF QuantileOf, id, share, n
<1> HIDE DEF heights, under, upto
<1>11. \E y \in heights : Cardinality(under(y)) <= id /\ id < Cardinality(upto(y))
  BY <1>8, <1>9
<1>12. QuantileOf(points) \in heights
  BY <1>10, <1>11
<1> QED BY <1>12 DEF heights

\* With limitGroundLift the ground is never higher above the lowest point than that.
LEMMA GroundIsLow ==
  ASSUME NEW points, CloudOf(points), points # {}, "limitGroundLift" \in Flags, node = "local"
  PROVE  /\ Lowest(points) \in Int
         /\ \A p \in points : Lowest(points) <= p.at[3] /\ p.at[3] \in Int
         /\ Ground(points) \in Int /\ Ground(points) - Lowest(points) \in 0 .. maxGroundLift
<1> DEFINE heights == {p.at[3] : p \in points}
           low == Lowest(points)
           quantile == QuantileOf(points)
<1>1. heights \in SUBSET Int /\ heights # {} /\ IsFiniteSet(heights)
  <2> DEFINE f == [p \in points |-> p.at[3]]
  <2>1. f \in Surjection(points, heights)
    BY DEF Surjection
  <2>2. heights \in SUBSET Int /\ heights # {}
    BY TerrainNumbers DEF CloudOf
  <2> HIDE DEF f, heights
  <2> QED BY <2>1, <2>2, FS_Surjection DEF CloudOf
<1>2. low = Min(heights)
  BY DEF Lowest
<1>3. quantile \in heights
  BY QuantileIsAHeight
<1>4. \A p \in points : p.at[3] \in heights
  OBVIOUS
<1> HIDE DEF heights, quantile, low
<1>5. low \in Int /\ \A y \in heights : low <= y /\ y \in Int
  BY <1>1, <1>2, MinIsLeast
<1>6. maxGroundLift \in Nat
  BY TerrainAssumption
<1>7. quantile \in Int /\ low <= quantile
  BY <1>3, <1>5
<1>8. Ground(points) = IF "useSorting" \notin Flags THEN low ELSE Min({quantile, low + maxGroundLift})
  BY DEF Ground, quantile, low
<1>9. Min({quantile, low + maxGroundLift})
        = IF quantile <= low + maxGroundLift THEN quantile ELSE low + maxGroundLift
  BY <1>5, <1>6, <1>7, MinOfTwo
<1>10. Ground(points) \in Int /\ Ground(points) - low \in 0 .. maxGroundLift
  BY <1>5, <1>6, <1>7, <1>8, <1>9
<1> QED BY <1>4, <1>5, <1>10 DEF low

\* However the vehicle drives: the map keeps points near their cells, the published
\* cloud holds every near one, clearing clears at once, and with limitGroundLift an
\* elevation is the height above the lowest point but for the lift (both terrain nodes).
THEOREM TerrainCorrect == TerrainSpec => TerrainFollowsTheVehicle
<1>1. ASSUME TerrInv, [TerrainNext]_terrainVars, ProcessStep,
             NEW c \in Cells, NEW p \in terrainVoxelCloud'[c],
             \A a \in {1, 2} : 2 * (p.at[a] - vehicle[a]) < (2 * Shown - 3) * V
                            /\ 2 * (vehicle[a] - p.at[a]) < (2 * Shown - 3) * V
      PROVE  p \in terrainCloud'
  BY <1>1, NearIsShown
<1>2. ASSUME TerrInv, [TerrainNext]_terrainVars, ProcessStep, clearingCloud,
             NEW c \in Cells, NEW p \in terrainVoxelCloud'[c]
      PROVE  Dis2(p) >= Square(clearingDis)
  <2>1. UpdateMap
    BY <1>2, ProcessSteps
  <2>2. Updated(c)
    BY <1>2 DEF Updated
  <2>3. Kept(p)
    BY <1>2, <2>1, <2>2 DEF UpdateMap
  <2>4. ~(Dis2(p) < Square(clearingDis))
    BY <1>2, <2>3 DEF Kept
  <2>5. p.at \in ScanPoints
    BY <1>2, ProcessSteps, UpdateMapInv DEF CloudOf
  <2>6. Dis2(p) \in Int /\ Square(clearingDis) \in Int
    BY <2>5, <1>2, TerrainNumbers, TerrainAssumption DEF TerrInv, Dis2, Apart2, Square
  <2> QED BY <2>4, <2>6
<1>3. ASSUME TerrInv, [TerrainNext]_terrainVars, ProcessStep, node = "local",
             "limitGroundLift" \in Flags, NEW p \in terrainCloud', LocalPoint(p)
      PROVE  Elevated(p) - (p.at[3] - Lowest(planarPointElev(terrainCloud', PlanarOf(p))))
               \in -maxGroundLift .. maxGroundLift
  <2> DEFINE points == planarPointElev(terrainCloud', PlanarOf(p))
             low == Lowest(points)
             ground == Ground(points)
             z == p.at[3]
  <2>1. CloudOf(points)
    <3>1. CloudOf(terrainCloud')
      BY <1>3, TerrainCloudIsFinite
    <3>2. points \in SUBSET terrainCloud'
      BY DEF planarPointElev
    <3> QED BY <3>1, <3>2, FS_Subset DEF CloudOf
  <2>2. p \in points
    <3> DEFINE at == PlanarOf(p)
    <3>1. at \in PlanarVoxels /\ InWindow(p)
      BY <1>3 DEF LocalPoint
    <3>2. at[1] \in Int /\ at[2] \in Int
      BY <3>1 DEF PlanarVoxels, PlanarSide
    <3>3. Adjacent(at, at, 1)
      <4> HIDE DEF at
      <4> QED BY <3>2 DEF Adjacent
    <3> QED BY <1>3, <3>1, <3>3 DEF planarPointElev
  <2>3. low \in Int /\ ground \in Int /\ low <= z /\ z \in Int /\ ground - low \in 0 .. maxGroundLift
    BY <1>3, <2>1, <2>2, GroundIsLow
  <2>4. Elevated(p) = IF z - ground < 0 /\ ("considerDrop" \in Flags \/ node = "ext")
                      THEN -(z - ground) ELSE z - ground
    BY DEF Elevated
  <2>5. maxGroundLift \in Nat
    BY TerrainAssumption
  <2> HIDE DEF z, ground, low
  <2>6. Elevated(p) - (z - low) \in -maxGroundLift .. maxGroundLift
    BY <2>3, <2>4, <2>5
  <2> QED BY <2>6 DEF z, low
<1>4. TerrInv /\ [TerrainNext]_terrainVars =>
        (ProcessStep =>
           \A c \in Cells : \A p \in terrainVoxelCloud'[c] :
              (\A a \in {1, 2} : 2 * (p.at[a] - vehicle[a]) < (2 * Shown - 3) * V
                              /\ 2 * (vehicle[a] - p.at[a]) < (2 * Shown - 3) * V)
                 => p \in terrainCloud')
  BY <1>1
<1>5. TerrInv /\ [TerrainNext]_terrainVars =>
        ((ProcessStep /\ clearingCloud) =>
           \A c \in Cells : \A p \in terrainVoxelCloud'[c] : Dis2(p) >= Square(clearingDis))
  BY <1>2
<1>6. TerrInv /\ [TerrainNext]_terrainVars =>
        ((ProcessStep /\ node = "local" /\ "limitGroundLift" \in Flags) =>
           \A p \in terrainCloud' : LocalPoint(p) =>
              LET low == Lowest(planarPointElev(terrainCloud', PlanarOf(p)))
              IN  Elevated(p) - (p.at[3] - low) \in -maxGroundLift .. maxGroundLift)
  BY <1>3
<1>7. TerrainSpec => NearPointsAreShown
  <2>1. TerrInv /\ [TerrainNext]_terrainVars =>
          [ProcessStep =>
             \A c \in Cells : \A p \in terrainVoxelCloud'[c] :
                (\A a \in {1, 2} : 2 * (p.at[a] - vehicle[a]) < (2 * Shown - 3) * V
                                /\ 2 * (vehicle[a] - p.at[a]) < (2 * Shown - 3) * V)
                   => p \in terrainCloud']_terrainVars
    BY <1>4
  <2> QED BY <2>1, TerrainInvariance, PTL DEF TerrainSpec, NearPointsAreShown
<1>8. TerrainSpec => ClearingClears
  BY <1>5, TerrainInvariance, PTL DEF TerrainSpec, ClearingClears
<1>9. TerrainSpec => ElevationIsAboveGround
  BY <1>6, TerrainInvariance, PTL DEF TerrainSpec, ElevationIsAboveGround
<1>10. TerrInv => PointsStayNearTheirCell
  BY DEF TerrInv
<1> QED BY <1>7, <1>8, <1>9, <1>10, TerrainInvariance, PTL DEF TerrainFollowsTheVehicle
-----------------------------------------------------------------------------
(* The controller.                                                           *)

LEMMA MaxOfTwo ==
  ASSUME NEW a \in Int, NEW b \in Int
  PROVE  Max({a, b}) = IF a >= b THEN a ELSE b
BY DEF Max

LEMMA LeastOfNats ==
  ASSUME NEW S \in SUBSET Nat, S # {}
  PROVE  Min(S) \in S /\ \A y \in S : Min(S) <= y
BY LeastNat DEF Min

OmniTypes ==
    /\ global_plan_ \in Seq(Int)
    /\ move_pid_.integral \in Int /\ move_pid_.pre_error \in Int
    /\ last_velocity_scaling_factor_ \in Int
    /\ lookahead_dist_ \in LookAheads /\ min_approach_linear_velocity_ \in MinApproach

OmniInv == OmniTypes /\ LimitersNeverStopTheRobot /\ LongObstaclesAreMet

\* The pose the plan is pruned to is one of those searched.
LEMMA ClosestIsSearched ==
  ASSUME NEW path \in Seq(Int), path # <<>>, NEW robot \in Int
  PROVE  Closest(path, robot) \in Searched(path)
<1> DEFINE searched == Searched(path)
           aways == {Away(path[i], robot) : i \in searched}
           least == Min(aways)
           best == {i \in searched : Away(path[i], robot) = least}
<1>1. searched \in SUBSET (1 .. Len(path)) /\ 1 \in searched
  <2>1. 1 \in 1 .. Len(path)
    OBVIOUS
  <2>2. IntegratedDistance(path, 1) = 0
    BY Zenon DEF IntegratedDistance
  <2>3. IntegratedDistance(path, 1) <= max_robot_pose_search_dist_
    BY <2>2, OmniAssumption
  <2> QED BY <2>1, <2>3 DEF Searched
<1>2. \A i \in 1 .. Len(path) : Away(path[i], robot) \in Nat
  BY DEF Away
<1>3. aways \in SUBSET Nat /\ aways # {}
  BY <1>1, <1>2
<1> HIDE DEF searched
<1>4. least \in aways
  <2> HIDE DEF aways
  <2> QED BY <1>3, LeastOfNats
<1> HIDE DEF least
<1>5. best \in SUBSET Nat /\ best # {}
  <2>1. PICK i \in searched : least = Away(path[i], robot)
    BY <1>4
  <2>2. i \in best
    BY <2>1
  <2>3. best \in SUBSET searched
    OBVIOUS
  <2> HIDE DEF best
  <2>4. 1 .. Len(path) \subseteq Nat
    OBVIOUS
  <2>5. best \subseteq Nat
    BY <2>3, <2>4, <1>1
  <2> QED BY <2>2, <2>5
<1>6. Min(best) \in best
  <2> HIDE DEF best
  <2> QED BY <1>5, LeastOfNats
<1>7. Closest(path, robot) = Min(best)
  BY DEF Closest, searched, least
<1> QED BY <1>6, <1>7 DEF searched

\* Pruning takes poses off the front only, and leaves one at least.
LEMMA PrunedIsAPlan ==
  ASSUME NEW path \in Seq(Int), path # <<>>, NEW robot \in Int
  PROVE  /\ Pruned(path, robot) \in Seq(Int)
         /\ \E k \in 1 .. Len(path) :
               /\ Pruned(path, robot) = SubSeq(path, k, Len(path))
               /\ IntegratedDistance(path, k) <= max_robot_pose_search_dist_
<1>1. Closest(path, robot) \in 1 .. Len(path)
  BY ClosestIsSearched DEF Searched
<1>2. IntegratedDistance(path, Closest(path, robot)) <= max_robot_pose_search_dist_
  BY ClosestIsSearched DEF Searched
<1>3. SubSeq(path, Closest(path, robot), Len(path)) \in Seq(Int)
  BY <1>1, SubSeqProperties
<1> QED BY <1>1, <1>2, <1>3 DEF Pruned

\* The part of the plan that is followed lies in the costmap.
LEMMA ExtentHolds ==
  ASSUME NEW path \in Seq(Int), NEW robot \in Int
  PROVE  /\ InExtent(path, robot) \in Seq(Int)
         /\ \A i \in DOMAIN InExtent(path, robot) :
              Away(InExtent(path, robot)[i], robot) <= CostmapMaxExtent
<1> DEFINE outside == {i \in 1 .. Len(path) : Away(path[i], robot) > CostmapMaxExtent}
           last == IF outside = {} THEN Len(path) ELSE Min(outside) - 1
<1>1. last \in 0 .. Len(path) /\ \A i \in 1 .. last : i \notin outside
  <2>1. CASE outside = {}
    BY <2>1
  <2>2. CASE outside # {}
    <3>1. outside \in SUBSET Nat /\ outside \in SUBSET (1 .. Len(path))
      OBVIOUS
    <3> HIDE DEF outside
    <3>2. Min(outside) \in outside /\ \A y \in outside : Min(outside) <= y
      BY <2>2, <3>1, LeastOfNats
    <3>3. last = Min(outside) - 1
      BY <2>2
    <3> HIDE DEF last
    <3> DEFINE least == Min(outside)
    <3>a. Len(path) \in Nat
      OBVIOUS
    <3>b. least \in outside
      BY <3>2
    <3>4. least \in 1 .. Len(path) /\ Len(path) \in Nat
      BY <3>1, <3>a, <3>b
    <3> HIDE DEF least
    <3>5. last = least - 1
      BY <3>3 DEF least
    <3>6. last \in 0 .. Len(path)
      BY <3>4, <3>5
    <3>7. ASSUME NEW i \in 1 .. last PROVE i \notin outside
      <4>1. i < least
        BY <3>4, <3>5, <3>6
      <4>2. i \in outside => least <= i
        BY <3>2 DEF least
      <4> QED BY <4>1, <4>2, <3>4
    <3> QED BY <3>6, <3>7
  <2> QED BY <2>1, <2>2
<1>2. InExtent(path, robot) = SubSeq(path, 1, last)
  BY DEF InExtent
<1>3. \A i \in 1 .. last : path[i] \in Int /\ Away(path[i], robot) <= CostmapMaxExtent
  <2> TAKE i \in 1 .. last
  <2>1. i \in 1 .. Len(path) /\ i \notin outside
    BY <1>1
  <2>2. Away(path[i], robot) \in Int /\ CostmapMaxExtent \in Int /\ path[i] \in Int
    BY <2>1, OmniAssumption DEF Away
  <2> QED BY <2>1, <2>2
<1> HIDE DEF last
<1>4. /\ SubSeq(path, 1, last) \in Seq(Int) /\ Len(SubSeq(path, 1, last)) = last
      /\ \A i \in 1 .. last : SubSeq(path, 1, last)[i] = path[i]
  BY <1>1, SubSeqProperties
<1> QED BY <1>2, <1>3, <1>4

\* What the speeds are computed from are numbers.
LEMMA SpeedsAreNumbers ==
  ASSUME OmniTypes, NEW local \in Seq(Int), local # <<>>, NEW turned \in BOOLEAN
  PROVE  /\ Away(Last(local), 0) \in Int
         /\ LET dist == IF turned THEN 0 ELSE getLookAheadPoint(local)
            IN  dist \in Int /\ calculate(dist) \in Int
<1> DEFINE far == {i \in DOMAIN local : Away(local[i], 0) >= lookahead_dist_}
           dist == IF turned THEN 0 ELSE getLookAheadPoint(local)
<1>1. Last(local) \in Int
  BY DEF Last
<1>2. \A x \in Int : Away(x, 0) \in Int
  BY DEF Away
<1>3. far \in SUBSET Nat /\ far \in SUBSET DOMAIN local
  OBVIOUS
<1>4. getLookAheadPoint(local)
        = IF far = {} THEN Away(Last(local), 0)
          ELSE IF use_interpolation_ /\ Min(far) # 1 THEN lookahead_dist_
          ELSE Away(local[Min(far)], 0)
  BY DEF getLookAheadPoint
<1> HIDE DEF far
<1>5. far # {} => local[Min(far)] \in Int
  <2>1. far # {} => Min(far) \in far
    BY <1>3, LeastOfNats
  <2>2. far # {} => Min(far) \in DOMAIN local
    BY <2>1, <1>3
  <2> HIDE DEF far
  <2> QED BY <2>2
<1>6. dist \in Int
  <2>1. lookahead_dist_ \in Int
    BY OmniAssumption DEF OmniTypes
  <2>2. getLookAheadPoint(local) \in Int
    BY <2>1, <1>1, <1>2, <1>4, <1>5
  <2> QED BY <2>2
<1> HIDE DEF dist
<1>7. calculate(dist) \in Int
  <2> DEFINE p == kp_ * dist
             i == ki_ * (move_pid_.integral + dist)
             d == kd_ * (dist - move_pid_.pre_error)
  <2>1. kp_ \in Int /\ ki_ \in Int /\ kd_ \in Int /\ v_linear_min_ \in Int /\ v_linear_max_ \in Int
    BY OmniAssumption
  <2>2. move_pid_.integral + dist \in Int /\ dist - move_pid_.pre_error \in Int
    BY <1>6 DEF OmniTypes
  <2>3. p \in Int /\ i \in Int /\ d \in Int
    BY <1>6, <2>1, <2>2
  <2>4. calculate(dist) = Clamp(p + i + d, v_linear_min_, v_linear_max_)
    BY DEF calculate
  <2> HIDE DEF p, i, d
  <2> QED BY <2>1, <2>3, <2>4 DEF Clamp
<1> QED BY <1>1, <1>2, <1>6, <1>7 DEF dist

\* Each of the two limiters keeps a speed between zero and what it was given.
LEMMA LimitersLimit ==
  ASSUME OmniTypes, NEW pid \in Int, NEW ratio \in Ratios, NEW local \in Seq(Int), local # <<>>
  PROVE  LET bend == CurvatureLimited(pid, ratio)
             vel == Approaching(bend, local)
         IN  /\ bend \in Int /\ vel \in Int /\ vel <= pid
             /\ pid > 0 => vel > 0
<1> DEFINE bend == CurvatureLimited(pid, ratio)
           vel == Approaching(bend, local)
           least == min_approach_linear_velocity_
           curved == IF ratio = 10 THEN pid
                     ELSE last_velocity_scaling_factor_ +
                            Clamp((pid * ratio) \div 10 - last_velocity_scaling_factor_,
                                  -scaling_rate, scaling_rate)
           near == IntegratedDistance(local, Len(local)) < approach_velocity_scaling_dist_
           slowed == IF near
                     THEN (bend * Away(Last(local), 0)) \div approach_velocity_scaling_dist_ ELSE bend
<1>1. least \in Int /\ least > 0
  BY OmniAssumption DEF OmniTypes
<1>2. curved \in Int
  BY OmniAssumption DEF OmniTypes, Clamp
<1>3. bend = Min({pid, Max({curved, 2 * least})})
  BY DEF CurvatureLimited
<1> HIDE DEF curved, least
<1>4. bend \in Int /\ bend <= pid /\ (pid > 0 => bend > 0)
  <2>1. 2 * least \in Int
    BY <1>1
  <2>2. Max({curved, 2 * least}) = IF curved >= 2 * least THEN curved ELSE 2 * least
    BY <1>2, <2>1, MaxOfTwo
  <2>3. Max({curved, 2 * least}) \in Int
    BY <2>1, <2>2, <1>2
  <2>4. bend = IF pid <= Max({curved, 2 * least}) THEN pid ELSE Max({curved, 2 * least})
    BY <1>3, <2>3, MinOfTwo
  <2> HIDE DEF bend
  <2> QED BY <1>1, <1>2, <2>2, <2>3, <2>4
<1>5. vel = Min({bend, Max({slowed, least})})
  BY Zenon DEF Approaching, near, slowed, least
<1> HIDE DEF bend
<1>6. slowed \in Int
  <2>1. Away(Last(local), 0) \in Int
    BY SpeedsAreNumbers
  <2>2. approach_velocity_scaling_dist_ \in Nat \ {0}
    BY OmniAssumption
  <2> HIDE DEF near
  <2> QED BY <1>4, <2>1, <2>2
<1> HIDE DEF slowed, vel
<1>7. Max({slowed, least}) = IF slowed >= least THEN slowed ELSE least
  BY <1>1, <1>6, MaxOfTwo
<1>m. Max({slowed, least}) \in Int
  BY <1>1, <1>6, <1>7
<1>8. vel = IF bend <= Max({slowed, least}) THEN bend ELSE Max({slowed, least})
  BY <1>m, <1>4, <1>5, MinOfTwo
<1>9. vel \in Int /\ vel <= pid /\ (pid > 0 => vel > 0)
  BY <1>1, <1>4, <1>6, <1>7, <1>8
<1> QED BY <1>4, <1>9 DEF bend, vel

\* A stretch of the plan as long as a gap between two samples holds a sample.
LEMMA StretchIsSampled ==
  ASSUME NEW n \in Nat \ {0}, NEW S \in Nat \ {0}, NEW i \in Int,
         i >= 1, i <= n - ((n + S - 1) \div S) + 1
  PROVE  \E s \in 0 .. S - 1 :
            /\ (s * n) \div S + 1 \in i .. i + ((n + S - 1) \div S) - 1
            /\ (s * n) \div S \in Int /\ (s * n) \div S <= n - 1
<1> DEFINE gap == (n + S - 1) \div S
           p == S * (i - 1)
           s == (p + n - 1) \div n
           q == (s * n) \div S
<1>1. gap \in Int /\ n <= S * gap /\ i - 1 <= n - gap
  <2>1. n + S - 1 \in Int
    OBVIOUS
  <2>2. gap \in Int /\ S * gap <= n + S - 1 /\ n + S - 1 < S * gap + S
    BY <2>1, QuotientBounds
  <2>3. i - 1 <= n - gap
    BY <2>2
  <2> HIDE DEF gap
  <2> DEFINE x == S * gap
  <2>4. x \in Int /\ n + S - 1 < x + S
    BY <2>2
  <2> HIDE DEF x
  <2>5. n <= x
    BY <2>4
  <2> QED BY <2>2, <2>3, <2>5 DEF x
<1> HIDE DEF gap
<1>2. p \in Nat
  <2>1. i - 1 \in Nat
    OBVIOUS
  <2> QED BY <2>1
<1>3. s \in Int /\ p <= n * s /\ n * s < p + n
  <2>1. p + n - 1 \in Int
    BY <1>2
  <2> HIDE DEF p
  <2>2. s \in Int /\ n * s <= p + n - 1 /\ p + n - 1 < n * s + n
    BY <2>1, QuotientBounds
  <2> HIDE DEF s
  <2> DEFINE x == n * s
  <2>3. x \in Int /\ x <= p + n - 1 /\ p + n - 1 < x + n /\ p \in Int
    BY <2>2, <1>2
  <2> HIDE DEF x
  <2>4. p <= x /\ x < p + n
    BY <2>3
  <2> QED BY <2>2, <2>4 DEF x
<1> HIDE DEF s
<1>4. s \in Nat
  <2>1. n * 0 < n * s + n
    <3> DEFINE x == n * s
    <3>1. x \in Int /\ p <= x
      BY <1>3
    <3> HIDE DEF x, p
    <3>2. 0 < x + n
      BY <3>1, <1>2
    <3> QED BY <3>2 DEF x
  <2>2. 0 <= s
    BY <2>1, <1>3, QuotientsAreOrdered
  <2> QED BY <2>2, <1>3
\* S * (i - 1) + n <= S * (i - 1 + gap) <= S * n
<1>5. p + n <= S * (i - 1 + gap) /\ S * (i - 1 + gap) <= S * n
  <2>1. S * (i - 1 + gap) = p + S * gap
    BY <1>1
  <2>2. n - (i - 1 + gap) \in Nat
    BY <1>1
  <2>3. S * (n - (i - 1 + gap)) \in Nat
    BY <2>2
  <2>4. S * (n - (i - 1 + gap)) = S * n - S * (i - 1 + gap)
    BY <1>1
  <2> DEFINE x == S * gap
             y == S * (i - 1 + gap)
             z == S * n
  <2>5. x \in Int /\ y \in Int /\ z \in Int /\ n <= x /\ y = p + x /\ z - y \in Nat
    BY <1>1, <2>1, <2>3, <2>4
  <2> HIDE DEF x, y, z, p
  <2>6. p + n <= y /\ y <= z
    BY <2>5, <1>2
  <2> QED BY <2>6 DEF y, z
<1>6. s <= S - 1
  <2>1. n * s < n * (S - 1) + n
    <3> DEFINE x == n * s
               y == S * (i - 1 + gap)
    <3>1. x \in Int /\ x < p + n /\ p + n <= y /\ y <= S * n /\ y \in Int /\ S * n \in Int
      BY <1>1, <1>3, <1>5
    <3>2. S * n = n * (S - 1) + n
      OBVIOUS
    <3> HIDE DEF x, y, p
    <3>3. x < S * n
      BY <3>1, <1>2
    <3> QED BY <3>2, <3>3 DEF x
  <2>2. S - 1 \in Int
    OBVIOUS
  <2> QED BY <2>1, <2>2, <1>3, QuotientsAreOrdered
<1>7. q \in Int /\ S * q <= n * s /\ n * s < S * q + S
  <2>1. s * n \in Int /\ s * n = n * s
    BY <1>3
  <2> QED BY <2>1, QuotientBounds
<1> HIDE DEF q
<1>8. i - 1 <= q
  <2>1. S * (i - 1) < S * q + S
    <3> DEFINE x == n * s
               y == S * q
    <3>1. x \in Int /\ y \in Int /\ p <= x /\ x < y + S
      BY <1>3, <1>7
    <3> HIDE DEF x, y, p
    <3>2. p < y + S
      BY <3>1, <1>2
    <3> QED BY <3>2 DEF p, y
  <2>2. i - 1 \in Int
    OBVIOUS
  <2> QED BY <2>1, <2>2, <1>7, QuotientsAreOrdered
<1>9. q <= i - 2 + gap
  <2>1. S * q < S * (i - 2 + gap) + S
    <3> DEFINE x == n * s
               y == S * q
               z == S * (i - 1 + gap)
    <3>1. x \in Int /\ y \in Int /\ z \in Int /\ y <= x /\ x < p + n /\ p + n <= z
      BY <1>1, <1>3, <1>5, <1>7
    <3>2. z = S * (i - 2 + gap) + S
      BY <1>1
    <3> HIDE DEF x, y, z, p
    <3>3. y < z
      BY <3>1, <1>2
    <3> QED BY <3>2, <3>3 DEF y
  <2>2. i - 2 + gap \in Int
    BY <1>1
  <2> QED BY <2>1, <2>2, <1>7, QuotientsAreOrdered
<1>10. s \in 0 .. S - 1 /\ q + 1 \in i .. i + gap - 1 /\ q <= n - 1
  BY <1>1, <1>4, <1>6, <1>7, <1>8, <1>9
<1> QED BY <1>7, <1>10 DEF q, gap

LEMMA QuotientOfNat ==
  ASSUME NEW n \in Nat, NEW r \in Nat \ {0}
  PROVE  n \div r \in Nat
OBVIOUS

\* The samples of the collision check are poses of the plan, and an obstacle on one
\* of them is seen.
LEMMA SamplesAreClear ==
  ASSUME NEW plan \in Seq(Int), plan # <<>>, NEW robot \in Int, NEW lethal,
         \A i \in DOMAIN plan : Away(plan[i], robot) <= CostmapMaxExtent,
         ~isCollisionDetected([i \in 1 .. sample_points |-> plan[SampleIndex(i - 1, Len(plan))]],
                              robot, lethal)
  PROVE  LET n == Len(plan)
             gap == (n + sample_points - 1) \div sample_points
         IN  ~\E i \in 1 .. n - gap + 1 : \A j \in i .. i + gap - 1 : plan[j] \in lethal
<1> DEFINE S == sample_points
           n == Len(plan)
           gap == (n + S - 1) \div S
           sampled == [i \in 1 .. S |-> plan[SampleIndex(i - 1, n)]]
<1>1. S \in Nat \ {0} /\ n \in Nat \ {0}
  BY OmniAssumption
<1>g. gap \in Int
  BY <1>1
<1> SUFFICES ASSUME NEW i \in 1 .. n - gap + 1, \A j \in i .. i + gap - 1 : plan[j] \in lethal
             PROVE  FALSE
  OBVIOUS
<1>2. i \in Int /\ i >= 1 /\ i <= n - gap + 1
  BY <1>1, <1>g
<1>3. PICK s \in 0 .. S - 1 : /\ (s * n) \div S + 1 \in i .. i + gap - 1
                              /\ (s * n) \div S \in Int /\ (s * n) \div S <= n - 1
  <2> HIDE DEF S, n
  <2> QED BY <1>1, <1>2, StretchIsSampled
<1> DEFINE q == (s * n) \div S
<1>4. SampleIndex(s, n) = q + 1 /\ q + 1 \in i .. i + gap - 1
  <2>1. Min({q, n - 1}) = q
    <3>1. n - 1 \in Int
      BY <1>1
    <3> HIDE DEF q, n
    <3> QED BY <3>1, <1>3, MinOfTwo DEF q
  <2> QED BY <2>1, <1>3 DEF SampleIndex
<1>5. s + 1 \in 1 .. S /\ sampled[s + 1] = plan[q + 1]
  <2>1. s + 1 \in 1 .. S /\ (s + 1) - 1 = s
    BY <1>1
  <2>2. sampled[s + 1] = plan[SampleIndex((s + 1) - 1, n)]
    BY <2>1
  <2> QED BY <2>1, <2>2, <1>4
<1>6. sampled[s + 1] \in lethal
  BY <1>4, <1>5
<1>7. ASSUME NEW j \in 1 .. S PROVE Away(sampled[j], robot) <= CostmapMaxExtent
  <2> DEFINE r == SampleIndex(j - 1, n)
             p == (j - 1) * n
  <2>1. sampled[j] = plan[r]
    OBVIOUS
  <2>2. p \in Nat
    <3>1. j - 1 \in Nat
      OBVIOUS
    <3> QED BY <3>1, <1>1
  <2> HIDE DEF p
  <2>3. p \div S \in Nat
    <3> HIDE DEF S, n
    <3> QED BY <2>2, <1>1, QuotientOfNat
  <2> DEFINE d == p \div S
  <2>4. r = Min({d, n - 1}) + 1
    BY DEF SampleIndex, p
  <2> HIDE DEF d, n, r
  <2>d. d \in Nat
    BY <2>3 DEF d
  <2>n. n - 1 \in Int
    BY <1>1
  <2>m. d \in Int
    BY <2>d
  <2>o. Min({d, n - 1}) = IF d <= n - 1 THEN d ELSE n - 1
    BY <2>m, <2>n, MinOfTwo
  <2>5. r = (IF d <= n - 1 THEN d ELSE n - 1) + 1
    BY <2>4, <2>o
  <2>6. r \in 1 .. n
    BY <2>d, <2>5, <1>1
  <2> QED BY <2>1, <2>6 DEF r, n
<1>8. sampled[s + 1] \in lethal /\ \A j \in 1 .. s + 1 : Away(sampled[j], robot) <= CostmapMaxExtent
  BY <1>5, <1>6, <1>7, <1>1
<1>9. DOMAIN sampled = 1 .. S
  OBVIOUS
<1>10. isCollisionDetected(sampled, robot, lethal)
  <2> HIDE DEF sampled
  <2> QED BY <1>5, <1>8, <1>9 DEF isCollisionDetected
<1> QED BY <1>10

\* One call of computeVelocityCommands.
LEMMA ComputeInv ==
  ASSUME OmniInv, NEW robot \in Places, NEW turned \in BOOLEAN, NEW ratio \in Ratios,
         NEW lethal \in Costmaps, NEW tf \in {"ok", "noRobot", "noBase"},
         computeVelocityCommands(robot, turned, ratio, lethal, tf)
  PROVE  /\ OmniInv'
         /\ global_plan_ # <<>> =>
              \E k \in 1 .. Len(global_plan_) :
                 /\ global_plan_' = SubSeq(global_plan_, k, Len(global_plan_))
                 /\ IntegratedDistance(global_plan_, k) <= max_robot_pose_search_dist_
<1>r. robot \in Int /\ ratio \in Int
  BY OmniAssumption
<1>1. CASE global_plan_ = <<>> \/ tf = "noRobot"
  <2>1. Throw("no plan") /\ UNCHANGED global_plan_
    BY <1>1 DEF computeVelocityCommands
  <2>2. OmniInv'
    BY <2>1 DEF Throw, params, OmniInv, OmniTypes, LimitersNeverStopTheRobot, LongObstaclesAreMet
  <2>3. ASSUME global_plan_ # <<>>
        PROVE  /\ 1 \in 1 .. Len(global_plan_)
               /\ global_plan_' = SubSeq(global_plan_, 1, Len(global_plan_))
               /\ IntegratedDistance(global_plan_, 1) <= max_robot_pose_search_dist_
    <3>1. 1 \in 1 .. Len(global_plan_) /\ global_plan_ \in Seq(Int)
      BY <2>3 DEF OmniInv, OmniTypes
    <3>2. SubSeq(global_plan_, 1, Len(global_plan_)) = global_plan_
      BY <3>1, SubSeqFull
    <3>3. IntegratedDistance(global_plan_, 1) = 0
      BY Zenon DEF IntegratedDistance
    <3>4. IntegratedDistance(global_plan_, 1) <= max_robot_pose_search_dist_
      BY <3>3, OmniAssumption
    <3>5. global_plan_' = global_plan_
      BY <2>1
    <3> QED BY <3>1, <3>2, <3>4, <3>5
  <2> QED BY <2>2, <2>3
<1>2. CASE global_plan_ # <<>> /\ tf # "noRobot"
  <2> DEFINE pruned == Pruned(global_plan_, robot)
             plan == InExtent(pruned, robot)
             local == [i \in DOMAIN plan |-> IF tf = "ok" THEN plan[i] - robot ELSE 0]
             lin_dist == IF turned THEN 0 ELSE getLookAheadPoint(local)
             pid == calculate(lin_dist)
             bend == CurvatureLimited(pid, ratio)
             vel == Approaching(bend, local)
             sampled == [i \in 1 .. sample_points |->
                           IF tf = "ok" THEN plan[SampleIndex(i - 1, Len(plan))] ELSE 0]
             hit == isCollisionDetected(sampled, robot, lethal)
  <2>t. OmniTypes
    BY DEF OmniInv
  <2>1. pruned \in Seq(Int)
        /\ \E k \in 1 .. Len(global_plan_) :
              /\ pruned = SubSeq(global_plan_, k, Len(global_plan_))
              /\ IntegratedDistance(global_plan_, k) <= max_robot_pose_search_dist_
    BY <1>2, <1>r, <2>t, PrunedIsAPlan DEF OmniTypes
  <2>2. plan \in Seq(Int) /\ \A i \in DOMAIN plan : Away(plan[i], robot) <= CostmapMaxExtent
    <3> HIDE DEF pruned
    <3> QED BY <2>1, <1>r, ExtentHolds
  <2>3. /\ global_plan_' = pruned
        /\ \/ plan = <<>> /\ Throw("empty plan")
           \/ /\ plan # <<>>
              /\ move_pid_' = [integral |-> Clamp(move_pid_.integral + lin_dist, -MaxIntegral, MaxIntegral),
                               pre_error |-> lin_dist]
              /\ last_velocity_scaling_factor_' = bend
              /\ cycle' = [result |-> IF hit THEN "collision" ELSE "command", pid |-> pid, vel |-> vel,
                           plan |-> plan, robot |-> robot, lethal |-> lethal, tf |-> tf]
              /\ UNCHANGED params
    BY <1>2, Zenon DEF computeVelocityCommands
  <2> HIDE DEF pruned, plan
  <2>4. CASE plan = <<>> /\ Throw("empty plan")
    BY <2>t, <2>1, <2>3, <2>4 DEF Throw, params, OmniInv, OmniTypes, LimitersNeverStopTheRobot,
       LongObstaclesAreMet
  <2>5. CASE /\ plan # <<>>
             /\ move_pid_' = [integral |-> Clamp(move_pid_.integral + lin_dist, -MaxIntegral, MaxIntegral),
                              pre_error |-> lin_dist]
             /\ last_velocity_scaling_factor_' = bend
             /\ cycle' = [result |-> IF hit THEN "collision" ELSE "command", pid |-> pid, vel |-> vel,
                          plan |-> plan, robot |-> robot, lethal |-> lethal, tf |-> tf]
             /\ UNCHANGED params
    <3>1. local \in Seq(Int) /\ local # <<>>
      <4>1. /\ DOMAIN plan = 1 .. Len(plan) /\ Len(plan) \in Nat /\ Len(plan) # 0
            /\ \A i \in DOMAIN plan : plan[i] \in Int
        BY <2>2, <2>5
      <4>2. local \in [1 .. Len(plan) -> Int]
        BY <4>1, <1>r
      <4>3. local \in Seq(Int) /\ Len(local) = Len(plan)
        BY <4>1, <4>2
      <4> QED BY <4>1, <4>3
    <3> HIDE DEF local
    <3>2. lin_dist \in Int /\ pid \in Int
      BY <3>1, <2>t, SpeedsAreNumbers
    <3> HIDE DEF lin_dist, pid
    <3>3. bend \in Int /\ vel \in Int /\ vel <= pid /\ (pid > 0 => vel > 0)
      BY <3>1, <3>2, <2>t, LimitersLimit
    <3> HIDE DEF bend, vel
    <3>4. Clamp(move_pid_.integral + lin_dist, -MaxIntegral, MaxIntegral) \in Int
      BY <3>2, <2>t, OmniAssumption DEF OmniTypes, Clamp
    <3>5. OmniTypes'
      BY <2>t, <2>1, <2>3, <2>5, <3>2, <3>3, <3>4 DEF OmniTypes, params
    <3>6. /\ cycle'.vel = vel /\ cycle'.pid = pid /\ cycle'.plan = plan /\ cycle'.lethal = lethal
          /\ cycle'.tf = tf /\ cycle'.result = IF hit THEN "collision" ELSE "command"
      <4> HIDE DEF hit
      <4> QED BY <2>5
    <3>7. LimitersNeverStopTheRobot'
      BY <3>3, <3>6 DEF LimitersNeverStopTheRobot
    <3>8. LongObstaclesAreMet'
      <4> SUFFICES ASSUME ~hit, tf = "ok"
                   PROVE  LET n == Len(plan)
                              gap == (n + sample_points - 1) \div sample_points
                          IN  ~\E i \in 1 .. n - gap + 1 : \A j \in i .. i + gap - 1 : plan[j] \in lethal
        <5> HIDE DEF hit
        <5> QED BY <3>6 DEF LongObstaclesAreMet
      <4>1. sampled = [i \in 1 .. sample_points |-> plan[SampleIndex(i - 1, Len(plan))]]
        OBVIOUS
      <4> HIDE DEF sampled
      <4> QED BY <4>1, <2>2, <2>5, <1>r, SamplesAreClear
    <3> QED BY <3>5, <3>7, <3>8, <2>1, <2>3 DEF OmniInv
  <2> QED BY <2>3, <2>4, <2>5
<1> QED BY <1>1, <1>2

LEMMA OmniInvStep == OmniInv /\ [OmniNext]_omniVars => OmniInv'
<1> SUFFICES ASSUME OmniInv, [OmniNext]_omniVars PROVE OmniInv'
  OBVIOUS
<1>1. ASSUME NEW path \in Plans, setPlan(path) PROVE OmniInv'
  BY <1>1, OmniAssumption DEF setPlan, NoCycle, params, OmniInv, OmniTypes,
     LimitersNeverStopTheRobot, LongObstaclesAreMet
<1>2. CASE dynamicParametersCallback
  BY <1>2 DEF dynamicParametersCallback, NoCycle, OmniInv, OmniTypes,
     LimitersNeverStopTheRobot, LongObstaclesAreMet
<1>3. CASE UNCHANGED omniVars
  BY <1>3 DEF omniVars, params, OmniInv, OmniTypes, LimitersNeverStopTheRobot, LongObstaclesAreMet
<1> QED BY <1>1, <1>2, <1>3, ComputeInv DEF OmniNext

\* For every plan, costmap, gain and sampling rate: the limiters slow the robot down but
\* never stop it, an obstacle longer than the gap between samples is met, and pruning is
\* bounded by the search distance (computeVelocityCommands and what it calls).
THEOREM ControllerCorrect == OmniSpec => CycleIsBounded
<1>1. OmniInit => OmniInv
  <2>1. <<>> \in Seq(Int)
    OBVIOUS
  <2> QED BY <2>1 DEF OmniInit, NoCycle, OmniInv, OmniTypes, LimitersNeverStopTheRobot, LongObstaclesAreMet
<1>2. OmniInv /\ [OmniNext]_omniVars =>
        [(global_plan_ # <<>> /\ cycle'.result # "none") =>
           \E k \in 1 .. Len(global_plan_) :
              /\ global_plan_' = SubSeq(global_plan_, k, Len(global_plan_))
              /\ IntegratedDistance(global_plan_, k) <= max_robot_pose_search_dist_]_omniVars
  <2> SUFFICES ASSUME OmniInv, OmniNext, global_plan_ # <<>>, cycle'.result # "none"
               PROVE  \E k \in 1 .. Len(global_plan_) :
                         /\ global_plan_' = SubSeq(global_plan_, k, Len(global_plan_))
                         /\ IntegratedDistance(global_plan_, k) <= max_robot_pose_search_dist_
    OBVIOUS
  <2>1. ~dynamicParametersCallback /\ ~\E path \in Plans : setPlan(path)
    BY DEF dynamicParametersCallback, setPlan, NoCycle
  <2> QED BY <2>1, ComputeInv DEF OmniNext
<1>3. OmniInv => LimitersNeverStopTheRobot /\ LongObstaclesAreMet
  BY DEF OmniInv
<1>4. OmniSpec => []OmniInv
  BY <1>1, OmniInvStep, PTL DEF OmniSpec
<1> QED BY <1>2, <1>3, <1>4, PTL DEF OmniSpec, CycleIsBounded, PruningIsBounded
-----------------------------------------------------------------------------
(* The frames of the lidar driver.                                           *)

Stamped == [handle : Heads, time_stamp : Nat]

Rising(c) == \A i, j \in DOMAIN c : i < j => c[i] < c[j]

\* The type invariant of the frames.
FrameTypeOK ==
  /\ now \in Nat /\ sent \in [Heads -> Nat] /\ packets \in Nat
  /\ last_pub_time_ \in Nat /\ is_timestamp_sync_ \in BOOLEAN
  /\ raw_packet_queue_ \in Seq(Stamped)
  /\ points_clouds_ \in [Heads -> Seq(Nat)]
  /\ reached \in [Heads -> Nat]
  /\ ordered \in SUBSET Heads /\ steady \in SUBSET Heads

\* The points an ordered lidar holds back are in order, none later than its last one.
CloudsInOrder ==
  \A h \in ordered :
    /\ Rising(points_clouds_[h])
    /\ \A j \in DOMAIN points_clouds_[h] : points_clouds_[h][j] <= reached[h]

\* So are its points in the last frame, which are older than those held back.
PacketInOrder(p) ==
  /\ Rising(p.points)
  /\ \A j \in DOMAIN p.points :
       /\ p.points[j] <= reached[p.handle]
       /\ \A k \in DOMAIN points_clouds_[p.handle] : p.points[j] < points_clouds_[p.handle][k]

FrameInOrder ==
  \A p \in frame_ :
    /\ p.handle \in Heads /\ p.points \in Seq(Nat) /\ p.points # <<>>
    /\ p.base_time = p.points[1]
    /\ p.handle \in ordered => PacketInOrder(p)

\* The last frame of h ended at a, in the last millisecond of an interval, and k packets
\* have followed without a gap, too few to reach the end of the next one.
CutAt(h, a, k) ==
  /\ (a \div kRatioOfMsToNs) % publish_interval_ms_ = 0
  /\ reached[h] = a + 2 * k /\ k < publish_interval_ms_
  /\ k = 0 <=> points_clouds_[h] = <<>>
  /\ points_clouds_[h] # <<>> => points_clouds_[h][1] = a + 1

SteadyFromCut == \A h \in steady : \E a, k \in Nat : CutAt(h, a, k)

CutterInv == FrameTypeOK /\ CloudsInOrder /\ FrameInOrder /\ SteadyFromCut

LEMMA FrameInitially == FrameInit => CutterInv
<1> SUFFICES ASSUME FrameInit PROVE CutterInv
  OBVIOUS
<1> USE FrameAssumption DEF FrameInit
<1>1. FrameTypeOK
  <2>1. sent \in [Heads -> Nat]
    OBVIOUS
  <2>2. <<>> \in Seq(Stamped) /\ <<>> \in Seq(Nat)
    OBVIOUS
  <2> QED BY <2>1, <2>2 DEF FrameTypeOK
<1>2. CloudsInOrder /\ FrameInOrder /\ SteadyFromCut
  BY DEF CloudsInOrder, FrameInOrder, SteadyFromCut, Rising
<1> QED BY <1>1, <1>2 DEF CutterInv

\* A packet that arrives, with any stamp, and the host's clock change nothing that is held.
LEMMA PacketArrives ==
  ASSUME CutterInv,
         \/ \E h \in Heads, time_source, points \in BOOLEAN :
              OnLivoxLidarPointCloudCallback(h, time_source, points)
         \/ HostClock
  PROVE  CutterInv'
<1>1. UNCHANGED <<points_clouds_, last_pub_time_, frame_, reached, ordered, steady>>
  BY DEF OnLivoxLidarPointCloudCallback, HostClock
<1>2. FrameTypeOK'
  <2>1. CASE HostClock
    BY <2>1, FrameAssumption DEF HostClock, CutterInv, FrameTypeOK
  <2>2. ASSUME NEW h \in Heads, NEW time_source \in BOOLEAN, NEW points \in BOOLEAN,
               OnLivoxLidarPointCloudCallback(h, time_source, points)
        PROVE  FrameTypeOK'
    <3>0. FrameTypeOK /\ is_timestamp_sync_' \in BOOLEAN /\ packets' \in Nat /\ now' = now
      BY <2>2 DEF OnLivoxLidarPointCloudCallback, CutterInv, FrameTypeOK
    <3>1. CASE ~points
      BY <3>0, <3>1, <2>2, <1>1 DEF OnLivoxLidarPointCloudCallback, FrameTypeOK
    <3>2. CASE points
      <4>1. PICK t \in IF time_source THEN {sent[h] + g : g \in Gaps} \cap Nat ELSE {now} :
              /\ raw_packet_queue_' = Append(raw_packet_queue_, [handle |-> h, time_stamp |-> t])
              /\ sent' = IF time_source THEN [sent EXCEPT ![h] = t] ELSE sent
        BY <2>2, <3>2 DEF OnLivoxLidarPointCloudCallback
      <4>2. t \in Nat
        BY <3>0 DEF FrameTypeOK
      <4>3. [handle |-> h, time_stamp |-> t] \in Stamped
        BY <4>2 DEF Stamped
      <4>4. raw_packet_queue_' \in Seq(Stamped)
        BY <3>0, <4>1, <4>3 DEF FrameTypeOK
      <4>5. sent' \in [Heads -> Nat]
        BY <3>0, <4>1, <4>2 DEF FrameTypeOK
      <4> QED BY <3>0, <4>4, <4>5, <1>1 DEF FrameTypeOK
    <3> QED BY <3>1, <3>2
  <2> QED BY <2>1, <2>2
<1>3. CloudsInOrder' /\ FrameInOrder' /\ SteadyFromCut'
  BY <1>1 DEF CutterInv, CloudsInOrder, FrameInOrder, PacketInOrder, SteadyFromCut, CutAt, Rising
<1> QED BY <1>2, <1>3 DEF CutterInv

\* After a multiple of the interval the next one is an interval away.
LEMMA CutsFollow ==
  ASSUME NEW r \in Nat \ {0}, NEW a \in Nat, NEW b \in Nat,
         a % r = 0, a < b, b <= a + r
  PROVE  b % r = 0 <=> b = a + r
<1> DEFINE k == a \div r
           m == b \div r
<1>1. k \in Int /\ a % r = a - r * k
  BY DivisionBounds
<1>2. m \in Int /\ b % r = b - r * m /\ b % r \in 0 .. (r - 1)
  <2>1. m \in Int /\ b % r = b - r * m
    BY DivisionBounds
  <2>2. b % r \in 0 .. (r - 1)
    OBVIOUS
  <2> QED BY <2>1, <2>2
<1> HIDE DEF k, m
<1>3. r * k \in Int /\ r * m \in Int /\ a = r * k /\ r * (m - k) = r * m - r * k
  BY <1>1, <1>2
<1>4. m - k <= 0 => r * (m - k) <= 0
  BY <1>1, <1>2
<1>5. m - k >= 1 => r * (m - k) >= r
  BY <1>1, <1>2
<1>6. m - k >= 2 => r * (m - k) >= 2 * r
  BY <1>1, <1>2
<1>7. m - k <= 0 \/ m - k = 1 \/ m - k >= 2
  BY <1>1, <1>2
<1>8. ASSUME b % r = 0 PROVE b = a + r
  <2>1. b - a = r * (m - k) /\ b - a > 0
    BY <1>2, <1>3, <1>8
  <2> QED BY <2>1, <1>1, <1>2, <1>4, <1>5
<1>9. ASSUME b = a + r PROVE b % r = 0
  <2>1. b % r = r - r * (m - k) /\ r * (m - k) \in Int
    BY <1>1, <1>2, <1>3, <1>9
  <2>2. m - k = 1 => r * (m - k) = r
    OBVIOUS
  <2> QED BY <2>1, <2>2, <1>1, <1>2, <1>4, <1>6, <1>7
<1> QED BY <1>8, <1>9

-----------------------------------------------------------------------------
(* The packet that is processed next.                                        *)

\* What a sequence is with two members more.
LEMMA TwoMore ==
  ASSUME NEW s \in Seq(Nat), NEW x \in Nat, NEW y \in Nat
  PROVE  /\ s \o <<x, y>> \in Seq(Nat) /\ Len(s \o <<x, y>>) = Len(s) + 2
         /\ \A j \in 1 .. Len(s) : (s \o <<x, y>>)[j] = s[j]
         /\ (s \o <<x, y>>)[Len(s) + 1] = x /\ (s \o <<x, y>>)[Len(s) + 2] = y
OBVIOUS

Oldest == Head(raw_packet_queue_)
Grown == [points_clouds_ EXCEPT ![Oldest.handle] = PointCloudProcess(@, Oldest)]

\* Its points go to the end of its lidar's; the other lidars' stay.
LEMMA OldestPacket ==
  ASSUME FrameTypeOK, raw_packet_queue_ # <<>>
  PROVE  LET q == raw_packet_queue_
             h == Oldest.handle
             c == points_clouds_[h]
         IN  /\ Len(q) \in Nat \ {0} /\ 1 \in DOMAIN q /\ Oldest = q[1]
             /\ Oldest \in Stamped /\ h \in Heads /\ Oldest.time_stamp \in Nat
             /\ Tail(q) \in Seq(Stamped)
             /\ \A i \in DOMAIN Tail(q) : i + 1 \in DOMAIN q /\ Tail(q)[i] = q[i + 1]
             /\ \A i \in DOMAIN q : i # 1 => i - 1 \in DOMAIN Tail(q) /\ Tail(q)[i - 1] = q[i]
             /\ Grown \in [Heads -> Seq(Nat)]
             /\ \A g \in Heads : g # h => Grown[g] = points_clouds_[g]
             /\ c \in Seq(Nat) /\ Len(Grown[h]) = Len(c) + 2
             /\ \A j \in DOMAIN c : j \in DOMAIN Grown[h] /\ Grown[h][j] = c[j]
             /\ Grown[h][Len(c) + 1] = Oldest.time_stamp
             /\ Grown[h][Len(c) + 2] = Oldest.time_stamp + 1
<1> DEFINE q == raw_packet_queue_
           h == Oldest.handle
           c == points_clouds_[h]
<1>1. q \in Seq(Stamped) /\ points_clouds_ \in [Heads -> Seq(Nat)]
  BY DEF FrameTypeOK
<1>2. Len(q) \in Nat \ {0} /\ 1 \in DOMAIN q /\ Oldest = q[1] /\ Oldest \in Stamped
  BY <1>1 DEF Oldest
<1>3. h \in Heads /\ Oldest.time_stamp \in Nat
  BY <1>2 DEF Stamped
<1>4. /\ Tail(q) \in Seq(Stamped) /\ Len(Tail(q)) = Len(q) - 1
      /\ DOMAIN Tail(q) = 1 .. (Len(q) - 1) /\ DOMAIN q = 1 .. Len(q)
      /\ \A i \in 1 .. (Len(q) - 1) : Tail(q)[i] = q[i + 1]
  BY <1>1
<1>5. /\ \A i \in DOMAIN Tail(q) : i + 1 \in DOMAIN q /\ Tail(q)[i] = q[i + 1]
      /\ \A i \in DOMAIN q : i # 1 => i - 1 \in DOMAIN Tail(q) /\ Tail(q)[i - 1] = q[i]
  <2>1. ASSUME NEW i \in DOMAIN q, i # 1
        PROVE  i - 1 \in DOMAIN Tail(q) /\ Tail(q)[i - 1] = q[i]
    <3>1. i - 1 \in 1 .. (Len(q) - 1) /\ (i - 1) + 1 = i
      BY <1>2, <1>4, <2>1
    <3>2. Tail(q)[i - 1] = q[(i - 1) + 1]
      BY <1>4, <3>1
    <3> QED BY <1>4, <3>1, <3>2
  <2>2. ASSUME NEW i \in DOMAIN Tail(q)
        PROVE  i + 1 \in DOMAIN q /\ Tail(q)[i] = q[i + 1]
    BY <1>2, <1>4, <2>2
  <2> QED BY <2>1, <2>2
<1> DEFINE t == Oldest.time_stamp
           two == <<t, t + 1>>
<1>6. c \in Seq(Nat) /\ Len(c) \in Nat /\ DOMAIN c = 1 .. Len(c)
  BY <1>1, <1>3
<1>7. t \in Nat /\ t + 1 \in Nat
  BY <1>3
<1>8. Grown = [points_clouds_ EXCEPT ![h] = c \o two]
  BY DEF Grown, PointCloudProcess
<1> HIDE DEF q, h, c, t, two
<1>9. /\ c \o two \in Seq(Nat) /\ Len(c \o two) = Len(c) + 2
      /\ \A j \in 1 .. Len(c) : (c \o two)[j] = c[j]
      /\ (c \o two)[Len(c) + 1] = t /\ (c \o two)[Len(c) + 2] = t + 1
  BY <1>6, <1>7, TwoMore DEF two
<1>10. Grown[h] = c \o two /\ Grown \in [Heads -> Seq(Nat)]
       /\ \A g \in Heads : g # h => Grown[g] = points_clouds_[g]
  BY <1>1, <1>3, <1>8, <1>9
<1>11. \A j \in DOMAIN c : j \in DOMAIN Grown[h] /\ Grown[h][j] = c[j]
  <2>1. DOMAIN (c \o two) = 1 .. (Len(c) + 2)
    BY <1>9
  <2> QED BY <2>1, <1>6, <1>9, <1>10
<1>12. /\ Len(Grown[h]) = Len(c) + 2
       /\ Grown[h][Len(c) + 1] = t /\ Grown[h][Len(c) + 2] = t + 1
  BY <1>9, <1>10
<1> QED
  BY <1>2, <1>3, <1>4, <1>5, <1>6, <1>10, <1>11, <1>12 DEF q, h, c, t

\* With the packet's points added, either they are all held back or some lidars' leave.
HeldBack ==
  /\ Keep(Grown) /\ steady' \in SUBSET steady
  /\ Oldest.handle \in steady'
       => is_timestamp_sync_ /\ Follows(Oldest) /\ ~DueSynced(Grown[Oldest.handle])
CutOff(hs) ==
  /\ hs \in SUBSET Heads /\ Publish(Grown, hs)
  /\ \/ is_timestamp_sync_ /\ hs = {Oldest.handle} /\ DueSynced(Grown[Oldest.handle])
        /\ steady' = steady \cup {Oldest.handle}
     \/ ~is_timestamp_sync_ /\ steady' = {}

LEMMA HeldBackOrCut ==
  ASSUME FrameTypeOK, RawDataProcess
  PROVE  (HeldBack \/ \E hs \in SUBSET Heads : CutOff(hs)) /\ last_pub_time_' \in Nat
<1>0. /\ raw_packet_queue_ # <<>> /\ Oldest.handle \in Heads
      /\ now \in Nat /\ last_pub_time_ \in Nat /\ steady \in SUBSET Heads
  BY OldestPacket DEF RawDataProcess, FrameTypeOK
<1>1. CheckTimer(Oldest, Grown)
  BY DEF Oldest, Grown, RawDataProcess
<1>2. publish_interval_ \in Nat
  BY FrameAssumption DEF publish_interval_, kRatioOfMsToNs
<1> HIDE DEF Oldest, Grown
<1>3. CASE CheckSynced(Oldest, Grown)
  <2>1. CASE DueSynced(Grown[Oldest.handle])
    BY <2>1, <1>0, <1>3 DEF CutOff, CheckSynced
  <2>2. CASE ~DueSynced(Grown[Oldest.handle])
    BY <2>2, <1>0, <1>3 DEF HeldBack, CheckSynced
  <2> QED BY <2>1, <2>2
<1>4. CASE CheckUnsynced(Oldest, Grown)
  <2>1. CASE last_pub_time_ = 0 \/ now - last_pub_time_ < publish_interval_
    BY <2>1, <1>0, <1>4 DEF HeldBack, CheckUnsynced
  <2>2. CASE ~(last_pub_time_ = 0 \/ now - last_pub_time_ < publish_interval_)
    BY <2>2, <1>0, <1>2, <1>4 DEF CutOff, CheckUnsynced
  <2> QED BY <2>1, <2>2
<1> QED BY <1>1, <1>3, <1>4 DEF CheckTimer

\* What the packet does to the lidars' points, and to the history.
LEMMA PacketTaken ==
  ASSUME CutterInv, RawDataProcess, NEW h, h = Oldest.handle, NEW t, t = Oldest.time_stamp
  PROVE  /\ FrameTypeOK' /\ h \in Heads /\ t \in Nat
         /\ reached'[h] = t + 1 /\ \A g \in Heads : g # h => reached'[g] = reached[g]
         /\ ordered' = IF t > reached[h] THEN ordered ELSE ordered \ {h}
         /\ \A g \in Heads : points_clouds_'[g] = Grown[g] \/ points_clouds_'[g] = <<>>
<1>0. /\ raw_packet_queue_ # <<>> /\ raw_packet_queue_' = Tail(raw_packet_queue_)
      /\ UNCHANGED <<now, sent, packets, is_timestamp_sync_>>
      /\ reached' = [reached EXCEPT ![h] = t + 1] /\ FrameTypeOK
      /\ ordered' = IF t > reached[h] THEN ordered ELSE ordered \ {h}
  BY DEF RawDataProcess, CutterInv, Oldest
<1>1. /\ h \in Heads /\ t \in Nat /\ Tail(raw_packet_queue_) \in Seq(Stamped)
      /\ Grown \in [Heads -> Seq(Nat)]
  BY <1>0, OldestPacket
<1>2. /\ reached' \in [Heads -> Nat] /\ reached'[h] = t + 1
      /\ \A g \in Heads : g # h => reached'[g] = reached[g]
  BY <1>0, <1>1 DEF FrameTypeOK
<1>3. (HeldBack \/ \E hs \in SUBSET Heads : CutOff(hs)) /\ last_pub_time_' \in Nat
  BY <1>0, HeldBackOrCut
<1>4. /\ points_clouds_' \in [Heads -> Seq(Nat)] /\ steady' \in SUBSET Heads
      /\ \A g \in Heads : points_clouds_'[g] = Grown[g] \/ points_clouds_'[g] = <<>>
  <2>1. CASE HeldBack
    BY <2>1, <1>0, <1>1 DEF HeldBack, Keep, FrameTypeOK
  <2>2. ASSUME NEW hs \in SUBSET Heads, CutOff(hs)
        PROVE  /\ points_clouds_' \in [Heads -> Seq(Nat)] /\ steady' \in SUBSET Heads
               /\ \A g \in Heads : points_clouds_'[g] = Grown[g] \/ points_clouds_'[g] = <<>>
    <3>1. points_clouds_' = [g \in Heads |-> IF g \in hs THEN <<>> ELSE Grown[g]]
      BY <2>2 DEF CutOff, Publish
    <3>2. steady' \in SUBSET Heads
      BY <2>2, <1>0, <1>1 DEF CutOff, FrameTypeOK
    <3>3. <<>> \in Seq(Nat)
      OBVIOUS
    <3> QED BY <3>1, <3>2, <3>3, <1>1
  <2> QED BY <2>1, <2>2, <1>3
<1>5. ordered' \in SUBSET Heads
  BY <1>0 DEF FrameTypeOK
<1> QED BY <1>0, <1>1, <1>2, <1>3, <1>4, <1>5 DEF FrameTypeOK

\* The points of a lidar that stays ordered follow those it has.
LEMMA GrownInOrder ==
  ASSUME CutterInv, RawDataProcess, NEW g \in ordered'
  PROVE  /\ g \in ordered /\ reached[g] <= reached'[g]
         /\ Rising(Grown[g])
         /\ \A j \in DOMAIN Grown[g] : Grown[g][j] <= reached'[g]
         /\ \A x \in Nat : (x <= reached[g] /\ \A k \in DOMAIN points_clouds_[g] :
                                                x < points_clouds_[g][k])
                             => \A k \in DOMAIN Grown[g] : x < Grown[g][k]
<1> PICK h, t : h = Oldest.handle /\ t = Oldest.time_stamp
  OBVIOUS
<1>0. /\ raw_packet_queue_ # <<>> /\ FrameTypeOK /\ CloudsInOrder
  BY DEF RawDataProcess, CutterInv
<1>1. /\ h \in Heads /\ t \in Nat
      /\ reached'[h] = t + 1 /\ \A i \in Heads : i # h => reached'[i] = reached[i]
      /\ ordered' = IF t > reached[h] THEN ordered ELSE ordered \ {h}
  BY PacketTaken
<1>2. g \in ordered /\ g \in Heads /\ reached[g] \in Nat /\ points_clouds_[g] \in Seq(Nat)
  BY <1>0, <1>1 DEF FrameTypeOK
<1>3. /\ Rising(points_clouds_[g])
      /\ \A j \in DOMAIN points_clouds_[g] : points_clouds_[g][j] <= reached[g]
  BY <1>0, <1>2 DEF CloudsInOrder
<1>4. CASE g # h
  <2>1. Grown[g] = points_clouds_[g] /\ reached'[g] = reached[g]
    BY <1>0, <1>1, <1>2, <1>4, OldestPacket
  <2> QED BY <2>1, <1>2, <1>3
<1>5. CASE g = h
  <2> DEFINE c == points_clouds_[h]
  <2>1. t > reached[h]
    BY <1>1, <1>5
  <2>2. /\ c \in Seq(Nat) /\ Grown[h] \in Seq(Nat) /\ Len(Grown[h]) = Len(c) + 2
        /\ \A j \in DOMAIN c : Grown[h][j] = c[j]
        /\ Grown[h][Len(c) + 1] = t /\ Grown[h][Len(c) + 2] = t + 1
    BY <1>0, <1>1, OldestPacket
  <2>3. \A j \in DOMAIN c : c[j] \in Nat /\ c[j] <= reached[h] /\ c[j] < t
    <3>1. ASSUME NEW j \in DOMAIN c PROVE c[j] \in Nat /\ c[j] <= reached[h]
      BY <1>2, <1>3, <1>5, <3>1
    <3> QED BY <3>1, <2>1, <1>1, <1>2, <1>5
  <2>r. Rising(c)
    BY <1>3, <1>5
  <2> HIDE DEF c
  <2>4. Len(c) \in Nat /\ DOMAIN c = 1 .. Len(c) /\ DOMAIN Grown[h] = 1 .. (Len(c) + 2)
    BY <2>2
  <2>5. ASSUME NEW i \in DOMAIN Grown[h]
        PROVE  \/ i \in 1 .. Len(c) /\ Grown[h][i] = c[i]
               \/ i = Len(c) + 1 /\ Grown[h][i] = t
               \/ i = Len(c) + 2 /\ Grown[h][i] = t + 1
    <3>1. i \in 1 .. Len(c) \/ i = Len(c) + 1 \/ i = Len(c) + 2
      BY <2>4, <2>5
    <3> QED BY <3>1, <2>2, <2>4
  <2>6. ASSUME NEW i \in DOMAIN Grown[h], NEW j \in DOMAIN Grown[h], i < j
        PROVE  Grown[h][i] < Grown[h][j]
    <3>1. CASE j \in 1 .. Len(c)
      <4>1. i \in 1 .. Len(c)
        BY <3>1, <2>4, <2>6
      <4>2. Grown[h][i] = c[i] /\ Grown[h][j] = c[j]
        BY <4>1, <3>1, <2>2, <2>4
      <4> QED BY <4>1, <4>2, <3>1, <2>4, <2>6, <2>r DEF Rising
    <3>2. CASE j \notin 1 .. Len(c) /\ i \in 1 .. Len(c)
      <4>1. Grown[h][i] < t /\ Grown[h][i] \in Nat
        BY <3>2, <2>2, <2>3, <2>4
      <4>2. Grown[h][j] \in {t, t + 1}
        BY <3>2, <2>5
      <4> QED BY <4>1, <4>2, <1>1
    <3>3. CASE j \notin 1 .. Len(c) /\ i \notin 1 .. Len(c)
      <4>1. i = Len(c) + 1 /\ j = Len(c) + 2
        BY <3>3, <2>4, <2>6
      <4> QED BY <4>1, <2>2, <1>1
    <3> QED BY <3>1, <3>2, <3>3
  <2>7. ASSUME NEW j \in DOMAIN Grown[h] PROVE Grown[h][j] <= t + 1
    <3>1. j \in 1 .. Len(c) => c[j] \in Nat /\ c[j] < t
      BY <2>3, <2>4
    <3> QED BY <3>1, <2>5, <1>1
  <2>8. ASSUME NEW x \in Nat, x <= reached[h], \A k \in DOMAIN c : x < c[k],
               NEW k \in DOMAIN Grown[h]
        PROVE  x < Grown[h][k]
    <3>1. x < t
      BY <2>1, <2>8, <1>1, <1>2, <1>5
    <3>2. CASE k \in 1 .. Len(c)
      BY <3>2, <2>2, <2>4, <2>8
    <3>3. CASE k \notin 1 .. Len(c)
      <4>1. Grown[h][k] \in {t, t + 1}
        BY <3>3, <2>5
      <4> QED BY <3>1, <4>1, <1>1
    <3> QED BY <3>2, <3>3
  <2>9. Rising(Grown[h])
    BY <2>6 DEF Rising
  <2>10. reached[h] <= reached'[h]
    BY <2>1, <1>1, <1>2, <1>5
  <2> QED BY <2>7, <2>8, <2>9, <2>10, <1>1, <1>2, <1>5 DEF c
<1> QED BY <1>4, <1>5

\* What order there is survives, in what is held back and in the frame.
LEMMA OrderSurvives ==
  ASSUME CutterInv, RawDataProcess
  PROVE  CloudsInOrder' /\ FrameInOrder'
<1>0. /\ raw_packet_queue_ # <<>> /\ FrameTypeOK /\ FrameTypeOK'
      /\ CloudsInOrder /\ FrameInOrder /\ Grown \in [Heads -> Seq(Nat)]
      /\ \A g \in Heads : points_clouds_'[g] = Grown[g] \/ points_clouds_'[g] = <<>>
  BY PacketTaken, OldestPacket DEF RawDataProcess, CutterInv
<1>1. \A g \in ordered' :
        /\ g \in ordered /\ g \in Heads /\ reached[g] <= reached'[g]
        /\ reached[g] \in Nat /\ reached'[g] \in Nat
        /\ Rising(Grown[g])
        /\ \A j \in DOMAIN Grown[g] : Grown[g][j] <= reached'[g]
  BY <1>0, GrownInOrder DEF FrameTypeOK
<1>2. CloudsInOrder'
  <2>1. ASSUME NEW g \in ordered'
        PROVE  /\ Rising(points_clouds_'[g])
               /\ \A j \in DOMAIN points_clouds_'[g] : points_clouds_'[g][j] <= reached'[g]
    <3>1. CASE points_clouds_'[g] = Grown[g]
      BY <3>1, <1>1
    <3>2. CASE points_clouds_'[g] = <<>>
      BY <3>2 DEF Rising
    <3> QED BY <3>1, <3>2, <1>0, <1>1
  <2> QED BY <2>1 DEF CloudsInOrder, Rising
<1>3. ASSUME NEW p \in frame_'
      PROVE  /\ p.handle \in Heads /\ p.points \in Seq(Nat) /\ p.points # <<>>
             /\ p.base_time = p.points[1]
             /\ p.handle \in ordered' =>
                  /\ Rising(p.points)
                  /\ \A j \in DOMAIN p.points :
                       /\ p.points[j] <= reached'[p.handle]
                       /\ \A k \in DOMAIN points_clouds_'[p.handle] :
                            p.points[j] < points_clouds_'[p.handle][k]
  <2>1. ASSUME p \in frame_, HeldBack
        PROVE  /\ p.handle \in Heads /\ p.points \in Seq(Nat) /\ p.points # <<>>
               /\ p.base_time = p.points[1]
               /\ p.handle \in ordered' =>
                    /\ Rising(p.points)
                    /\ \A j \in DOMAIN p.points :
                         /\ p.points[j] <= reached'[p.handle]
                         /\ \A k \in DOMAIN points_clouds_'[p.handle] :
                              p.points[j] < points_clouds_'[p.handle][k]
    <3>1. /\ p.handle \in Heads /\ p.points \in Seq(Nat) /\ p.points # <<>>
          /\ p.base_time = p.points[1]
          /\ p.handle \in ordered => PacketInOrder(p)
      BY <2>1, <1>0 DEF FrameInOrder
    <3>2. points_clouds_' = Grown
      BY <2>1 DEF HeldBack, Keep
    <3>3. ASSUME p.handle \in ordered', NEW j \in DOMAIN p.points
          PROVE  /\ p.points[j] <= reached'[p.handle]
                 /\ \A k \in DOMAIN Grown[p.handle] : p.points[j] < Grown[p.handle][k]
      <4>1. /\ p.points[j] \in Nat /\ p.points[j] <= reached[p.handle]
            /\ \A k \in DOMAIN points_clouds_[p.handle] : p.points[j] < points_clouds_[p.handle][k]
        BY <3>1, <3>3, <1>1 DEF PacketInOrder
      <4>2. \A k \in DOMAIN Grown[p.handle] : p.points[j] < Grown[p.handle][k]
        BY <4>1, <3>3, GrownInOrder
      <4> QED BY <4>1, <4>2, <3>3, <1>1
    <3> QED BY <3>1, <3>2, <3>3, <1>1 DEF PacketInOrder
  <2>2. ASSUME NEW hs \in SUBSET Heads, CutOff(hs)
        PROVE  /\ p.handle \in Heads /\ p.points \in Seq(Nat) /\ p.points # <<>>
               /\ p.base_time = p.points[1]
               /\ p.handle \in ordered' =>
                    /\ Rising(p.points)
                    /\ \A j \in DOMAIN p.points :
                         /\ p.points[j] <= reached'[p.handle]
                         /\ \A k \in DOMAIN points_clouds_'[p.handle] :
                              p.points[j] < points_clouds_'[p.handle][k]
    <3>1. /\ frame_' = {Packet(g, Grown[g]) : g \in {g \in hs : Grown[g] # <<>>}}
          /\ points_clouds_' = [g \in Heads |-> IF g \in hs THEN <<>> ELSE Grown[g]]
      BY <2>2 DEF CutOff, Publish
    <3>2. PICK g \in hs : Grown[g] # <<>> /\ p = Packet(g, Grown[g])
      BY <3>1, <1>3
    <3>3. p.handle = g /\ p.points = Grown[g] /\ p.base_time = Grown[g][1]
      BY <3>2 DEF Packet, GetLidarBaseTime
    <3>4. g \in Heads /\ points_clouds_'[g] = <<>>
      BY <3>1, <3>2
    <3> QED BY <3>2, <3>3, <3>4, <1>0, <1>1
  <2>3. HeldBack => frame_' = frame_
    BY DEF HeldBack, Keep
  <2> QED BY <2>1, <2>2, <2>3, <1>0, <1>3, HeldBackOrCut
<1>4. FrameInOrder'
  BY <1>3 DEF FrameInOrder, PacketInOrder, Rising
<1> QED BY <1>2, <1>4

\* A packet that follows without a gap is the end of the interval or falls short of it.
LEMMA FollowedCut ==
  ASSUME CutterInv, raw_packet_queue_ # <<>>, NEW h, h = Oldest.handle, NEW c, c = Grown[h],
         Follows(Oldest), NEW a \in Nat, NEW k \in Nat, CutAt(h, a, k)
  PROVE  /\ Oldest.time_stamp = a + 2 * k + 1
         /\ c # <<>> /\ c[1] = a + 1 /\ c[Len(c)] = a + 2 * (k + 1)
         /\ DueSynced(c) <=> k + 1 = publish_interval_ms_
         /\ k + 1 <= publish_interval_ms_
<1> DEFINE r == publish_interval_ms_
           o == points_clouds_[h]
           t == Oldest.time_stamp
<1>0. r \in Nat \ {0} /\ FrameTypeOK
  BY FrameAssumption DEF CutterInv
<1>1. /\ o \in Seq(Nat) /\ c \in Seq(Nat) /\ Len(c) = Len(o) + 2 /\ h \in Heads /\ t \in Nat
      /\ \A j \in DOMAIN o : c[j] = o[j]
      /\ c[Len(o) + 1] = t /\ c[Len(o) + 2] = t + 1
  BY <1>0, OldestPacket
<1>2. /\ (a \div 2) % r = 0 /\ reached[h] = a + 2 * k /\ k < r /\ (k = 0 <=> o = <<>>)
      /\ o # <<>> => o[1] = a + 1
  BY DEF CutAt, kRatioOfMsToNs
<1>3. t = a + 2 * k + 1
  BY <1>2 DEF Follows
<1> HIDE DEF o, t, r
<1>4. Len(o) \in Nat /\ DOMAIN o = 1 .. Len(o)
  BY <1>1
<1>5. c # <<>> /\ c[Len(c)] = a + 2 * (k + 1)
  BY <1>1, <1>3, <1>4
<1>6. c[1] = a + 1
  <2>1. CASE o = <<>>
    <3>1. Len(o) = 0 /\ k = 0
      BY <2>1, <1>2
    <3> QED BY <3>1, <1>1, <1>3
  <2>2. CASE o # <<>>
    <3>1. 1 \in DOMAIN o
      BY <2>2, <1>1, <1>4
    <3> QED BY <3>1, <2>2, <1>1, <1>2
  <2> QED BY <2>1, <2>2
<1>7. GetRecentTimeStamp(c) = a + 2 * (k + 1) /\ GetLidarBaseTime(c) = a + 1
  BY <1>5, <1>6 DEF GetRecentTimeStamp, GetLidarBaseTime
<1>8. PICK m \in Nat : m = a \div 2
  BY DivisionBounds
<1>9. (a + 2 * (k + 1)) \div 2 = m + (k + 1)
  BY <1>8
<1>10. k + 1 <= r /\ m + (k + 1) \in Nat /\ m < m + (k + 1) /\ m + (k + 1) <= m + r
  BY <1>0, <1>2
<1>11. (m + (k + 1)) % r = 0 <=> m + (k + 1) = m + r
  BY <1>0, <1>2, <1>8, <1>10, CutsFollow
<1>12. publish_interval_tolerance_ = r * 2 - 2
  BY DEF publish_interval_tolerance_, publish_interval_, kRatioOfMsToNs, r
<1>13. k + 1 = r => ~((a + 2 * (k + 1)) - (a + 1) \in 0 .. publish_interval_tolerance_ - 1)
  <2>1. (a + 2 * (k + 1)) - (a + 1) = (k + 1) * 2 - 1
    OBVIOUS
  <2>2. \A d : d \in 0 .. (r * 2 - 2) - 1 => d < r * 2 - 1
    BY <1>0
  <2>3. k + 1 = r => ~((k + 1) * 2 - 1 < r * 2 - 1)
    BY <1>0
  <2> QED BY <2>1, <2>2, <2>3, <1>12
<1>14. DueSynced(c) <=> (m + (k + 1)) % r = 0 /\ m + (k + 1) # 0
                         /\ ~((a + 2 * (k + 1)) - (a + 1) \in 0 .. publish_interval_tolerance_ - 1)
  BY <1>7, <1>9 DEF DueSynced, kRatioOfMsToNs, r
<1>15. DueSynced(c) <=> k + 1 = r
  BY <1>0, <1>10, <1>11, <1>13, <1>14
<1> QED BY <1>3, <1>5, <1>6, <1>10, <1>15 DEF r, t

\* A lidar that is steady is so from a cut, and no end of an interval is passed over.
LEMMA SteadySurvives ==
  ASSUME CutterInv, RawDataProcess
  PROVE  SteadyFromCut'
<1> PICK h, t : h = Oldest.handle /\ t = Oldest.time_stamp
  OBVIOUS
<1>0. /\ raw_packet_queue_ # <<>> /\ FrameTypeOK /\ SteadyFromCut
      /\ publish_interval_ms_ \in Nat \ {0}
  BY FrameAssumption DEF RawDataProcess, CutterInv
<1>1. /\ h \in Heads /\ t \in Nat /\ reached'[h] = t + 1 /\ FrameTypeOK'
      /\ \A g \in Heads : g # h => reached'[g] = reached[g]
  BY PacketTaken
<1>2. /\ \A g \in Heads : g # h => Grown[g] = points_clouds_[g]
      /\ Grown \in [Heads -> Seq(Nat)]
  BY <1>0, OldestPacket
<1>3. ASSUME NEW g \in steady' PROVE \E a, k \in Nat : CutAt(g, a, k)'
  <2>0. g \in Heads
    BY <1>1, <1>3 DEF FrameTypeOK
  <2>1. CASE g # h
    <3>1. g \in steady /\ points_clouds_'[g] = points_clouds_[g]
      <4>1. CASE HeldBack
        BY <4>1, <2>0, <2>1, <1>2, <1>3 DEF HeldBack, Keep
      <4>2. ASSUME NEW hs \in SUBSET Heads, CutOff(hs)
            PROVE  g \in steady /\ points_clouds_'[g] = points_clouds_[g]
        <5>1. hs = {h} /\ g \in steady
          BY <4>2, <2>1, <1>3 DEF CutOff
        <5> QED BY <5>1, <4>2, <2>0, <2>1, <1>2 DEF CutOff, Publish
      <4> QED BY <4>1, <4>2, <1>0, HeldBackOrCut
    <3>2. PICK a \in Nat, k \in Nat : CutAt(g, a, k)
      BY <3>1, <1>0 DEF SteadyFromCut
    <3>3. CutAt(g, a, k)'
      BY <3>1, <3>2, <2>0, <2>1, <1>1 DEF CutAt
    <3> QED BY <3>3
  <2>2. CASE g = h /\ HeldBack
    <3>1. /\ h \in steady /\ Follows(Oldest) /\ ~DueSynced(Grown[h])
          /\ points_clouds_' = Grown
      BY <2>2, <1>3 DEF HeldBack, Keep
    <3>2. PICK a \in Nat, k \in Nat : CutAt(h, a, k)
      BY <3>1, <1>0 DEF SteadyFromCut
    <3>3. /\ t = a + 2 * k + 1 /\ Grown[h] # <<>> /\ Grown[h][1] = a + 1
          /\ k + 1 < publish_interval_ms_
      BY <3>1, <3>2, <1>0, FollowedCut
    <3>4. k + 1 \in Nat /\ k + 1 # 0 /\ reached'[h] = a + 2 * (k + 1)
      BY <3>3, <1>1
    <3>5. (a \div kRatioOfMsToNs) % publish_interval_ms_ = 0
      BY <3>2 DEF CutAt
    <3>6. CutAt(h, a, k + 1)'
      BY <3>1, <3>3, <3>4, <3>5 DEF CutAt
    <3> QED BY <3>4, <3>6, <2>2
  <2>3. ASSUME g = h, NEW hs \in SUBSET Heads, CutOff(hs)
        PROVE  \E a, k \in Nat : CutAt(g, a, k)'
    <3>1. hs = {h} /\ DueSynced(Grown[h])
      BY <2>3, <1>3 DEF CutOff
    <3>2. points_clouds_'[h] = <<>>
      BY <3>1, <2>3, <1>1 DEF CutOff, Publish
    <3>3. GetRecentTimeStamp(Grown[h]) = t + 1
      <4>1. /\ points_clouds_[h] \in Seq(Nat)
            /\ Len(Grown[h]) = Len(points_clouds_[h]) + 2
            /\ Grown[h][Len(points_clouds_[h]) + 2] = t + 1
        BY <1>0, OldestPacket
      <4>2. Grown[h] # <<>> /\ Grown[h][Len(Grown[h])] = t + 1
        BY <4>1
      <4> QED BY <4>2 DEF GetRecentTimeStamp
    <3>4. ((t + 1) \div kRatioOfMsToNs) % publish_interval_ms_ = 0
      BY <3>1, <3>3 DEF DueSynced
    <3>5. t + 1 \in Nat /\ t + 1 = t + 1 + 2 * 0 /\ 0 < publish_interval_ms_
      BY <1>0, <1>1
    <3>6. CutAt(h, t + 1, 0)'
      BY <3>2, <3>4, <3>5, <1>1 DEF CutAt
    <3> QED BY <3>5, <3>6, <2>3
  <2> QED BY <2>1, <2>2, <2>3, <1>0, HeldBackOrCut
<1> QED BY <1>3 DEF SteadyFromCut

THEOREM FrameInvariance == FrameSpec => []CutterInv
<1>1. CutterInv /\ [FrameNext]_frameVars => CutterInv'
  <2> SUFFICES ASSUME CutterInv, [FrameNext]_frameVars PROVE CutterInv'
    OBVIOUS
  <2>1. CASE RawDataProcess
    BY <2>1, PacketTaken, OrderSurvives, SteadySurvives DEF CutterInv
  <2>2. CASE UNCHANGED frameVars
    BY <2>2 DEF frameVars, CutterInv, FrameTypeOK, CloudsInOrder, FrameInOrder, PacketInOrder,
                SteadyFromCut, CutAt, Rising
  <2> QED BY <2>1, <2>2, PacketArrives DEF FrameNext
<1> QED BY FrameInitially, <1>1, PTL DEF FrameSpec

\* What the invariant says of the last frame: its messages give every point its time.
LEMMA FrameKeepsTime == CutterInv => OffsetsStartAtBase
<1> SUFFICES ASSUME CutterInv, NEW p \in frame_
             PROVE  LET c == p.points \o points_clouds_[p.handle]
                        custom == CustomMsg(p)
                        cloud == Pointcloud2Msg(p)
                    IN  /\ p.points # <<>> /\ custom.offset_time[1] = 0
                        /\ cloud.stamp = cloud.timestamp[1] /\ cloud.stamp = custom.timebase
                        /\ \A j \in DOMAIN p.points :
                             cloud.timestamp[j] - cloud.stamp \in 0 .. OffsetRange - 1
                               => custom.timebase + custom.offset_time[j] = cloud.timestamp[j]
                        /\ p.handle \in ordered => \A j \in 1 .. Len(c) - 1 : c[j] < c[j + 1]
  BY DEF OffsetsStartAtBase
<1> DEFINE s == p.points
           o == points_clouds_[p.handle]
<1>1. /\ s \in Seq(Nat) /\ s # <<>> /\ p.base_time = s[1]
      /\ o \in Seq(Nat)
      /\ p.handle \in ordered =>
           /\ Rising(s) /\ Rising(o)
           /\ \A j \in DOMAIN s : \A k \in DOMAIN o : s[j] < o[k]
  BY DEF CutterInv, FrameInOrder, PacketInOrder, CloudsInOrder, FrameTypeOK
<1>2. /\ CustomMsg(p).timebase = s[1] /\ Pointcloud2Msg(p).stamp = s[1]
      /\ Pointcloud2Msg(p).timestamp = s
      /\ CustomMsg(p).offset_time = [i \in DOMAIN s |-> (s[i] - s[1]) % OffsetRange]
  BY <1>1 DEF CustomMsg, Pointcloud2Msg
<1> HIDE DEF s, o
<1>3. 1 \in DOMAIN s /\ DOMAIN s = 1 .. Len(s) /\ Len(s) \in Nat
  BY <1>1
<1>4. ASSUME NEW j \in DOMAIN s
      PROVE  /\ s[j] \in Nat /\ s[1] \in Nat
             /\ s[j] - s[1] \in 0 .. OffsetRange - 1
                  => (s[j] - s[1]) % OffsetRange = s[j] - s[1]
  <2>1. s[j] \in Nat /\ s[1] \in Nat
    BY <1>1, <1>3
  <2>2. \A d \in 0 .. OffsetRange - 1 : d % OffsetRange = d
    BY DEF OffsetRange
  <2> QED BY <2>1, <2>2
<1>5. CustomMsg(p).offset_time[1] = 0
  BY <1>2, <1>3, <1>4 DEF OffsetRange
<1>6. \A j \in DOMAIN s : s[j] - s[1] \in 0 .. OffsetRange - 1
        => CustomMsg(p).timebase + CustomMsg(p).offset_time[j] = s[j]
  BY <1>2, <1>4
<1>7. ASSUME p.handle \in ordered, NEW j \in 1 .. Len(s \o o) - 1
      PROVE  (s \o o)[j] < (s \o o)[j + 1]
  <2>1. /\ Len(o) \in Nat /\ DOMAIN o = 1 .. Len(o) /\ Len(s \o o) = Len(s) + Len(o)
        /\ \A i \in 1 .. Len(s) + Len(o) :
             (s \o o)[i] = IF i <= Len(s) THEN s[i] ELSE o[i - Len(s)]
    BY <1>1
  <2>2. j \in 1 .. Len(s) + Len(o) /\ j + 1 \in 1 .. Len(s) + Len(o)
    BY <2>1, <1>3
  <2>3. CASE j + 1 <= Len(s)
    <3>1. j \in DOMAIN s /\ j + 1 \in DOMAIN s /\ j < j + 1 /\ j <= Len(s)
      BY <2>2, <2>3, <1>3
    <3> QED BY <3>1, <2>1, <2>2, <2>3, <1>1, <1>7 DEF Rising
  <2>4. CASE j = Len(s)
    <3>1. j \in DOMAIN s /\ 1 \in DOMAIN o /\ j + 1 - Len(s) = 1 /\ ~(j + 1 <= Len(s))
      BY <2>1, <2>2, <2>4, <1>3
    <3> QED BY <3>1, <2>1, <2>2, <2>4, <1>1, <1>7
  <2>5. CASE j > Len(s)
    <3>1. j - Len(s) \in DOMAIN o /\ j + 1 - Len(s) \in DOMAIN o
          /\ j - Len(s) < j + 1 - Len(s) /\ ~(j <= Len(s)) /\ ~(j + 1 <= Len(s))
      BY <2>1, <2>2, <2>5, <1>3
    <3>2. (s \o o)[j] = o[j - Len(s)] /\ (s \o o)[j + 1] = o[j + 1 - Len(s)]
      BY <3>1, <2>1, <2>2
    <3>3. o[j - Len(s)] < o[j + 1 - Len(s)]
      BY <3>1, <1>1, <1>7 DEF Rising
    <3> QED BY <3>2, <3>3
  <2>6. j \in Nat /\ Len(s) \in Nat
    BY <2>2, <1>3
  <2>7. j + 1 <= Len(s) \/ j = Len(s) \/ j > Len(s)
    BY <2>6
  <2> QED BY <2>3, <2>4, <2>5, <2>7
<1> QED BY <1>1, <1>2, <1>5, <1>6, <1>7 DEF s, o

\* A synchronised frame that follows another one of its lidar is one interval long.
LEMMA SyncedFrameIsShort ==
  ASSUME CutterInv, RawDataProcess, frame_' # frame_, is_timestamp_sync_, NEW p \in frame_',
         p.handle \in steady, Follows(Head(raw_packet_queue_))
  PROVE  p.points[Len(p.points)] - p.base_time
           \in publish_interval_tolerance_ .. publish_interval_ - 1
<1>1. raw_packet_queue_ # <<>> /\ FrameTypeOK /\ SteadyFromCut /\ Follows(Oldest)
  BY DEF RawDataProcess, CutterInv, Oldest
<1>2. PICK h, c : h = Oldest.handle /\ c = Grown[h]
  OBVIOUS
<1>3. h \in Heads /\ CutOff({h}) /\ DueSynced(c)
  BY <1>1, <1>2, HeldBackOrCut, OldestPacket DEF CutOff, HeldBack, Keep
<1>4. frame_' = {Packet(g, Grown[g]) : g \in {g \in {h} : Grown[g] # <<>>}}
  BY <1>3 DEF CutOff, Publish
<1>5. p = Packet(h, c)
  BY <1>2, <1>4
<1>6. p.handle = h /\ p.points = c /\ p.base_time = GetLidarBaseTime(c)
  BY <1>5 DEF Packet
<1>7. PICK a \in Nat, k \in Nat : CutAt(h, a, k)
  BY <1>1, <1>6 DEF SteadyFromCut
<1>8. /\ c # <<>> /\ c[1] = a + 1 /\ c[Len(c)] = a + 2 * (k + 1)
      /\ k + 1 = publish_interval_ms_
  BY <1>1, <1>2, <1>3, <1>7, FollowedCut
<1>9. p.points[Len(p.points)] - p.base_time = 2 * publish_interval_ms_ - 1
  BY <1>6, <1>8 DEF GetLidarBaseTime
<1> QED BY <1>9, FrameAssumption
        DEF kRatioOfMsToNs, publish_interval_, publish_interval_tolerance_

(* The property of the frames (pub_handler.cpp, lddc.cpp), whatever stamps the packets    *)
(* carry and however the host's clock moves: a message gives its points their times from  *)
(* its own time base, those of a lidar whose stamps only grow are in order, and a frame   *)
(* of a lidar that follows another, without a gap or a check without time source between  *)
(* them, is one publish interval long.                                                    *)
THEOREM FramesCorrect == FrameSpec => FramesKeepTime
<1>1. CutterInv /\ CutterInv' /\ [FrameNext]_frameVars
        => [OffsetsStartAtBase' /\ SyncedFramesAreOneInterval]_frameVars
  <2> SUFFICES ASSUME CutterInv, CutterInv', FrameNext
               PROVE  OffsetsStartAtBase' /\ SyncedFramesAreOneInterval
    OBVIOUS
  <2>1. OffsetsStartAtBase'
    <3>1. CutterInv' => OffsetsStartAtBase'
      BY FrameKeepsTime, PTL
    <3> QED BY <3>1
  <2>2. frame_' # frame_ => RawDataProcess
    BY DEF FrameNext, OnLivoxLidarPointCloudCallback, HostClock
  <2> QED BY <2>1, <2>2, SyncedFrameIsShort DEF SyncedFramesAreOneInterval
<1> QED BY <1>1, FrameInvariance, PTL DEF FrameSpec, FramesKeepTime
=============================================================================

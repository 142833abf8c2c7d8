------------------------------ MODULE PointMap ------------------------------
(***************************************************************************)
(* What the incremental k-d tree of FAST_LIO promises: a bag of points     *)
(* with insertion, voxel-wise down-sampling, deletion by point and by box, *)
(* and exact searches by box, by radius and for nearest neighbours.  How   *)
(* the points are arranged, which deletions are still lazy and when a part *)
(* is rebuilt do not show; only that a rebuild reports the deleted points  *)
(* it drops as removed.                                                    *)
(***************************************************************************)
EXTENDS PointGeometry, Bags, BagsExt

CONSTANTS
    Candidates,  \* the points that are inserted and deleted
    Centres,     \* the points whose neighbours are searched for
    Boxes,       \* the boxes that are deleted
    K,           \* the number of neighbours a nearest search asks for
    Radii        \* the radii of searches

VARIABLES
    points,    \* the bag of points in the map
    hidden,    \* deleted points whose nodes still exist
    removed,   \* points reported by the next acquire_removed_points
    answer     \* the last question about the points, and its answer

mapVars == <<points, hidden, removed, answer>>

\* The part of a bag whose elements satisfy a condition.
Within(bag, Cond(_)) == [p \in {q \in DOMAIN bag : Cond(q)} |-> bag[p]]

\* Deleted points may be forgotten in any step, by a rebuild, which reports
\* them.
Forget(before) ==
    /\ hidden' \sqsubseteq before
    /\ removed' = removed (+) (before (-) hidden')

\* A down-sampling also swallows points that were deleted before, and they are
\* never reported.
Swallow ==
    /\ removed \sqsubseteq removed'
    /\ hidden' (+) (removed' (-) removed) \sqsubseteq hidden

MapInit ==
    /\ points = EmptyBag /\ hidden = EmptyBag /\ removed = EmptyBag
    /\ answer = [to |-> "nothing", bag |-> EmptyBag]

MapBuild(S) ==
    /\ points = EmptyBag
    /\ points' = SetToBag(S)
    /\ UNCHANGED <<hidden, removed, answer>>

MapInsert(p) ==
    /\ points' = BagAdd(points, p)
    /\ Forget(hidden)
    /\ UNCHANGED answer

\* One point per voxel survives, the nearest to its middle; a point that is
\* already alone there and nearer makes the insertion void.
MapInsertSampled(p) ==
    LET b == VoxelOf(p)
        old == Within(points, LAMBDA q : InBox(q, b))
        near(q) == Dist(q, Mid(b))
        best == {q \in DOMAIN old \union {p} :
                    \A r \in DOMAIN old \union {p} : near(q) <= near(r)}
    IN  /\ \E q \in best :
             /\ p \in best => q = p
             /\ points' = IF BagCardinality(old) > 1 \/ q = p
                            THEN BagAdd(points (-) old, q)
                            ELSE points
        /\ Swallow
        /\ UNCHANGED answer

MapDeleteBox(b) ==
    LET gone == Within(points, LAMBDA q : InBox(q, b))
    IN  /\ points' = points (-) gone
        /\ Forget(hidden (+) gone)
        /\ answer' = [to |-> "delete", bag |-> SetToBag({BagCardinality(gone)})]

\* One copy of the point goes, or nothing happens: the map does not promise to
\* find a point that ties with another one.
MapDelete(p) ==
    /\ \E gone \in {EmptyBag, SetToBag({p})} :
         /\ gone \sqsubseteq points
         /\ points' = points (-) gone
         /\ Forget(hidden (+) gone)
    /\ UNCHANGED answer

\* Searches by box and by radius find exactly the points inside.
MapRange(kind, Inside(_)) ==
    /\ answer' = [to |-> kind, bag |-> Within(points, Inside)]
    /\ UNCHANGED <<points, hidden, removed>>

MapBox(b) == MapRange("box", LAMBDA q : InBox(q, b))
MapRadius(p, r) == MapRange("radius", LAMBDA q : Dist(p, q) <= Sq(r))

\* The distances of the K nearest points, fewer when the map holds fewer.
MapNearest(p) ==
    LET dists == {Dist(p, q) : q \in DOMAIN points}
        count(d) == BagCardinality(Within(points, LAMBDA q : Dist(p, q) = d))
        all == [d \in dists |-> count(d)]
    IN  /\ answer'.to = "nearest"
        /\ answer'.bag \sqsubseteq all
        /\ BagCardinality(answer'.bag) =
             IF BagCardinality(all) < K THEN BagCardinality(all) ELSE K
        /\ \A d \in DOMAIN answer'.bag, e \in DOMAIN (all (-) answer'.bag) : d <= e
        /\ UNCHANGED <<points, hidden, removed>>

MapAcquire ==
    /\ answer' = [to |-> "acquire", bag |-> removed]
    /\ removed' = EmptyBag
    /\ UNCHANGED <<points, hidden>>

MapNext ==
    \/ \E S \in SUBSET Candidates : S # {} /\ MapBuild(S)
    \/ \E p \in Candidates :
         MapInsert(p) \/ MapInsertSampled(p) \/ MapDelete(p)
    \/ \E p \in Centres : MapNearest(p) \/ \E r \in Radii : MapRadius(p, r)
    \/ \E b \in Boxes : MapDeleteBox(b) \/ MapBox(b)
    \/ MapAcquire

MapSpec == MapInit /\ [][MapNext]_mapVars
=============================================================================

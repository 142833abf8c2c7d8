------------------------------ MODULE IkdTree ------------------------------
(***************************************************************************)
(* The incremental k-d tree that holds the map of FAST_LIO, as the thread  *)
(* that owns the map runs it: lazy deletion flags that are pushed down one *)
(* level at a time, counters and bounding boxes that are pulled up, and    *)
(* the rebuild of a subtree that is out of balance or mostly deleted.      *)
(*                                                                         *)
(* A node is a record and a null pointer the record Nil, whose fields are  *)
(* neutral in Update.  Storage vectors are bags; nth_element may put       *)
(* points with the same coordinate on either side, which "flip" chooses.   *)
(* Subtrees of Multi_Thread_Rebuild_Point_Num points or more are rebuilt   *)
(* by another thread: see IkdRebuild.                                      *)
(***************************************************************************)
EXTENDS PointGeometry, Sequences, FiniteSets, Bags, BagsExt, SequencesExt

CONSTANTS
    Candidates,    \* the points that are inserted and deleted
    Centres,       \* the points whose neighbours are searched for
    Boxes,         \* the boxes that are deleted
    K,             \* the number of neighbours a nearest search asks for
    Radii,         \* the radii of searches
    MinUnbalanced, \* Minimal_Unbalanced_Tree_Size
    DeletePct,     \* delete_criterion_param, in percent
    BalancePct,    \* balance_criterion_param, in percent
    MaxTreeOps     \* bound on the number of changes of the tree

VARIABLES
    root,           \* Root_Node
    Points_deleted, \* points a rebuild has dropped
    found,          \* the last question about the points, and its answer
    treeOps,        \* the number of changes so far
    live,           \* auxiliary: the points of root that are not deleted
    buried          \* auxiliary: the others, except the down-sampled ones

treeVars == <<root, Points_deleted, found, treeOps, live, buried>>

-----------------------------------------------------------------------------
(* Nodes.                                                                    *)

Nil == [TreeSize |-> 0, invalid |-> 0, down |-> 0, tree_del |-> TRUE, tree_ds |-> TRUE]
IsNil(t) == t.TreeSize = 0

\* A subtree that is deleted does not count for the range, unless all of it is.
Update(t) ==
    LET sons == {s \in {t.left, t.right} : ~IsNil(s)}
        tree_del == t.left.tree_del /\ t.right.tree_del /\ t.point_del
        whole == tree_del \/ (~t.point_del /\ \A s \in sons : ~s.tree_del)
        own == IF whole \/ ~t.point_del
                 THEN {[lo |-> t.point, hi |-> t.point]} ELSE {}
    IN [t EXCEPT
          !.TreeSize = t.left.TreeSize + t.right.TreeSize + 1,
          !.invalid = t.left.invalid + t.right.invalid + (IF t.point_del THEN 1 ELSE 0),
          !.down = t.left.down + t.right.down + (IF t.point_ds THEN 1 ELSE 0),
          !.tree_ds = t.left.tree_ds /\ t.right.tree_ds /\ t.point_ds,
          !.tree_del = tree_del,
          !.range = Hull(own \union {s.range : s \in {s \in sons : whole \/ ~s.tree_del}})]

InitTreeNode(p, axis, l, r) ==
    Update([point |-> p, axis |-> axis, TreeSize |-> 0, invalid |-> 0, down |-> 0,
            point_del |-> FALSE, tree_del |-> FALSE, point_ds |-> FALSE,
            tree_ds |-> FALSE, push_left |-> FALSE, push_right |-> FALSE,
            range |-> [lo |-> p, hi |-> p], left |-> l, right |-> r])

\* The longest axis of the points; the first one of equals.
DivisionAxis(S) ==
    LET h == Hull({[lo |-> S[i], hi |-> S[i]] : i \in DOMAIN S})
        len(a) == h.hi[a] - h.lo[a]
    IN CHOOSE a \in Axes : /\ \A b \in Axes : len(b) <= len(a)
                           /\ \A b \in 1..(a - 1) : len(b) < len(a)

\* The order nth_element may leave points in: along axis a, and points with
\* the same coordinate in one of two orders.
Before(p, q, a, flip) ==
    LET b == (a % 3) + 1
        c == (b % 3) + 1
        first == IF flip THEN q ELSE p
        second == IF flip THEN p ELSE q
    IN  \/ p[a] < q[a]
        \/ p[a] = q[a] /\ first[b] < second[b]
        \/ p[a] = q[a] /\ p[b] = q[b] /\ first[c] < second[c]

RECURSIVE BuildTree(_, _)
BuildTree(S, flip) ==
    IF S = <<>> THEN Nil
    ELSE LET a == DivisionAxis(S)
             T == SortSeq(S, LAMBDA p, q : Before(p, q, a, flip))
             mid == ((Len(S) - 1) \div 2) + 1
         IN InitTreeNode(T[mid], a, BuildTree(SubSeq(T, 1, mid - 1), flip),
                                    BuildTree(SubSeq(T, mid + 1, Len(T)), flip))

(* Mutant: the flags stop at the son and never reach the son's own sons. *)
PushedOnce(t, s) ==
    LET del == t.tree_del \/ s.tree_ds \/ t.tree_ds
    IN [s EXCEPT !.tree_ds = @ \/ t.tree_ds, !.point_ds = @ \/ t.tree_ds,
                 !.tree_del = del, !.point_del = del \/ s.point_ds,
                 !.down = IF t.tree_ds THEN s.TreeSize ELSE s.down,
                 !.invalid = IF t.tree_del \/ t.tree_ds THEN s.TreeSize ELSE s.down]

\* The lazy flags of a node, applied to one of its sons.
Pushed(t, s) ==
    LET tree_ds == s.tree_ds \/ t.tree_ds
        point_ds == s.point_ds \/ t.tree_ds
        tree_del == t.tree_del \/ tree_ds
        down == IF t.tree_ds THEN s.TreeSize ELSE s.down
    IN [s EXCEPT !.tree_ds = tree_ds, !.point_ds = point_ds,
                 !.tree_del = tree_del, !.point_del = tree_del \/ point_ds,
                 !.down = down,
                 !.invalid = IF t.tree_del THEN s.TreeSize ELSE down,
                 !.push_left = TRUE, !.push_right = TRUE]

\* A flag for a son that does not exist stays set.
Push_Down(t) ==
    LET toLeft == t.push_left /\ ~IsNil(t.left)
        toRight == t.push_right /\ ~IsNil(t.right)
    IN [t EXCEPT !.left = IF toLeft THEN Pushed(t, @) ELSE @,
                 !.right = IF toRight THEN Pushed(t, @) ELSE @,
                 !.push_left = @ /\ ~toLeft,
                 !.push_right = @ /\ ~toRight]

\* The points flatten keeps, and the ones it records as deleted.
RECURSIVE flatten(_)
flatten(t) ==
    IF IsNil(t) THEN [kept |-> <<>>, gone |-> <<>>]
    ELSE LET u == Push_Down(t)
             l == flatten(u.left)
             r == flatten(u.right)
         IN [kept |-> (IF u.point_del THEN <<>> ELSE <<u.point>>) \o l.kept \o r.kept,
             gone |-> l.gone \o r.gone \o
                        (IF u.point_del /\ ~u.point_ds THEN <<u.point>> ELSE <<>>)]

Criterion_Check(t) ==
    LET son == IF IsNil(t.left) THEN t.right ELSE t.left
    IN  /\ t.TreeSize > MinUnbalanced
        /\ \/ 100 * t.invalid > DeletePct * t.TreeSize
           \/ 100 * son.TreeSize > BalancePct * (t.TreeSize - 1)
           \/ 100 * son.TreeSize < (100 - BalancePct) * (t.TreeSize - 1)

\* The end of every change on its way up: Update, and Rebuild where needed.
\* A change is described by the new subtree, the points a rebuild dropped and
\* the number of points deleted.
Settle(t, gone, n, allow_rebuild, flip) ==
    LET u == Update(t)
        f == flatten(u)
    IN IF allow_rebuild /\ Criterion_Check(u)
         THEN [tree |-> BuildTree(f.kept, flip), gone |-> gone \o f.gone, n |-> n]
         ELSE [tree |-> u, gone |-> gone, n |-> n]

-----------------------------------------------------------------------------
(* Changes.                                                                  *)

Unchanged(t) == [tree |-> t, gone |-> <<>>, n |-> 0]

RECURSIVE Delete_by_range(_, _, _, _)
Delete_by_range(t, b, ds, flip) ==
    IF IsNil(t) \/ t.tree_del THEN Unchanged(t)
    ELSE
      LET u == Push_Down(t)
          hit == ~u.point_del /\ InBox(u.point, b)
          l == Delete_by_range(u.left, b, ds, flip)
          r == Delete_by_range(u.right, b, ds, flip)
      IN CASE Disjoint(b, u.range) -> Unchanged(u)
           [] Covers(b, u.range) ->
                [tree |-> [u EXCEPT !.tree_del = TRUE, !.point_del = TRUE,
                                    !.push_left = TRUE, !.push_right = TRUE,
                                    !.invalid = u.TreeSize,
                                    !.tree_ds = @ \/ ds, !.point_ds = @ \/ ds,
                                    !.down = IF ds THEN u.TreeSize ELSE @],
                 gone |-> <<>>, n |-> u.TreeSize - u.invalid]
           [] OTHER ->
                Settle([u EXCEPT !.point_del = @ \/ hit,
                                 !.point_ds = @ \/ (hit /\ ds),
                                 !.left = l.tree, !.right = r.tree],
                       l.gone \o r.gone, l.n + r.n + (IF hit THEN 1 ELSE 0), TRUE, flip)

RECURSIVE Add_by_point(_, _, _, _)
Add_by_point(t, p, father_axis, flip) ==
    IF IsNil(t) THEN Unchanged(InitTreeNode(p, (father_axis % 3) + 1, Nil, Nil))
    ELSE
      LET u == Push_Down(t)
      IN IF p[u.axis] < u.point[u.axis]
           THEN LET l == Add_by_point(u.left, p, u.axis, flip)
                IN Settle([u EXCEPT !.left = l.tree], l.gone, 0, TRUE, flip)
           ELSE LET r == Add_by_point(u.right, p, u.axis, flip)
                IN Settle([u EXCEPT !.right = r.tree], r.gone, 0, TRUE, flip)

\* Where a point ties with the one of its node, it is sought on the right,
\* while a rebuild may have put it on the left: then it is not found.
RECURSIVE Delete_by_point(_, _, _)
Delete_by_point(t, p, flip) ==
    IF IsNil(t) \/ t.tree_del THEN Unchanged(t)
    ELSE
      LET u == Push_Down(t)
          left == p[u.axis] < u.point[u.axis]
          son == Delete_by_point(IF left THEN u.left ELSE u.right, p, flip)
      IN IF u.point = p /\ ~u.point_del
           THEN Unchanged([u EXCEPT !.point_del = TRUE, !.invalid = @ + 1,
                                    !.tree_del = @ \/ u.invalid + 1 = u.TreeSize])
           ELSE Settle([u EXCEPT !.left = IF left THEN son.tree ELSE @,
                                 !.right = IF left THEN @ ELSE son.tree],
                       son.gone, 0, TRUE, flip)

-----------------------------------------------------------------------------
(* Searches.  They push flags down on their way and report the new tree.     *)

RECURSIVE Flattened(_)
Flattened(t) ==
    IF IsNil(t) THEN t
    ELSE LET u == Push_Down(t)
         IN [u EXCEPT !.left = Flattened(@), !.right = Flattened(@)]

RECURSIVE Search_by_range(_, _)
Search_by_range(t, b) ==
    IF IsNil(t) THEN [tree |-> t, out |-> <<>>]
    ELSE
      LET u == Push_Down(t)
          l == Search_by_range(u.left, b)
          r == Search_by_range(u.right, b)
      IN CASE Disjoint(b, u.range) -> [tree |-> u, out |-> <<>>]
           [] Covers(b, u.range) -> [tree |-> Flattened(u), out |-> flatten(u).kept]
           [] OTHER ->
                [tree |-> [u EXCEPT !.left = l.tree, !.right = r.tree],
                 out |-> (IF InBox(u.point, b) /\ ~u.point_del THEN <<u.point>> ELSE <<>>)
                           \o l.out \o r.out]

RECURSIVE Search_by_radius(_, _, _)
Search_by_radius(t, p, r) ==
    IF IsNil(t) THEN [tree |-> t, out |-> <<>>]
    ELSE
      LET u == Push_Down(t)
          ls == Search_by_radius(u.left, p, r)
          rs == Search_by_radius(u.right, p, r)
      IN CASE FarOff(u.range, p, r) -> [tree |-> u, out |-> <<>>]
           [] WithinBall(u.range, p, r) -> [tree |-> Flattened(u), out |-> flatten(u).kept]
           [] OTHER ->
                [tree |-> [u EXCEPT !.left = ls.tree, !.right = rs.tree],
                 out |-> (IF Dist(u.point, p) <= Sq(r) /\ ~u.point_del THEN <<u.point>> ELSE <<>>)
                           \o ls.out \o rs.out]

\* A missing son is infinitely far.
Infinity == 1000000
BoxDist(t, p) == IF IsNil(t) THEN Infinity ELSE calc_box_dist(t.range, p)

\* MANUAL_HEAP, as the sequence of its distances from the largest down.
HeapPush(heap, d) == SortSeq(Append(heap, d), LAMBDA x, y : x > y)

\* A son that lies nearer than the worst of K candidates is worth a search.
Worth(heap, d) == Len(heap) < K \/ d < Head(heap)

RECURSIVE Search(_, _, _)
Search(t, p, heap) ==
    IF IsNil(t) \/ t.tree_del THEN [tree |-> t, heap |-> heap]
    ELSE
      LET u == Push_Down(t)
          d == Dist(p, u.point)
          own == IF ~u.point_del /\ Worth(heap, d)
                   THEN HeapPush(IF Len(heap) >= K THEN Tail(heap) ELSE heap, d)
                   ELSE heap
          dl == BoxDist(u.left, p)
          dr == BoxDist(u.right, p)
          both == Len(own) < K \/ (dl < Head(own) /\ dr < Head(own))
          leftFirst == ~both \/ dl <= dr
          near == IF leftFirst THEN u.left ELSE u.right
          far == IF leftFirst THEN u.right ELSE u.left
          first == IF both \/ Worth(own, BoxDist(near, p))
                     THEN Search(near, p, own) ELSE [tree |-> near, heap |-> own]
          second == IF Worth(first.heap, BoxDist(far, p))
                      THEN Search(far, p, first.heap) ELSE [tree |-> far, heap |-> first.heap]
      IN [tree |-> [u EXCEPT !.left = IF leftFirst THEN first.tree ELSE second.tree,
                             !.right = IF leftFirst THEN second.tree ELSE first.tree],
          heap |-> second.heap]

-----------------------------------------------------------------------------
(* The operations of KD_TREE.                                                *)

SeqToBag(s) == [x \in {s[i] : i \in DOMAIN s} |-> Cardinality({i \in DOMAIN s : s[i] = x})]

\* What the flags of a tree mean: flatten sees every deletion, pushed down or
\* not.
Becomes(t) ==
    /\ root' = t
    /\ live' = SeqToBag(flatten(t).kept)
    /\ buried' = SeqToBag(flatten(t).gone)

IkdInit ==
    /\ root = Nil
    /\ Points_deleted = <<>>
    /\ found = [to |-> "nothing", bag |-> EmptyBag]
    /\ treeOps = 0
    /\ live = EmptyBag /\ buried = EmptyBag

Change(c) ==
    /\ treeOps < MaxTreeOps
    /\ treeOps' = treeOps + 1
    /\ Becomes(c.tree)
    /\ Points_deleted' = Points_deleted \o c.gone

Build(S, flip) ==
    /\ IsNil(root)
    /\ Change(Unchanged(BuildTree(SetToSeq(S), flip)))
    /\ UNCHANGED found

\* Without down-sampling.  The caller builds the tree before it adds points.
Add_Points(p, flip) ==
    /\ ~IsNil(root)
    /\ Change(Add_by_point(root, p, root.axis, flip))
    /\ UNCHANGED found

\* With down-sampling: the point nearest to the middle of the voxel stays.
Add_Points_downsample(p, flip) ==
    LET b == VoxelOf(p)
        s == Search_by_range(root, b)
        d(q) == Dist(q, Mid(b))
        least == {i \in DOMAIN s.out : /\ d(s.out[i]) < d(p)
                                       /\ \A j \in DOMAIN s.out : d(s.out[i]) <= d(s.out[j])}
        result == IF least = {} THEN p
                  ELSE s.out[CHOOSE i \in least : \A j \in least : i <= j]
        del == IF Len(s.out) > 0 THEN Delete_by_range(s.tree, b, TRUE, flip)
                                 ELSE Unchanged(s.tree)
        add == Add_by_point(del.tree, result, del.tree.axis, flip)
    IN  /\ ~IsNil(root)
        /\ IF Len(s.out) > 1 \/ result = p
             THEN Change([add EXCEPT !.gone = del.gone \o @])
             ELSE Change(Unchanged(s.tree))
        /\ UNCHANGED found

Delete_Point_Boxes(b, flip) ==
    LET c == Delete_by_range(root, b, FALSE, flip)
    IN  /\ Change(c)
        /\ found' = [to |-> "delete", bag |-> SetToBag({c.n})]

Delete_Points(p, flip) ==
    /\ Change(Delete_by_point(root, p, flip))
    /\ UNCHANGED found

\* The answer of a range search, and the flags it has pushed down.
RangeAnswer(kind, s) ==
    /\ Becomes(s.tree)
    /\ found' = [to |-> kind, bag |-> SeqToBag(s.out)]
    /\ UNCHANGED <<Points_deleted, treeOps>>

Box_Search(b) == RangeAnswer("box", Search_by_range(root, b))
Radius_Search(p, r) == RangeAnswer("radius", Search_by_radius(root, p, r))

Nearest_Search(p) ==
    LET s == Search(root, p, <<>>)
    IN  /\ Becomes(s.tree)
        /\ found' = [to |-> "nearest", bag |-> SeqToBag(s.heap)]
        /\ UNCHANGED <<Points_deleted, treeOps>>

acquire_removed_points ==
    /\ found' = [to |-> "acquire", bag |-> SeqToBag(Points_deleted)]
    /\ Points_deleted' = <<>>
    /\ UNCHANGED <<root, treeOps, live, buried>>

IkdNext ==
    \/ \E S \in SUBSET Candidates, flip \in BOOLEAN : S # {} /\ Build(S, flip)
    \/ \E p \in Candidates, flip \in BOOLEAN :
         Add_Points(p, flip) \/ Add_Points_downsample(p, flip) \/ Delete_Points(p, flip)
    \/ \E b \in Boxes, flip \in BOOLEAN : Delete_Point_Boxes(b, flip)
    \/ \E b \in Boxes : Box_Search(b)
    \/ \E p \in Centres : Nearest_Search(p) \/ \E r \in Radii : Radius_Search(p, r)
    \/ acquire_removed_points

IkdSpec == IkdInit /\ [][IkdNext]_treeVars

-----------------------------------------------------------------------------
(* Properties.                                                               *)

Map == INSTANCE PointMap
         WITH points <- live, hidden <- buried,
              removed <- SeqToBag(Points_deleted), answer <- found

(* The tree is a map of points: every change, search and report of it is one *)
(* of the abstract map's, whatever flags are pending and whatever rebuilds   *)
(* happen on the way.                                                        *)
ImplementsPointMap == Map!MapSpec
=============================================================================

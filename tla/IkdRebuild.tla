----------------------------- MODULE IkdRebuild -----------------------------
(***************************************************************************)
(* The rebuild thread of the k-d tree of FAST_LIO next to the thread that  *)
(* owns the map.  A subtree that is too large to be rebuilt in place is    *)
(* handed over through Rebuild_Ptr; the thread copies its points, builds a *)
(* new tree from the copy, replays the operations that reached the old one *)
(* meanwhile, and swaps the trees.  How a tree arranges its points is      *)
(* IkdTree's matter: here a subtree is the set of its points.              *)
(*                                                                         *)
(* Code between a lock and its unlock is one step where only data under    *)
(* that lock is touched.  rebuild_flag is read under working_flag_mutex    *)
(* and cleared without it.  Rebuild_Ptr is read once per test.             *)
(*                                                                         *)
(* The subtrees are the sons of one node, their father.  Deletions that    *)
(* reach the father through the Push_Down of a node above it are not among *)
(* the operations.                                                         *)
(***************************************************************************)
EXTENDS Integers, Sequences

CONSTANTS
    SubtreeOrder, \* the subtrees that may be rebuilt, from left to right
    MapPoints,    \* the points
    Home,         \* the subtree a point is sorted into
    DelBoxes,     \* the boxes that are deleted: sets of points
    Searchers,    \* the threads that search for neighbours in parallel
    MaxMapOps     \* bound on the number of map operations

NoTree == "nullptr"
Subtrees == {SubtreeOrder[i] : i \in DOMAIN SubtreeOrder}

ASSUME RebuildAssumption ==
    /\ SubtreeOrder \in Seq(Subtrees) /\ NoTree \notin Subtrees
    /\ Home \in [MapPoints -> Subtrees]
    /\ MaxMapOps \in Nat

VARIABLES
    contents,        \* per subtree: its points
    Rebuild_Ptr,     \* the subtree handed over, or NoTree
    rebuild_flag,
    rebuild_ptr_lock, \* TRUE: the rebuild thread holds rebuild_ptr_mutex_lock
    working,         \* TRUE: the rebuild thread holds working_flag_mutex
    Rebuild_Logger,  \* the operations to replay
    search_counter,  \* search_mutex_counter; -1 shuts searches out
    marked,          \* TRUE: the father is deleted as a whole, and its sons are not told
    todo,            \* what the map's thread has still to do, and at which subtree
    waiting,         \* TRUE: it found Rebuild_Ptr there and waits for working
    searching,       \* the searchers inside the subtree that is handed over
    searched,        \* the searchers that were there since the last operation
    tpc,             \* the step of the rebuild thread
    newTree,         \* new_root_node
    startedClean,    \* history: the logger was empty when this rebuild began
    mapOps           \* the number of operations so far

mapVars == <<contents, marked, todo, waiting, mapOps>>
threadVars == <<rebuild_flag, rebuild_ptr_lock, working, tpc, newTree, startedClean>>
rebuildVars == <<mapVars, threadVars, Rebuild_Ptr, Rebuild_Logger, search_counter, searching, searched>>

RebuildInit ==
    /\ contents = [s \in Subtrees |-> {p \in MapPoints : Home[p] = s}]
    /\ Rebuild_Ptr = NoTree /\ rebuild_flag = FALSE
    /\ rebuild_ptr_lock = FALSE /\ working = FALSE
    /\ Rebuild_Logger = <<>> /\ search_counter = 0
    /\ marked = FALSE /\ todo = <<>> /\ waiting = FALSE
    /\ searching = {} /\ searched = {}
    /\ tpc = "poll" /\ newTree = {} /\ startedClean = TRUE
    /\ mapOps = 0

PushDown == [kind |-> "PUSH_DOWN"]

\* What Add_by_point, Delete_by_range and a Push_Down from a deleted father do to
\* the points of a tree.
Applied(o, S) ==
    CASE o.kind = "ADD_POINT" -> S \union {o.point}
      [] o.kind = "DELETE_BOX" -> S \ o.box
      [] o.kind = "PUSH_DOWN" -> {}

-----------------------------------------------------------------------------
(* The map's thread.                                                         *)

Begin(tasks) ==
    /\ todo = <<>> /\ searching = {}
    /\ mapOps < MaxMapOps
    /\ mapOps' = mapOps + 1
    /\ todo' = tasks
    /\ searched' = {}
    /\ UNCHANGED <<contents, waiting, threadVars, Rebuild_Ptr, Rebuild_Logger,
                   search_counter, searching>>

\* From the left son to the right one.
Everywhere(o) == [i \in DOMAIN SubtreeOrder |-> [at |-> SubtreeOrder[i], op |-> o]]

\* A father that is marked tells both sons before it lets the point in.
Add_Point(p) ==
    /\ Begin((IF marked THEN Everywhere(PushDown) ELSE <<>>)
               \o <<[at |-> Home[p], op |-> [kind |-> "ADD_POINT", point |-> p]]>>)
    /\ marked' = FALSE

\* A box around all that the father holds only marks the father; any other one is
\* looked for in both sons.  Nothing is looked for under a father that is marked.
Delete_Box(b) ==
    /\ ~marked
    /\ \/ /\ UNION {contents[s] : s \in Subtrees} \subseteq b
          /\ Begin(<<>>)
          /\ marked' = TRUE
       \/ /\ Begin(Everywhere([kind |-> "DELETE_BOX", box |-> b]))
          /\ UNCHANGED marked

\* A subtree that is not handed over is changed without a lock, and the check
\* of its balance on the way up may hand it over: Rebuild.
Visit ==
    /\ todo # <<>> /\ ~waiting
    /\ LET s == Head(todo).at
           o == Head(todo).op
       IN \/ /\ Rebuild_Ptr = s
             /\ waiting' = TRUE
             /\ UNCHANGED <<contents, todo, Rebuild_Ptr>>
          \/ /\ Rebuild_Ptr # s
             /\ contents' = [contents EXCEPT ![s] = Applied(o, @)]
             /\ todo' = Tail(todo)
             /\ \/ Rebuild_Ptr' = Rebuild_Ptr
                \/ o # PushDown /\ ~rebuild_ptr_lock /\ Rebuild_Ptr' = s
             /\ UNCHANGED waiting
    /\ UNCHANGED <<marked, mapOps, threadVars, Rebuild_Logger, search_counter, searching, searched>>

(* Mutant: a Push_Down is not logged. *)
VisitHandedOverUnlogged ==
    /\ waiting /\ ~working
    /\ LET o == Head(todo).op
       IN /\ contents' = [contents EXCEPT ![Head(todo).at] = Applied(o, @)]
          /\ Rebuild_Logger' = IF rebuild_flag /\ o # PushDown THEN Append(Rebuild_Logger, o)
                               ELSE Rebuild_Logger
    /\ waiting' = FALSE
    /\ todo' = Tail(todo)
    /\ UNCHANGED <<marked, mapOps, threadVars, Rebuild_Ptr, search_counter, searching, searched>>

\* A subtree that is handed over is changed under working_flag_mutex, and the
\* change is logged while a rebuild is on.
VisitHandedOver ==
    /\ waiting /\ ~working
    /\ LET o == Head(todo).op
       IN /\ contents' = [contents EXCEPT ![Head(todo).at] = Applied(o, @)]
          /\ Rebuild_Logger' = IF rebuild_flag THEN Append(Rebuild_Logger, o) ELSE Rebuild_Logger
    /\ waiting' = FALSE
    /\ todo' = Tail(todo)
    /\ UNCHANGED <<marked, mapOps, threadVars, Rebuild_Ptr, search_counter, searching, searched>>

\* The neighbour searches of h_share_model run in parallel, in a burst between
\* the map's operations.  Only those that enter the subtree that is handed over
\* count; none gets past a father that is marked.
EnterSearch(i) ==
    /\ todo = <<>> /\ ~marked /\ i \notin searched
    /\ Rebuild_Ptr # NoTree
    /\ search_counter # -1
    /\ search_counter' = search_counter + 1
    /\ searching' = searching \union {i}
    /\ searched' = searched \union {i}
    /\ UNCHANGED <<mapVars, threadVars, Rebuild_Ptr, Rebuild_Logger>>

LeaveSearch(i) ==
    /\ i \in searching
    /\ search_counter' = search_counter - 1
    /\ searching' = searching \ {i}
    /\ UNCHANGED <<searched, mapVars, threadVars, Rebuild_Ptr, Rebuild_Logger>>

-----------------------------------------------------------------------------
(* The rebuild thread: multi_thread_rebuild.                                 *)

StartRebuild ==
    /\ tpc = "poll"
    /\ Rebuild_Ptr # NoTree
    /\ rebuild_ptr_lock' = TRUE /\ working' = TRUE
    /\ rebuild_flag' = TRUE
    /\ startedClean' = (Rebuild_Logger = <<>>)
    /\ tpc' = "lockSearch"
    /\ UNCHANGED <<mapVars, newTree, Rebuild_Ptr, Rebuild_Logger, search_counter, searching, searched>>

\* The searches are shut out for the copy and again for the swap.
LockSearch ==
    /\ tpc \in {"lockSearch", "lockSwap"}
    /\ search_counter = 0
    /\ search_counter' = -1
    /\ tpc' = IF tpc = "lockSearch" THEN "copy" ELSE "swap"
    /\ UNCHANGED <<mapVars, rebuild_flag, rebuild_ptr_lock, working, newTree, startedClean,
                   Rebuild_Ptr, Rebuild_Logger, searching, searched>>

\* Nothing is replayed, and working_flag_mutex not taken again, when there is
\* no point to build a tree from.
Copy ==
    /\ tpc = "copy"
    /\ newTree' = contents[Rebuild_Ptr]
    /\ search_counter' = 0
    /\ working' = FALSE
    /\ tpc' = IF newTree' = {} THEN "lockSwap" ELSE "replay"
    /\ UNCHANGED <<mapVars, rebuild_flag, rebuild_ptr_lock, startedClean, Rebuild_Ptr,
                   Rebuild_Logger, searching, searched>>

\* One pass of the loop; the locks are kept once the logger is empty.
Replay ==
    /\ tpc = "replay"
    /\ \/ /\ Rebuild_Logger # <<>>
          /\ newTree' = Applied(Head(Rebuild_Logger), newTree)
          /\ Rebuild_Logger' = Tail(Rebuild_Logger)
          /\ UNCHANGED <<tpc, working>>
       \/ /\ Rebuild_Logger = <<>>
          /\ working' = TRUE
          /\ tpc' = "lockSwap"
          /\ UNCHANGED <<newTree, Rebuild_Logger>>
    /\ UNCHANGED <<mapVars, rebuild_flag, rebuild_ptr_lock, startedClean, Rebuild_Ptr,
                   search_counter, searching, searched>>

\* With no new tree the code reads a field of a null pointer: the build may
\* drop that read, whose value is not used, or crash.
\* The pull-up that follows stops at a father that is marked: the return that marked
\* it left its working_flag set.
Swap ==
    /\ tpc = "swap"
    /\ \/ /\ contents' = [contents EXCEPT ![Rebuild_Ptr] = newTree]
          /\ search_counter' = 0
          /\ Rebuild_Ptr' = NoTree
          /\ working' = FALSE
          /\ tpc' = "swapped"
       \/ /\ newTree = {}
          /\ tpc' = "crashed"
          /\ UNCHANGED <<contents, search_counter, Rebuild_Ptr, working>>
    /\ UNCHANGED <<marked, todo, waiting, mapOps, rebuild_flag, rebuild_ptr_lock, newTree,
                   startedClean, Rebuild_Logger, searching, searched>>

\* rebuild_flag falls after working_flag_mutex was released.
EndRebuild ==
    /\ tpc = "swapped"
    /\ rebuild_flag' = FALSE
    /\ rebuild_ptr_lock' = FALSE
    /\ newTree' = {}
    /\ tpc' = "poll"
    /\ UNCHANGED <<mapVars, working, startedClean, Rebuild_Ptr, Rebuild_Logger,
                   search_counter, searching, searched>>

RebuildThread == StartRebuild \/ LockSearch \/ Copy \/ Replay \/ Swap \/ EndRebuild
MapThread == Visit \/ VisitHandedOver

RebuildNext ==
    /\ tpc # "crashed"
    /\ \/ \E p \in MapPoints : Add_Point(p)
       \/ \E b \in DelBoxes : Delete_Box(b)
       \/ \E i \in Searchers : EnterSearch(i) \/ LeaveSearch(i)
       \/ MapThread
       \/ RebuildThread

(* Both threads go on, and a search ends.                                    *)
RebuildFairness ==
    /\ WF_rebuildVars(RebuildNext /\ RebuildThread)
    /\ WF_rebuildVars(RebuildNext /\ MapThread)
    /\ \A i \in Searchers : WF_rebuildVars(RebuildNext /\ LeaveSearch(i))

RebuildSpec == RebuildInit /\ [][RebuildNext]_rebuildVars /\ RebuildFairness

-----------------------------------------------------------------------------
(* Properties.                                                               *)

\* The swap of a rebuild that began with an empty logger and copied at least
\* one point does not change the map: every insertion, deletion and Push_Down that
\* ran while the new tree was built is in it, once and in order.
SwapIsInvisible ==
    [][ (tpc = "swap" /\ tpc' = "swapped" /\ startedClean /\ newTree # {})
          => contents' = contents ]_rebuildVars

\* No neighbour search is inside the subtree while its nodes are copied with
\* their flags pushed down, or while it is exchanged; the old nodes are freed
\* after that.
SearchIsShutOut == searching # {} => tpc \notin {"copy", "swap", "swapped"}

\* A subtree that was handed over is given back, unless the thread crashed on
\* an empty one: no lock of the protocol is left held or waited for in a ring.
RebuildEnds == Rebuild_Ptr # NoTree ~> (Rebuild_Ptr = NoTree \/ tpc = "crashed")

\* A rebuild beside a map in use shows neither in the map nor in a search, and ends.
RebuildIsInvisible ==
    []SearchIsShutOut /\ SwapIsInvisible /\ RebuildEnds
=============================================================================

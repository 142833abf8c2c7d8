---------------------------- MODULE ScanFeatures ----------------------------
(***************************************************************************)
(* The feature extraction of FAST_LIO (give_feature) on the points of one  *)
(* laser line: a walk that labels planes, a pass over the edges, a pass    *)
(* over small planes, and a pass that takes the surface points.            *)
(*                                                                         *)
(* Positions count from 0 as in the code.  The geometry is arbitrary: how  *)
(* far a plane reaches and whether it is one, and what the neighbours of a *)
(* point look like.  Which points are in the blind range is given by the   *)
(* line.                                                                   *)
(***************************************************************************)
EXTENDS Integers, Sequences, FiniteSets

CONSTANTS
    LineSizes,     \* the sizes of a line
    group_size,
    point_filter_num

ASSUME FeatureAssumption ==
    /\ LineSizes \subseteq Nat \ {0}
    /\ group_size \in Nat \ {0} /\ point_filter_num \in Nat \ {0}

Planes == {"Poss_Plane", "Real_Plane"}
AtLeastPlane == {"Real_Plane", "Edge_Jump", "Edge_Plane", "Wire"}

VARIABLES
    plsize,
    blindAt,    \* the positions in the blind range
    head,       \* the first position that is not
    ftype,      \* the label of each position
    pass,       \* "surf", "edge", "small", "take", "done"
    at,         \* the position of the pass
    last_state, \* the position before was the start of a plane
    last_surface,
    surf,       \* what is put into pl_surf: sets of positions that are averaged
    corn        \* the positions put into pl_corn

featVars == <<plsize, blindAt, head, ftype, pass, at, last_state, last_surface, surf, corn>>
lineVars == <<plsize, blindAt, head>>

\* A line that is all blind would make the search for head leave the line.
FeatInit ==
    /\ plsize \in LineSizes
    /\ blindAt \in SUBSET (0..(plsize - 1)) \ {0..(plsize - 1)}
    /\ head = CHOOSE h \in (0..(plsize - 1)) \ blindAt :
                \A k \in (0..(plsize - 1)) \ blindAt : h <= k
    /\ ftype = [i \in 0..(plsize - 1) |-> "Nor"]
    /\ pass = "surf" /\ at = head /\ last_state = 0
    /\ last_surface = -1 /\ surf = <<>> /\ corn = {}

\* The positions where plane_judge may stop for a plane that starts at i, and
\* the result it returns there: 2 at a blind point.  It looks at group_size
\* points at least and never beyond the line.
plane_judge(i) ==
    LET blindFrom(k) == \E b \in blindAt : i <= b /\ b <= k
        ends == {n \in (i + group_size)..plsize : ~blindFrom(n)}
    IN  {<<1, n>> : n \in ends} \union {<<0, n>> : n \in ends}
        \union {<<2, b>> : b \in {b \in blindAt : i <= b /\ \A c \in blindAt : c < i \/ b <= c}}

SurfEnd == IF plsize > group_size THEN plsize - group_size ELSE 0

\* The walk: inside a plane the points are Real_Plane, its ends Poss_Plane, and
\* where two planes meet the angle decides.  The code also labels the position
\* after the line when the plane reaches its end.
SurfStep(result, i_nex, corner) ==
    /\ pass = "surf" /\ at < SurfEnd /\ at \notin blindAt
    /\ <<result, i_nex>> \in plane_judge(at)
    /\ IF result = 1
       THEN /\ ftype' = [j \in DOMAIN ftype |->
                 CASE j = at /\ last_state = 1 -> IF corner THEN "Edge_Plane" ELSE "Real_Plane"
                   [] j = at \/ j = i_nex -> "Poss_Plane"
                   [] at < j /\ j < i_nex -> "Real_Plane"
                   [] OTHER -> ftype[j]]
            /\ at' = i_nex /\ last_state' = 1
       ELSE /\ at' = i_nex + 1 /\ last_state' = 0
            /\ UNCHANGED ftype
    /\ UNCHANGED <<lineVars, pass, last_surface, surf, corn>>

Skip ==
    /\ pass = "surf" /\ at < SurfEnd /\ at \in blindAt
    /\ at' = at + 1
    /\ UNCHANGED <<lineVars, ftype, pass, last_state, last_surface, surf, corn>>

EdgeEnd == IF plsize > 3 THEN plsize - 3 ELSE 0

\* The edges: the neighbours decide between a jump, a wire and nothing.
EdgeStep(label) ==
    /\ pass = "edge" /\ at < EdgeEnd
    /\ \/ label = ftype[at]
       \/ /\ at \notin blindAt /\ ftype[at] \notin AtLeastPlane
          /\ \/ label = "Edge_Jump" /\ (\/ {at - 1, at - 2} \cap blindAt = {}
                                        \/ {at + 1, at + 2} \cap blindAt = {})
             \/ label = "Wire" /\ ftype[at] = "Nor"
    /\ ftype' = [ftype EXCEPT ![at] = label]
    /\ at' = at + 1
    /\ UNCHANGED <<lineVars, pass, last_state, last_surface, surf, corn>>

\* Three points in a row that are nearly straight and evenly spaced.
SmallStep(flat) ==
    /\ pass = "small" /\ at < plsize - 1
    /\ ftype' = IF /\ flat /\ {at - 1, at, at + 1} \cap blindAt = {} /\ ftype[at] = "Nor"
                THEN [j \in DOMAIN ftype |->
                        IF j = at \/ (j \in {at - 1, at + 1} /\ ftype[j] = "Nor")
                        THEN "Real_Plane" ELSE ftype[j]]
                ELSE ftype
    /\ at' = at + 1
    /\ UNCHANGED <<lineVars, pass, last_state, last_surface, surf, corn>>

(* Mutant: a run that is ended by another label is dropped. *)
TakeStepNoAverage ==
    LET from == IF last_surface = -1 THEN at ELSE last_surface IN
    /\ pass = "take" /\ at < plsize
    /\ IF ftype[at] \in Planes
       THEN /\ IF at = from + point_filter_num - 1
               THEN surf' = Append(surf, {at}) /\ last_surface' = -1
               ELSE last_surface' = from /\ UNCHANGED surf
            /\ UNCHANGED corn
       ELSE /\ corn' = IF ftype[at] \in {"Edge_Jump", "Edge_Plane"} THEN corn \union {at} ELSE corn
            /\ last_surface' = -1
            /\ UNCHANGED surf
    /\ at' = at + 1
    /\ UNCHANGED <<lineVars, ftype, pass, last_state>>

\* Of every point_filter_num surface points in a row the last is taken; fewer,
\* ended by another label, are averaged; those at the end of the line are lost.
TakeStep ==
    LET from == IF last_surface = -1 THEN at ELSE last_surface IN
    /\ pass = "take" /\ at < plsize
    /\ IF ftype[at] \in Planes
       THEN /\ IF at = from + point_filter_num - 1
               THEN surf' = Append(surf, {at}) /\ last_surface' = -1
               ELSE last_surface' = from /\ UNCHANGED surf
            /\ UNCHANGED corn
       ELSE /\ corn' = IF ftype[at] \in {"Edge_Jump", "Edge_Plane"} THEN corn \union {at} ELSE corn
            /\ surf' = IF last_surface = -1 THEN surf ELSE Append(surf, last_surface..(at - 1))
            /\ last_surface' = -1
    /\ at' = at + 1
    /\ UNCHANGED <<lineVars, ftype, pass, last_state>>

\* The passes follow each other, from head or a few positions after it.
NextPass ==
    /\ \/ pass = "surf" /\ at >= SurfEnd /\ pass' = "edge" /\ at' = head + 3
       \/ pass = "edge" /\ at >= EdgeEnd /\ pass' = "small" /\ at' = head + 1
       \/ pass = "small" /\ at >= plsize - 1 /\ pass' = "take" /\ at' = head
       \/ pass = "take" /\ at >= plsize /\ pass' = "done" /\ at' = at
    /\ UNCHANGED <<lineVars, ftype, last_state, last_surface, surf, corn>>

FeatNext ==
    \/ \E result \in 0..2, i_nex \in 0..plsize, corner \in BOOLEAN :
         SurfStep(result, i_nex, corner)
    \/ Skip
    \/ \E label \in {"Nor", "Poss_Plane", "Real_Plane", "Edge_Plane", "Edge_Jump", "Wire"} :
         EdgeStep(label)
    \/ \E flat \in BOOLEAN : SmallStep(flat)
    \/ TakeStep
    \/ NextPass

FeatSpec == FeatInit /\ [][FeatNext]_featVars

-----------------------------------------------------------------------------

\* No point in the blind range gets a label in any of the passes, although the
\* passes label neighbours of the points they test.
NoBlindFeature == \A i \in blindAt : ftype[i] = "Nor"

\* The points put into pl_surf come from disjoint runs of surface points in the
\* order of the line, at most point_filter_num in a run, and none is in pl_corn.
SurfaceRunsAreDisjoint ==
    /\ \A m, n \in DOMAIN surf :
         m < n => \A i \in surf[m], j \in surf[n] : i < j
    /\ \A m \in DOMAIN surf :
         /\ surf[m] # {} /\ Cardinality(surf[m]) <= point_filter_num
         /\ \A i \in surf[m] : ftype[i] \in Planes /\ i \notin corn

\* Every surface point before the last run of the line is accounted for: it is
\* in a run, or passed over by a full run that ends at most point_filter_num - 1
\* positions later.
NoSurfaceForgotten ==
    pass = "done" =>
        \A i \in head..(plsize - 1) :
            ftype[i] \in Planes =>
                \/ \E m \in DOMAIN surf : \E j \in surf[m] : i <= j /\ j < i + point_filter_num
                \/ last_surface # -1 /\ last_surface <= i

\* give_feature neither labels a blind point, nor takes a surface point twice,
\* nor forgets one.
FeaturesAreSound ==
    NoBlindFeature /\ SurfaceRunsAreDisjoint /\ NoSurfaceForgotten
=============================================================================

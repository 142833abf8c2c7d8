--------------------------- MODULE MCLocalisation ---------------------------
(* Model-checking instance of the localisation: the k-d tree, the moving cube *)
(* of the map, the filter, the preprocessing of a scan, its features, and the *)
(* node that ties them together.  Each initial state chooses one component,   *)
(* which then moves alone.                                                    *)
EXTENDS IkdTree, FastLio, LocalMap, EkfUpdate, Preprocess, ScanFeatures

VARIABLE focus

MCCandidates == {<<0, 0, 0>>, <<1, 0, 0>>, <<3, 0, 0>>, <<1, 2, 1>>}
MCCentres == {<<1, 0, 0>>, <<3, 2, 0>>}
MCBoxes == {[lo |-> <<0, 0, 0>>, hi |-> <<2, 1, 1>>], [lo |-> <<1, 0, 0>>, hi |-> <<4, 4, 2>>]}

\* A prior map, with a sensor clock that jumps back; two lidars; one lidar.
Config(dual, prior, back, scans, imus, frames, steps) ==
    [dual |-> dual, prior |-> prior, mapFile |-> prior, sendTf |-> prior,
     timeSync |-> back > 0, mapPub |-> prior, pcdSave |-> TRUE, saver |-> prior,
     frames |-> frames, scans |-> scans, imus |-> imus, back |-> back, steps |-> steps]
MCConfigs ==
    LET all == {"lidars", "base"}
    IN {Config(TRUE, FALSE, 0, 3, 3, all, {1}), Config(TRUE, FALSE, 1, 2, 2, {"base"}, {1}),
        Config(FALSE, TRUE, 1, 3, 4, all, {1}), Config(FALSE, FALSE, 0, 4, 4, all, {1, 3})}
MCShapes == {[n |-> 6, dur |-> 1], [n |-> 1, dur |-> 0]}

Pt(place, line, tag, t, yaw, near, body) ==
    [place |-> place, line |-> line, tag |-> tag, t |-> t, yaw |-> yaw, near |-> near,
     body |-> body]
SeqsUpTo(S, n) == UNION {[1..k -> S] : k \in 0..n}
LongLine(places) ==
    [i \in 1..8 |-> Pt(IF i = 1 THEN 1 ELSE places[i], 0, TRUE, i, 0, i = 3, FALSE)]
MCCustom ==
    SeqsUpTo({Pt(1, 0, TRUE, 1, 0, FALSE, FALSE), Pt(2, 1, TRUE, 2, 0, FALSE, FALSE),
              Pt(3, 0, TRUE, 3, 0, TRUE, FALSE), Pt(4, 0, TRUE, 3, 0, FALSE, TRUE),
              Pt(5, 2, TRUE, 3, 0, FALSE, FALSE), Pt(6, 0, FALSE, 3, 0, FALSE, FALSE)}, 4)
      \union {LongLine(places) : places \in [2..8 -> {1, 2}]}
Sweeper(line) == {Pt(1, line, TRUE, 0, y, FALSE, FALSE) : y \in -1..2}
MCClouds ==
    SeqsUpTo(Sweeper(0), 4) \union SeqsUpTo(Sweeper(0) \union Sweeper(1), 3)
      \union SeqsUpTo({Pt(1, 0, TRUE, 1, 0, FALSE, FALSE), Pt(1, 0, TRUE, 2, 1, FALSE, TRUE),
                       Pt(1, 1, TRUE, 0, 2, TRUE, FALSE),
                       Pt(1, 0, TRUE, 0, -1, FALSE, FALSE)}, 3)
      \union SeqsUpTo({Pt(1, 0, TRUE, 0, 1, FALSE, FALSE), Pt(1, 1, TRUE, 0, 0, FALSE, FALSE),
                       Pt(1, 2, TRUE, 0, 2, FALSE, FALSE)}, 3)

vars == <<focus, treeVars, lioVars, cubeVars, ekfVars, preVars, featVars>>

\* Of a component that is not chosen only one initial state is needed.
Init ==
    /\ focus \in {"tree", "node", "cube", "filter", "preprocess", "features"}
    /\ IkdInit /\ CubeInit /\ EkfInit /\ PreInit
    /\ LioInit
    /\ focus # "node" => cfg = CHOOSE c \in Configs : TRUE
    /\ FeatInit
    /\ focus # "features" =>
         blindAt = {} /\ plsize = CHOOSE n \in LineSizes : TRUE

Next ==
    /\ UNCHANGED focus
    /\ \/ /\ focus = "tree" /\ IkdNext
          /\ UNCHANGED <<lioVars, cubeVars, ekfVars, preVars, featVars>>
       \/ /\ focus = "node" /\ LioNext
          /\ UNCHANGED <<treeVars, cubeVars, ekfVars, preVars, featVars>>
       \/ /\ focus = "cube" /\ CubeNext
          /\ UNCHANGED <<treeVars, lioVars, ekfVars, preVars, featVars>>
       \/ /\ focus = "filter" /\ EkfNext
          /\ UNCHANGED <<treeVars, lioVars, cubeVars, preVars, featVars>>
       \/ /\ focus = "preprocess" /\ PreNext
          /\ UNCHANGED <<treeVars, lioVars, cubeVars, ekfVars, featVars>>
       \/ /\ focus = "features" /\ FeatNext
          /\ UNCHANGED <<treeVars, lioVars, cubeVars, ekfVars, preVars>>

Spec == Init /\ [][Next]_vars
=============================================================================

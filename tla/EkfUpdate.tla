----------------------------- MODULE EkfUpdate -----------------------------
(***************************************************************************)
(* The error state filter of FAST_LIO (esekfom) as the node uses it: it is *)
(* initialised, propagated with the IMU and updated with a scan by         *)
(* iterations that match the scan's points with planes of the map.         *)
(*                                                                         *)
(* The numbers are left out.  Of the state the number of corrections since *)
(* the propagation is kept, of the covariance what it is, of a point which *)
(* scan its neighbours were searched for.  Which points find neighbours,   *)
(* fit a plane, and whether a correction is below the limits is arbitrary. *)
(***************************************************************************)
EXTENDS Integers, FiniteSets

CONSTANTS
    ScanPoints,  \* the indices of the points of a scan
    MaxIter,     \* maximum_iter
    MaxUpdates   \* bound on the number of scans

ASSUME EkfAssumption == MaxIter \in Nat /\ MaxIter > 0

VARIABLES
    ekfStep,   \* "predict" between updates, "update" in one
    iteration, \* i of the loop
    converge,  \* dyn_share.converge
    converged, \* t, the corrections below the limits
    point_selected_surf,
    searchedFor,  \* per point: the scan its Nearest_Points were searched for
    x_,        \* the corrections applied to the propagated state
    P_,        \* "initial", "propagated", "projected" or "posterior"
    effective, \* the points of the last measurement
    scan       \* the number of the scan

ekfVars == <<ekfStep, iteration, converge, converged, point_selected_surf, searchedFor,
             x_, P_, effective, scan>>

EkfInit ==
    /\ ekfStep = "predict" /\ iteration = 0 /\ converge = TRUE /\ converged = 0
    /\ point_selected_surf = ScanPoints
    /\ searchedFor = [p \in ScanPoints |-> 0]
    /\ x_ = 0 /\ P_ = "initial" /\ effective = {} /\ scan = 0

\* Propagation: the state moves and the covariance grows.
predict ==
    /\ ekfStep = "predict"
    /\ x_' = 0 /\ P_' = "propagated"
    /\ UNCHANGED <<ekfStep, iteration, converge, converged, point_selected_surf,
                   searchedFor, effective, scan>>

(* Mutant: converge is left as the last update left it. *)
StartUpdateAsIs ==
    /\ ekfStep = "predict" /\ P_ # "initial" /\ scan < MaxUpdates
    /\ ekfStep' = "update" /\ iteration' = -1
    /\ converged' = 0
    /\ scan' = scan + 1 /\ x_' = 0
    /\ UNCHANGED <<converge, point_selected_surf, searchedFor, P_, effective>>

\* The state an update starts from is the propagated one, or the one before it
\* when a group had no IMU messages.
StartUpdate ==
    /\ ekfStep = "predict" /\ P_ # "initial" /\ scan < MaxUpdates
    /\ ekfStep' = "update" /\ iteration' = -1
    /\ converge' = TRUE /\ converged' = 0
    /\ scan' = scan + 1 /\ x_' = 0
    /\ UNCHANGED <<point_selected_surf, searchedFor, P_, effective>>

\* h_share_model: with converge set the neighbours are searched anew; a point
\* that does not fit a plane is out until they are searched again.
h_share_model(found, planar) ==
    /\ point_selected_surf' = (IF converge THEN found ELSE point_selected_surf) \cap planar
    /\ searchedFor' = IF converge THEN [p \in ScanPoints |-> scan] ELSE searchedFor
    /\ effective' = point_selected_surf'

\* The end of the loop.
Leave == ekfStep' = "predict"

\* No effective point: the loop goes on with nothing changed.
NotValid(found, planar) ==
    /\ ekfStep = "update"
    /\ h_share_model(found, planar)
    /\ effective' = {}
    /\ iteration' = iteration + 1
    /\ IF iteration = MaxIter - 1 THEN Leave ELSE UNCHANGED ekfStep
    /\ UNCHANGED <<converge, converged, x_, P_, scan>>

\* Whether the corrected state is final.
LastIteration(t) == t > 1 \/ iteration = MaxIter - 1

\* A correction of the state, with the covariance of the propagation projected
\* to where the state was; the final one makes the posterior of it.
Correct(found, planar, below) ==
    LET t == converged + IF below THEN 1 ELSE 0 IN
    /\ ekfStep = "update"
    /\ h_share_model(found, planar)
    /\ effective' # {}
    /\ x_' = x_ + 1
    /\ converged' = t
    /\ converge' = (below \/ (t = 0 /\ iteration = MaxIter - 2))
    /\ iteration' = iteration + 1
    /\ P_' = IF LastIteration(t) THEN "posterior" ELSE "projected"
    /\ IF LastIteration(t) \/ iteration = MaxIter - 1 THEN Leave ELSE UNCHANGED ekfStep
    /\ UNCHANGED scan

EkfNext ==
    \/ predict
    \/ StartUpdate
    \/ \E found, planar \in SUBSET ScanPoints :
         \/ NotValid(found, planar)
         \/ \E below \in BOOLEAN : Correct(found, planar, below)

EkfSpec == EkfInit /\ [][EkfNext]_ekfVars

-----------------------------------------------------------------------------

\* No residual of an update comes from neighbours that were searched for an
\* earlier scan: the selection and the neighbours outlive an update in global
\* arrays, and are only replaced in an iteration with converge set.
NeighboursAreOfTheScan ==
    \A p \in effective : x_ > 0 => searchedFor[p] = scan

\* An update that corrected the state leaves the posterior covariance, unless
\* its last measurement had no effective point: then a projection of the
\* propagated covariance stays next to the corrected state.
CorrectedStateHasPosterior ==
    ekfStep = "predict" /\ x_ > 0 => P_ = "posterior" \/ effective = {}

\* An update uses and leaves only what belongs to its own scan: neighbours
\* searched for it, and the covariance of its last correction.
UpdateIsOfItsScan ==
    NeighboursAreOfTheScan /\ CorrectedStateHasPosterior
=============================================================================

------------------------------ MODULE LaserScan ------------------------------
(***************************************************************************)
(* pointcloud_to_laserscan and its counterpart laserscan_to_pointcloud: a  *)
(* thread of the node subscribes to the input only while somebody listens  *)
(* to the output, and ends with the node; the callback folds a cloud into  *)
(* rays.  Angles and ranges are whole numbers, angle_min_ is 0.            *)
(***************************************************************************)
EXTENDS Integers, Sequences, FiniteSetsExt

CONSTANTS angle_max_, angle_increment_, range_min_, range_max_,
          Clouds            \* sequences of [angle, range, ok]; ok: finite, and height
                            \* and intensity within their limits

ScanPoint == [angle : Int, range : Int, ok : BOOLEAN]

ASSUME LaserScanAssumption ==
  /\ angle_max_ \in Nat \ {0} /\ angle_increment_ \in Nat \ {0}
  /\ range_min_ \in Nat /\ range_max_ \in Nat
  /\ Clouds \subseteq Seq(ScanPoint)

VARIABLES kind,             \* which of the two nodes: "cloud" or "scan" (its input)
          listeners,        \* subscribers of the output
          subscribed,       \* sub_.getSubscriber()
          alive_, context_ok,       \* context_ok: the context has not been shut down
          loop,             \* the thread: "check", "act", "wait", "end"
          subscription_count,
          graphChanged,     \* since the thread took its graph event
          dtor,             \* the destructor: "no", "join", "done"
          cloud_in, ranges  \* last cloud, last scan published

scanIO == <<cloud_in, ranges>>
nodeVars == <<kind, listeners, subscribed, alive_, context_ok, loop, subscription_count, graphChanged, dtor>>
laserVars == <<nodeVars, scanIO>>

Infinity == range_max_ + 1
ranges_size == (angle_max_ + angle_increment_ - 1) \div angle_increment_
EmptyScan == [i \in 0 .. ranges_size - 1 |-> Infinity]

LaserInit ==
  /\ kind \in {"cloud", "scan"}
  /\ listeners = 0 /\ subscribed = FALSE
  /\ alive_ = TRUE /\ context_ok = TRUE /\ loop = "check" /\ subscription_count = 0 /\ graphChanged = FALSE /\ dtor = "no"
  /\ cloud_in = <<>> /\ ranges = EmptyScan

\* somebody subscribes to the output or leaves
GraphChange ==
  /\ listeners' = 1 - listeners
  /\ graphChanged' = TRUE
  /\ UNCHANGED <<kind, subscribed, alive_, context_ok, loop, subscription_count, dtor, scanIO>>

ContextShutdown ==
  /\ context_ok /\ context_ok' = FALSE
  /\ UNCHANGED <<kind, listeners, subscribed, alive_, loop, subscription_count, graphChanged, dtor, scanIO>>

\* the destructors of the two nodes differ: the second one stores true
Unload ==
  /\ dtor = "no"
  /\ dtor' = "join"
  /\ alive_' = (kind = "scan")
  /\ UNCHANGED <<kind, listeners, subscribed, context_ok, loop, subscription_count, graphChanged, scanIO>>

JoinThread ==
  /\ dtor = "join" /\ loop = "end"
  /\ dtor' = "done"
  /\ UNCHANGED <<kind, listeners, subscribed, alive_, context_ok, loop, subscription_count, graphChanged, scanIO>>

\* subscriptionListenerThreadLoop: the condition, then the count
CheckLoop ==
  /\ loop = "check"
  /\ IF context_ok /\ alive_
     THEN loop' = "act" /\ subscription_count' = listeners /\ UNCHANGED subscribed
     ELSE loop' = "end" /\ subscribed' = FALSE /\ UNCHANGED subscription_count
  /\ UNCHANGED <<kind, listeners, alive_, context_ok, graphChanged, dtor, scanIO>>

\* then the graph event is taken, a change since the count is not in it
FollowListeners ==
  /\ loop = "act"
  /\ graphChanged' = FALSE
  /\ subscribed' = (subscription_count > 0)
  /\ loop' = "wait"
  /\ UNCHANGED <<kind, listeners, alive_, context_ok, subscription_count, dtor, scanIO>>

(* Mutant: the thread waits for a change without a timeout.                *)
WaitForGraphChangeOnly ==
  /\ loop = "wait"
  /\ graphChanged
  /\ loop' = "check"
  /\ UNCHANGED <<kind, listeners, subscribed, alive_, context_ok, subscription_count, graphChanged, dtor, scanIO>>

\* wait_for_graph_change returns after 100 ms at the latest
WaitForGraphChange ==
  /\ loop = "wait"
  /\ loop' = "check"
  /\ UNCHANGED <<kind, listeners, subscribed, alive_, context_ok, subscription_count, graphChanged, dtor, scanIO>>

(***************************************************************************)
(* cloudCallback                                                           *)
(***************************************************************************)
Accepted(p) ==
  /\ p.ok
  /\ p.range >= range_min_ /\ p.range <= range_max_
  /\ p.angle >= 0 /\ p.angle <= angle_max_

Index(p) == p.angle \div angle_increment_

\* The index is not checked.  Past the last ray the read, and a write if what is there
\* is greater, are undefined behaviour outside the scan, whose rays stay as they are.
WithPoint(scan, p) ==
  IF Accepted(p) /\ Index(p) < ranges_size
  THEN [scan EXCEPT ![Index(p)] = Min({@, p.range})]
  ELSE scan

\* the scan after the first n points of the cloud
ScanOf(cloud) ==
  LET scan[n \in 0 .. Len(cloud)] ==
        IF n = 0 THEN EmptyScan ELSE WithPoint(scan[n - 1], cloud[n])
  IN  scan[Len(cloud)]

cloudCallback(cloud) ==
  /\ kind = "cloud" /\ subscribed
  /\ cloud_in' = cloud
  /\ ranges' = ScanOf(cloud)
  /\ UNCHANGED nodeVars

LaserNext ==
  \/ GraphChange \/ ContextShutdown \/ Unload \/ JoinThread
  \/ CheckLoop \/ FollowListeners \/ WaitForGraphChange
  \/ \E cloud \in Clouds : cloudCallback(cloud)

(* The thread runs, its wait has a timeout, and a join whose thread has    *)
(* ended returns.                                                          *)
LaserFairness ==
  /\ WF_laserVars(CheckLoop) /\ WF_laserVars(FollowListeners)
  /\ WF_laserVars(WaitForGraphChange) /\ WF_laserVars(JoinThread)

LaserSpec == LaserInit /\ [][LaserNext]_laserVars /\ LaserFairness

(***************************************************************************)
(* Properties                                                              *)
(***************************************************************************)
(* Each ray of the published scan is the nearest of the points that lie in *)
(* its sector and pass the limits, whatever their order in the cloud.      *)
RaysHoldTheNearestPoint ==
  LET points == {cloud_in[i] : i \in DOMAIN cloud_in}
  IN  \A i \in DOMAIN ranges :
        LET inSector == {p.range : p \in {q \in points : Accepted(q)
                           /\ q.angle >= i * angle_increment_ /\ q.angle < (i + 1) * angle_increment_}}
        IN  ranges[i] = Min(inSector \cup {Infinity})

(* A point within the limits has a ray, unless it lies at angle_max_ and the *)
(* opening angle is a multiple of the increment, as with the node's own      *)
(* defaults: then, and only then, its index is the number of rays.           *)
OnlyTheLastAngleHasNoRay ==
  \A i \in DOMAIN cloud_in :
    LET p == cloud_in[i]
    IN  Accepted(p) =>
          (Index(p) \in DOMAIN ranges
             <=> ~(p.angle = angle_max_ /\ angle_max_ % angle_increment_ = 0))

(* Destroying a node ends: for the first node at once, for the second, which *)
(* leaves its thread running, as soon as the context is shut down.         *)
UnloadEnds == (dtor = "join" /\ (kind = "cloud" \/ ~context_ok)) ~> (dtor = "done")

(* A listener that stays gets its data: the node subscribes to its input.  *)
ListenersAreServed ==
  (<>[](listeners > 0 /\ context_ok /\ alive_)) => <>[]subscribed

\* The nodes serve whoever listens with the nearest points, and can be unloaded.
ScansServeListeners ==
    [](RaysHoldTheNearestPoint /\ OnlyTheLastAngleHasNoRay) /\ UnloadEnds /\ ListenersAreServed
=============================================================================

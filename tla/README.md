# TLA+ models of the RMUC_2 sentry software

The repository is the software of an autonomous sentry robot (ROS 2): the
lidar odometry and navigation stack, a behaviour tree that decides what the
robot does in a match, and the serial link to the lower controller (MCU) that
delivers the referee's data and takes velocity and mode commands. This
directory models the parts that carry the robot's own decision and
communication logic, checks them with TLC and proves their main invariants with
TLAPS. All paths below are relative to the repository's `src/` directory.

## 1. The system

| Part | State it keeps | Operations | Interacts through |
|---|---|---|---|
| Behaviour tree `rmul_nuc_2026` (`pb2025_sentry_behavior`) | phase of each branch, retry counters, dwell timers, status conversion in progress | one tick every period | global blackboard (read), `/sentry_status` (write), Nav2 goals |
| `RosActionNode` / `SendNav2Goal` (`BehaviorTree.ROS2`) | goal handle, future, result, flags | `tick`, `halt`, `cancelGoal`, client callbacks | action client and executor shared by all nodes with one action name |
| `TreeExecutionServer` / `SentryBehaviorServer` and `SentryBehaviorClient` | action goals, execute thread, registered trees, blackboard | goal / cancel / accept callbacks, execute loop, subscriptions; send goal, result | ROS action, topics |
| `MappingMissionManager` | mission flags, goal index, two timers | game status, results, deadline, retry, save answers | Nav2 goals, two save services, `/mapping_bootstrap_finished` |
| `RMSerialDriver` | port, latest velocity and status | receive thread, two subscriptions, reopen | serial line, referee topics, `/sentry_status`, velocity topic |
| CRC of the packets (`rm_serial_driver`) | a 256-entry table | append, verify | called by the driver for every packet |
| Control, decorator, service and topic nodes (`pb2025_sentry_behavior`, `BehaviorTree.ROS2`) | retry counters, timers, pending response, last message | `tick`, `halt` | service client / subscriber instance shared between nodes |
| `CalculateAttackPose` | last place of the enemy | `tick` | costmap and target on the blackboard |
| `fake_vel_transform` | latest command, yaw, time of the last plan | callbacks, pairing of odometry and plan | `cmd_vel`, `local_plan`, odometry |
| `loam_interface`, `sensor_scan_generation` | mounting transform; previous pose and time | callbacks | clouds and odometry of FAST_LIO, tf |
| `pointcloud_to_laserscan` (two nodes) | alive flag, subscription | listener thread, cloud callback, destructor | topics |
| Pursuit controller | global plan, two PIDs | `setPlan`, `computeVelocityCommands` | Nav2 controller server, costmap |
| Nav2 plugins | back-up command; voxel grid and bounds | `onRun`, `onCycleUpdate`; `updateBounds`, `updateOrigin` | behaviour server, layered costmap |
| Terrain analysis (two nodes) | rolling grid of clouds, counters, clearing request | callbacks, main loop | clouds, `/map_clearing`, `/terrain_map` |
| FAST_LIO | buffers of scans and IMU messages, filter, k-d tree, local cube | callbacks, timer, rebuild thread | lidar and IMU topics, map service |
| `livox_ros_driver2` | configuration bits, packet queues, frames in the making | SDK callbacks, poll threads, shutdown | SDK, topics |

How they interact: the MCU sends frames; the serial driver publishes four
referee messages per frame; the behaviour server writes them on the global
blackboard; the tree, ticked by a thread of its own, reads them, sends Nav2
goals and publishes a status; the server reads that status back from the topic,
and the serial driver sends it to the MCU together with the velocity.

The velocity comes down another chain: the lidar driver cuts packets into
frames, FAST_LIO pairs them with IMU messages, registers each scan in a k-d tree
and publishes clouds and odometry; `loam_interface` and
`sensor_scan_generation` move them between frames; terrain analysis and the
voxel layer turn them into a costmap; the controller follows Nav2's plan in it
and `fake_vel_transform` turns its command into the chassis frame.

What is hard in it: callbacks change the blackboard inside a tick; callbacks of
one action node run inside the spins of another; a callback joins a thread
inside a mutually exclusive callback group; two threads reopen one port without
a lock; late results meet new activations; timers race results; a rebuild
thread exchanges parts of a tree that is in use; buffers, flags and global
arrays outlive what they were filled for; clocks jump back. The list
`hazards` in `PROJECT.json` names each place.

## 2. Modules

| Module | Models | Proofs |
|---|---|---|
| `SentryTree` | the tree `rmul_nuc_2026` and its condition nodes | `SentryTree_proofs` |
| `SentryTreeDwell` | `SentryTree` with a history variable for one property | |
| `RosActionNode` | one action node, its client, and the action server around it | `RosActionNode_proofs` |
| `TreeServer` | execution server, execute thread, client | `TreeServer_proofs` |
| `MappingBootstrap` | mission manager, Nav2 and map services, the gate in the server | `MappingBootstrap_proofs` |
| `SerialDriver` | both threads of the driver, the port, the wire | `SerialDriver_proofs` |
| `PointGeometry` | points, boxes, voxels and the ranges of subtrees on an integer grid | `Localisation_proofs` |
| `PointMap` | abstract specification of the map: a bag of points | |
| `IkdTree` | the k-d tree in the thread that owns the map; implements `PointMap` | |
| `IkdRebuild` | the rebuild thread beside that thread | `Drivers_proofs` |
| `FastLio` | buffers, timer, registration and prediction of the node | `Localisation_proofs` |
| `LocalMap` | the cube that moves with the lidar | `Localisation_proofs` |
| `EkfUpdate` | the iterations of the filter's update | `Localisation_proofs` |
| `Preprocess` | from a lidar message to a cloud | `Localisation_proofs` |
| `ScanFeatures` | surface and corner features of a line | `Localisation_proofs` |
| `LivoxConfig`, `LivoxStreams` | configuration; queues and poll threads | `Drivers_proofs` |
| `PacketQueues` | abstract specification of the packet queues; `LivoxStreams` implements it | |
| `LivoxFrames` | from packets to frames and messages | `Navigation_proofs` |
| `ScanChain` | `loam_interface` and `sensor_scan_generation`, composed | `Navigation_proofs` |
| `TerrainMap`, `TerrainBlocks` | rolling terrain map; the two in-place passes | `Navigation_proofs` |
| `IntensityLayer` | the voxel layer in a rolling costmap | `Navigation_proofs` |
| `OmniController` | one cycle of the pursuit controller | `Navigation_proofs` |
| `FakeVel` | `fake_vel_transform` | |
| `LaserScan` | both nodes of `pointcloud_to_laserscan` | `Drivers_proofs` |
| `BackUp` | `BackUpFreeSpace` | `Drivers_proofs` |
| `AttackPose` | `CalculateAttackPose` with `RosTopicPubNode::tick` | `Navigation_proofs` |
| `RecoveryNode`, `TickGates` | control node; `RateController` and `TickAfterTimeout` | `Drivers_proofs` |
| `RosServiceNode`, `RosTopicSubNode` | service and subscriber nodes with what they share | `Drivers_proofs` |
| `Crc` | table-driven CRC16 against bit-by-bit division | `Drivers_proofs` |

`MC...` modules instantiate them for TLC; a module whose constants are plain
numbers is checked as it stands. Three of them, `MCLocalisation`,
`MCNavigation` and `MCDrivers`, hold several components that do not interact at
the level modelled: the variable `focus`, fixed in the initial state, says which
one moves; the others keep one initial state. Every component is explored in full
and its properties are checked in the states where it moves; the state spaces add
up instead of multiplying.

Each module holds, before some definitions, an operator marked "Mutant" that
changes the definition the way a plausible slip in the code would; the
specifications never use these.

### SentryTree

The root is `KeepRunningUntilFailure(ForceSuccess(ReactiveSequence))`: every
tick asks the children from the first on. A tick is `StartTick` and then one
action per child (`check_game_start`, `check_mapping_bootstrap`,
`check_robot_status`, `IsBaseOK`, `OffenceAndDefence`) and one for the subtree
`StatusOuttimeConvert`; between any two of them `RefereeMsg` and `StatusMsg` may
change the blackboard and `NavResult` may end the goal. `br[b]` holds what the
nodes of a branch remember: which child of its Sequence or Fallback is active,
the state of `SendNav2Goal`, `try_count_`, `original_status_` and the rest of the
hold time. `timer[b]` is `IsStatusTimeOK` of that branch. `Running`, `Finished`
and `Passed` are what BehaviorTree.CPP's ReactiveSequence does with a child's
result, halting included; halting a converting branch publishes its original
status (`onHalted`) after what was published earlier in the tick, in the code's
order. Time is counted in ticks. The `SendNav2Goal` here is ideal: its real
protocol is the subject of `RosActionNode`.

### RosActionNode

One node and all goals it ever sends. `ack`, `code` and `resultTaken` are the
server's and the client's view of each goal; `handle`, `received` and `result`
are `goal_handle_`, `goal_received_` and `result_.code`. A spin takes any subset of
the waiting responses and results. `ForeignSpin` is a spin by another node with
the same action name: possible while this node is IDLE, and, in the other
node's `cancelGoal`, just after this node has sent its goal. rclcpp_action
forgets a goal once its result was taken and then throws
`UnknownGoalHandleError`; that, and the null dereferences the code can do, end
the behaviour in `err`.

### TreeServer

The callbacks of the node share the default, mutually exclusive group although
the executor has several threads; `joining` is the goal whose `handle_accepted`
is inside `join()`. `handle_goal` returns ACCEPT_AND_EXECUTE, so the action server
calls a goal executing from there on, during that join too, while the thread of the
goal before still runs. `wpc` is the execute thread. What the tree returns is left
open, an exception included. Reloading trees after a parameter change and lost
goal requests are left out.

### MappingBootstrap

One action per callback of the manager (its executor has one thread), the Nav2
server and the two services around it, and the two processes' start in either
order. A publication reaches the server only if its subscription exists, because
the subscription is volatile. (The launch file
`pb2025_sentry_nav/pb2025_nav_bringup/launch/rm_navigation_reality_launch.py` has the
node commented out at present; it is built and can be run.)

### SerialDriver and Crc

The wire is the offset of the next byte in the MCU's frame and the set of
payload offsets that hold the header value. The receive thread looks for the
header, reads the rest, and publishes if the bytes are one whole frame, which is
what `Verify_CRC16_Check_Sum` is taken to find out. `reopenPort` runs in both
threads step by step. `Fault` unplugs the device or loses bytes until `Settle`.
Port calls are atomic, and the driver starts with the port open and the test
packet sent; `dry_run` is left out.

`Crc` backs that assumption: it holds the table of the code and its loop over the
bytes, and compares them with the definition, a division bit by bit by
x^16 + x^12 + x^5 + 1. The code only moves bits and combines them by exclusive or,
so a byte or a register is the set of the bits that are set in it. An odd number of
flips, flips that lie within sixteen bits, and two flips anywhere in a packet are
refused; other damage may pass, as with every checksum.

### The map of FAST_LIO: PointMap, IkdTree, IkdRebuild, LocalMap

`PointMap` says what the map promises: a bag of points with insertions, voxel-wise
down-sampling, deletions by point and by box, and exact searches. Two things show
that a naive bag would not have: down-sampling keeps the point nearest to the
middle of its voxel, and deleted points are reported by `acquire_removed_points`
only once a rebuild has dropped them (`hidden`). `IkdTree` is the tree in the code's
order of work: `Push_Down` one level at a time, `Update` on the way up, the two
criteria of `Criterion_Check` and the in-place rebuild. `ImplementsPointMap` is the
refinement, with the live points, the deleted points still in the tree, the
report and the last answer as the mapping.

`IkdRebuild` is the other thread. A subtree there is the set of its points, so that
what is explored is the protocol: hand-over through `Rebuild_Ptr`, copy, build,
replay of `Rebuild_Logger`, swap, with the locks of the code and the counter that
shuts searches out. The subtrees are the sons of one father. A deletion of the father as
a whole leaves its sons untold (`marked`) until the next insertion comes past and
`Push_Down` tells them; the tree that is being rebuilt gets that through the logger as
PUSH_DOWN. Deletions that reach the father from a node above it, and searches of boxes,
which the node never makes, are not among the operations. `LocalMap` is `lasermap_fov_segment`, per axis.

### The node of FAST_LIO: FastLio, EkfUpdate, Preprocess, ScanFeatures

`FastLio` has one action per callback, because `rclcpp::spin` runs them in one
thread, and one for the timer, which does all of `sync_packages`, `Process` and the
registration in one step. Messages may be lost and stamps may jump back. Of the
filter's state only the time up to which it has been propagated is kept, of a scan
its stamp, duration and size. For a group without IMU messages `Process` returns at
once: the filter stays where it was, but its state is published with the group's end as its
stamp, and the prediction restarts from it (`skipped` is the time it lacks). `EkfUpdate` is the other side of that abstraction:
the iterations of `update_iterated_dyn_share_modified` with the global arrays
`h_share_model` leaves behind, without the matrices. `Preprocess` has one operator per
handler. Rings and lines index vectors of `N_SCANS` elements unchecked: the indexes outside
are kept in `outside`, and what such a message gives is any subset of its points with any
times (`StrayTimes`); `ScanFeatures` walks a line with the passes of `give_feature`, where geometry
is an arbitrary answer.

### The lidar driver: LivoxConfig, LivoxStreams, LivoxFrames

`LivoxConfig` is the configuration of an announced lidar, with answers and time-outs
that arrive in another thread between any two requests. `LivoxStreams` follows one
stream (clouds or IMU samples) from the storing thread through the ring or the list,
the semaphore and the poll thread to the publication, and through the shutdown. The
indices of the ring are plain `volatile` words and the semaphore's count is read
without its lock, so a store may become visible late (`buffered`); the indices wrap at
`IndexRange`. What both sides rely on is `PacketQueues`, a first-in first-out queue per
lidar; `ImplementsQueues` maps the ring onto it: the packets that wait are the slots
from `rd_idx` to `wr_idx`. `LivoxFrames` cuts packets into frames by the lidar's stamps
or the host's clock, on one flag for all lidars; `frame_` is the set of the packets of
the last frame. A packet may be lost, late or early and a lidar's clock may be set back; a
lidar without a time source gets its stamps from the host's clock, read in the callback,
which may stand still or jump either way between two packets. Two history variables say what
can still be claimed: `ordered` holds the lidars whose stamps have only grown, `steady`
those that since their last frame sent packet after packet without a gap while all were
synchronised. A `CustomMsg` has 32-bit nanosecond offsets, so its points have their
times only as far as those reach (`OffsetRange`, 4.3 s). With the lowest publish rate
and lidars of both kinds a frame may be longer than that; the property then claims the
order of the points, not the offset.

### From scans to the costmap: ScanChain, TerrainMap, TerrainBlocks, IntensityLayer, LaserScan

`ScanChain` composes `loam_interface` and `sensor_scan_generation`; transforms are
moves of a plane by a shift and quarter turns, so that their order matters. The odometry is
moved by the transform from lidar to robot base; it is published with its
place turned by a quarter turn, (y, -x), while the velocity is the difference of the
unturned places. The property relates the two as the code does. `TerrainMap` is the rolling grid of both terrain nodes, with
`node` saying whose sizes are used; a main-loop pass is one action. `TerrainBlocks` has
the two passes that work in place on one array, each voxel one step, so that the
walk's order matters: in the connectivity check a voxel gets the verdict of the first
front that decides about it, and one refused as ceiling is lost to a later front that could
have joined it. `IntensityLayer` places the voxel layer inside a rolling layered
costmap (external: Nav2 resets and refills only the window the layers report).
`LaserScan` has the listener thread of both nodes and the folding of a cloud. A point at
`angle_max_` may be given an index one past the last ray; that write changes no ray.

### From plans to wheels: OmniController, FakeVel, BackUp

`OmniController` is one cycle per step on a line of whole numbers; it prunes
`global_plan_` in place. `FakeVel` models the pairing of odometry and plans by their
stamps and the direct path of zero velocities. `BackUp` is the whole life of a
command, with services that may be late or missing. The way is looked at in the global frame
by samples one resolution apart, which may pass over the corner of a cell when it is
oblique; the pose is looked up again after that check; and the velocity has in the base frame
the components that were found in the global one. So the way driven is the way looked at
only while the axes of both frames agree and the second place is the first. The
repository configures `gimbal_yaw_fake` as base frame
(`pb2025_sentry_nav/pb2025_nav_bringup/config/reality/nav2_params.yaml`), whose yaw
`fake_vel_transform` keeps near that of its parent.

### Nodes of behaviour trees: AttackPose, RecoveryNode, TickGates, RosServiceNode, RosTopicSubNode

Each module is one class with the parent and children around it free to tick,
halt and reset as BehaviorTree.CPP allows. What nodes share is in the state: the
service client and its executor, the subscriber instance with its registry of
weak pointers; a class may keep its last message (`latchLastMessage`). `TickGates` runs on a clock and counts successes, which is what the
two rate properties compare with time.

## 3. Runs

| Run | Expectation | What it shows |
|---|---|---|
| `tree` | pass | one active branch; the temporary status is always owned by a RUNNING `StatusConvert` and always replaced; an abort for want of a status heals, and outside the match the sentry settles in status 3 (`TreeSettles`) |
| `tree_dwell` | violation | a conversion may start although the status changed within the timeout |
| `action_node` | pass | once the response is taken a halt reaches the goal; with a prompt server a node reports its own goal's result and is IDLE only when nothing runs at the server |
| `tree_server` | pass | one tree at a time; cancels end goals, the next goal follows and the blackboard is served (client started once) |
| `tree_server_restart` | violation | a restarted client blocks all callbacks of the server |
| `mapping` | pass | one chain of guide goals; gate opened only after both saves, never closed again, and opened if the saves work |
| `mapping_timeout` | violation | guide goals are sent after the deadline's cancel |
| `serial` | pass | a sent packet carries the latest values; port, frame synchronisation and lost values recover; the receive thread ends (`LinkRecovers`) |
| `localisation` | pass | `IkdTree` implements `PointMap`; scans, IMU messages and times stay paired, no interval is skipped or integrated twice, and only a group without IMU messages is stamped later than its state; the cube follows the lidar and deletes exactly what it leaves; an update uses its own scan's neighbours and ends with a posterior covariance; kept points are usable and timed in the order of the sweep; surfaces are disjoint and none is forgotten |
| `navigation` | pass | frames keep their points' times in whatever order and at whatever distance packets come; scans return to the lidar's frame and velocities are of the motion, but for the quarter turn; points stay near their terrain cell, near ones are shown, clearing clears; rounds in place count the distance to data, and the search in place marks terrain that hangs together and keeps the first verdict on each voxel; the costmap shows the current obstacles; attack places are free; pruning, speed limits and collision samples of the controller keep their bounds |
| `drivers` | pass | a sampling lidar is configured and an announced one samples; packets keep their slots, the ring implements a queue, its packets are delivered, and a shutdown ends; a rebuild is invisible, shuts searches out and ends; a kept command is used; listeners are served, unloading ends; a back-up along the axes it was checked in moves through free cells, and it stops and ends; recovery gives every attempt and is done; a response is of its request; subscribers get the newest message once and nobody writes to a destroyed node; rates and spacings hold; the checksum guards the packet |
| `fake_vel` | violation | the command before a stop is published again after it |

Many properties are conjunctions of named parts: the module states and
explains each part, and the last definition of the module puts them together.
Types are not checked by a run of their own: `TypeOK` of the core modules is
a theorem or part of an inductive invariant instead.

The violations are disagreements between a comment, port description or log line
and the code; `findings` in `PROJECT.json` quotes the lines.

Weak spots that the models reach and the properties exclude, each by a condition
of its own. In `RosActionNode`, a halt before the goal's response is taken uses
the handle of an earlier goal and throws (the package's README warns of it), and a
result taken inside another node's halt may be dropped. In `Preprocess`, an empty
ring of OUST64 is measured over its end, and rings and lines outside `N_SCANS` index outside
the vectors (`StrayClouds`). In `FastLio`, a single lidar whose clock
jumps back gets scans and times out of step, and a group without IMU messages is published
with an older state. In `TerrainBlocks`, a ceiling mark depends on which front comes first. In
`LivoxFrames`, packets that come out of order or from a clock set back leave the points of a
frame out of order. In `LaserScan`, a point at `angle_max_` is written past the last ray
when the increment divides the opening angle, as the defaults do. In `IkdRebuild`, a
subtree handed over with operations left in the logger. In `BackUp`, a lost pose ends the
command without stopping the robot; a turned base frame, or a second lookup that finds
another place, leads off the cells that were looked at; and the samples of an oblique way may
pass over the corner of a lethal cell. In `RosTopicSubNode`, a node that changed its topic stays
connected to the old one. The notes under `hazards` give the lines. One smaller
disagreement, not run: `behaviortree_ros2/tree_execution_server.md:57` says
`was_cancelled` is true in the first of its cases (tree completed), the code passes
true when the tree was stopped.

### Bounds and why they are enough

* `SentryTree`: each message set holds both sides of its condition; timeouts and
  hold time of one tick and two attempts make "not yet", "just" and "beyond"
  reachable; a queue of two lets a status wait behind another one. The real values
  (290 s, 5 s, 10, 10) only lengthen stuttering phases. `tree_dwell` uses a timeout of
  two so that a change can fall inside it.
* `RosActionNode`: three goals: the current one, the one whose handle is stale,
  and one more whose result is late. Initial choices (`prompt`, `shared`) cover all four
  deployments: a server that always answers in time or not, a client shared with
  other nodes or the node's own.
* `TreeServer`: three goals (predecessor, current, successor), one restart.
* `MappingBootstrap`: the code's three goals; nothing else is bounded.
* `SerialDriver`: frames of three bytes have a header, a payload byte that may look
  like one, and an end; two velocities; statuses on both sides of the clamp.
* `Crc`: every byte value after a header, longer packets; single, double and triple
  flips, and bursts of sixteen bits at every position relative to a byte's start.
* `IkdTree`: four points with equal coordinates and shared voxels among them, three
  operations after the build, and limits so low that both rebuild criteria are met.
* `IkdRebuild`: three points in two subtrees, three operations, two searches: one
  inside when the thread wants to start, one that comes while it works. One box holds a
  point, the other all of them, so that the father is deleted as a whole.
* `FastLio`: up to four scans and five IMU messages per configuration, with one jump
  back, so that a jump hits every state of the pairing.
* `LocalMap`: two axes and a step smaller than the margin, as the code expects.
* `EkfUpdate`: two points, three iterations, three updates.
* `Preprocess`, `ScanFeatures`: all messages of up to four points over a small set of
  kinds, long lines with repeated points; lines around the group size.
* `LivoxConfig`: a configured and an unknown lidar, three announcements.
  `LivoxStreams`: a ring of two slots and indices below four, so both the full ring and
  the wrap occur. `LivoxFrames`: two lidars, an interval of two milliseconds and five
  packets, enough for two frames in a row and a lidar that lags behind; a gap in the stamps
  is two half milliseconds or three, and the host's clock may move by four either way.
* `ScanChain`: turned and unturned poses, mounts and robot bases, three frames.
* `TerrainMap`: one time step between two scans, vehicle places on both sides of the
  origin; `TerrainBlocks`: a five by five array of which five voxels have data, with all
  heights from 0 to 3, so that two fronts reach the same voxel with different verdicts.
* `LaserScan`: an opening angle that is a multiple of the increment, with points on its end
  and beyond. `BackUp`: three by three cells, a straight heading and an oblique one
  (3-4-5), so that samples do pass over a cell.
* `OmniController`: a straight plan, one that passes the robot twice and a coarse
  one; `IntensityLayer`: hits at the ends of every limit; `AttackPose`: enemies inside,
  outside and at the origin, which the code takes for "none".
* Nodes of trees: two nodes and two names where something is shared; three
  requests or retries; a clock of six ticks with periods of two and three.

### Fairness

* `SentryTree`: the execution loop ticks, the client resends an aborted goal, a
  published status is delivered. Nothing of the referee or of Nav2.
* `TreeServer`: ready callbacks run unless the group is blocked; the execute
  thread takes its steps, and a requested cancel is noticed because every tick
  returns; no assumption that a tree ends. "Client started once" is a hypothesis of
  the liveness properties, and the violation run drops it.
* `MappingBootstrap`: processes start, armed timers fire, called services answer,
  received messages are handled. Nothing about navigation goals.
* `SerialDriver`: each thread keeps running and the MCU keeps sending. Recovery of
  the receiver is claimed only if the executor stops reopening the port, and
  delivery only if the receiver does: each can starve the other.
* `LivoxConfig`: the announcing thread goes on, and every command is answered, with a
  refusal or a time-out if need be: the SDK reports both.
* `LivoxStreams`: both threads run, a store becomes visible, and (strongly fair,
  because the storing thread is busy in between) a sampling lidar keeps sending.
* `IkdRebuild`: both threads run and a search that is inside ends.
* `FakeVel`: odometry and plans keep coming and pairs are delivered; nothing about
  commands. `LaserScan`: the listener thread and the join run. `BackUp`: cycles and the
  clock go on.
* `RecoveryNode`: a RUNNING node is ticked again, and a child that is ticked again and
  again ends. `RosServiceNode`: the node is ticked and its time-out is noticed; nothing
  about the service.
* The other modules claim no liveness.

## 4. Proofs

Each module with theorems proves `Spec => []Inv` for an inductive invariant `Inv` and
derives the listed theorems from it, for every value of the constants under the
named assumptions of the modules. These assumptions ask for the kinds of numbers
the code has (lengths, widths and rates that are not zero, heights and distances
that are numbers, finitely many lidars and points) and for little else; the ones
that say more are named below. Every bound that only keeps the state space finite
(`MaxFrames`, `MaxTime`, ...) is left arbitrary. No theorem assumes fairness.

### The core

* `SentryTree_proofs`: `TypeOK`, `OneBranchActive` and `TemporaryStatusOwned`, the
  latter two not inductive alone. `BranchInv` adds which phase each branch may be in
  at each step of the tick (a branch in its dwell check is the one the program
  counter names) and that a tree that is down has only idle branches, so that the
  new tree of `ExecuteAgain` owes nobody a status.
* `RosActionNode_proofs`: `ClientInv` says goals are sent in order, results are
  taken only after responses, and, with an own client, nobody has taken the response
  of a goal whose node is still waiting for it. For the two properties of a prompt
  server `PromptInv` adds that no cancel waits and every goal before the current one
  is settled, a handle that is kept across an activation is of an earlier goal, and a
  result that was taken is the current goal's: this is what makes the comparison of goal
  ids in `result_callback` sufficient.
* `TreeServer_proofs`: `ThreadInv` ties the goal states to the execute thread: an
  executing goal has the live thread or waits in `joining` for the one before to end.
* `MappingBootstrap_proofs`: before the start nothing is sent; an armed retry timer
  means the current goal is unsent; the saves happen in order; a `TRUE` on its way to
  the server comes after every `FALSE` (which is why the gate stays open) and after
  the saves.
* `SerialDriver_proofs`: `SendInv` says that the packet being sent is the latest one
  from its composition to the write.

### Localisation_proofs

* `FastLio`: `LioInv` keeps the time buffer at least as long as the scan buffer and a
  group's scan at the head of the buffer while it is pushed. `ScansKeepTheirTimes` and
  `NoScanIsLost` follow, with the condition the code needs (two lidars, or no stamp
  that goes back). `OdomInv` adds where an odometry's cloud comes from. `TimesInv`
  is about the filter's time: while the stamps of the IMU do not go back, the messages
  that wait are in order and none of them is older than the end of the last scan that
  the filter was propagated to, nor is the filter's last message younger (`FilterInv`);
  the prediction keeps its last message whatever scan it restarts from and lacks just what
  the state it restarted from lacked (`PredictInv`). `LagCorrect` is the step property
  `OnlyEmptyGroupsLag`, from `TimesInv` (`OnTime`).
  That the steps of `UndistortPcl` and of the prediction add up follows from
  their partial sums (`TotalIs`), that `sync_packages` splits the messages at the end
  of the scan from their order (`ImuOfSplits`). `NodeCorrect` puts the parts together.
* `LocalMap`: `CubeFollowsTheLidar` is inductive together with the types. The
  assumption on the lengths is what the argument needs: a margin that a step cannot
  jump over, and a move that is at least one step and at most what lies between the
  margins. `AxisInside` and `SlabIsLeft` are the arithmetic of one axis.
* `EkfUpdate`: `SearchInv` adds that an iteration that does not search finds the
  neighbours of its scan.
* `Preprocess` (`CloudsCorrect`): a handler makes its cloud of one message alone, so the
  invariant `CloudInv` only says of each cloud what its handler gives it; the lemmas carry the
  proof. `InOrderLists`: picking the members of a set by rank lists each once, in
  order. `Chained`: times that follow from those of earlier points exist. `AllTurned`:
  by the least point for which it would fail, the swept angle and the direction differ
  by whole turns, and a time within the first turn is that angle (`TurnedOn`). It needs
  directions above -180 and up to 180 degrees, as `atan2` gives them but for a `y` of
  -0.0, and that no PointCloud2 message comes from an AVIA, whose node subscribes to
  livox messages. What it says of order and of usable points it says of the messages that
  index no vector outside its `N_SCANS` elements (`outside`); of the others it claims nothing.
* `ScanFeatures`: `TakeInv` describes the last pass in the middle of a line: the open
  run, the points behind the front, and that each plane point behind it is covered
  by a run. Each earlier pass only has to keep the blind points unmarked.
* `PointGeometry` (`PruningIsExact`): what the searches and the deletions by box do with
  the range of a node is right for every point in the range of a part that `Update` has
  joined (`HullHolds`), at any distance and not only on the grid of the run. The comparison
  of balls, which the code does with square roots, is `BeyondTheRadius` and
  `WithinTheRadius`: the scalar product of the way to the range's centre and the way
  from there to the point is bounded by Cauchy and Schwarz (`ScalarProduct`) and the
  point lies no farther from the centre than a corner (`CornerIsFarthest`).
  `VoxelsPartSpace`: a down-sampling only concerns the points of one voxel. They are the
  part of `ImplementsPointMap` that speaks of no tree, and so can be proved.

### Navigation_proofs

* `AttackPose`: the place where the enemy was last seen is kept with the goal; the free
  places come from the bounds of the costmap (division with remainder).
* `IntensityLayer`: `LayerInv` ties the cells of the layer to the bounds that the last
  cycle reported (`Reported`), since Nav2 only copies what lies inside them;
  `TouchedHolds` and the monotonicity of `worldToMap` carry it from one cycle to the next.
* `ScanChain`: `ChainInv` relates the cloud and the odometry of a frame wherever they
  are on their way: once the transform is known both have been moved by the same one, and
  what was published is the previous place with its quarter turn. `Composed` and
  `BackAtTheOrigin` are the algebra of the transforms.
* `TerrainBlocks`: `RingInv` says how far the edge of each voxel has been counted in the
  middle of a round over one array: the voxels the walk has passed are one round
  ahead. It holds because an edge that is one too deep stands for a ring without
  data (`Towards`). `ConnInv` says that the voxels marked to be searched are queued, those
  searched are listed as fronts, and that each mark is the verdict of the first front that
  reaches the voxel and decides (`FirstFrontDecides`, which is inductive together
  with these): `QueueStep` is what one front adds.
* `TerrainMap`: `TerrInv` adds to `PointsStayNearTheirCell` that clouds are finite (the
  nearest point of a voxel and the lowest of a neighbourhood exist) and the
  vehicle's place is one of the places. `RolledIsNear` is the argument of the rolling: after
  it the vehicle is at most one cell away from the middle, so a point is put within
  one and a half cells. The shown region, the clearing and the elevation follow per
  scan.
* `OmniController`: pruning starts at the first pose, whose distance along the plan is 0,
  so a nearest pose exists; the PID's clamp, the two limiters and the distance between
  samples are arithmetic with division.
* `LivoxFrames`: `CloudsInOrder` and `FrameInOrder` say that the points an ordered lidar
  holds back are in order and younger than those of the last frame. `SteadyFromCut` is
  the argument for the length of a frame: the last frame of a steady lidar ended with an
  interval of its clock, and the packets since then followed without a gap (`CutAt`),
  hence the frame is due exactly at the end of the next interval and spans enough for
  `CheckTimer`'s second condition (`HeldBackOrCut`, `FollowedCut`). Nothing is assumed of
  the stamps of the others, which `OffsetsStartAtBase` only relates to their frame's base.

### Drivers_proofs

* `TickGates`: `PassesAreRated` for every period and `SuccessesAreSpaced` for
  every set of timeouts, over any length of time. The first needs `TimerInv` (the
  successes so far fit between the activation and the start of the timer), the
  second `SpacedInv` (they fit before the last success) and the lemma that the
  shortest timeout is a timeout.
* `RosTopicSubNode`: `NodeInv` says that a node that has never changed its topic is
  connected to its instance and no other, and what it has still to process; `ReadInv`
  that no message that was read is queued again.
* `LivoxConfig` (`SamplingMeansConfigured`): the options that are neither set, nor
  confirmed, are those that the running callback has still to ask for.
* `LivoxStreams` (`PacketsKeepTheirSlot`): `RingInv` counts the slots in use modulo
  `IndexRange`, with a store to `wr_idx` that is not visible yet. The assumption that
  the index range is a multiple of the queue size is the code's (sizes are powers of two).
  `QueuesCorrect` is the refinement of `PacketQueues`: by `RingInv` the ring holds the
  numbers from `rd_idx` on (`Numbered`), of which `QueuePushAny` appends the next and
  `QueuePop` takes the first; the steps of all the other threads map to stutters.
* `IkdRebuild` (`SearchIsShutOut`, `SwapIsInvisible`): `LockInv` is what the rebuild
  thread holds at each of its lines, `SearchInv` the meaning of the counter, `ReplayInv`
  that the logger, applied in order with its PUSH_DOWNs, gives the new tree what it lacks
  (`ReplaysTheNext`), together with the visits the map's thread has still to make.
* `LaserScan` (`RaysHoldTheNearestPoint`): `ScanOf` folds a cloud with a recursive function.
  That the function exists, and that its value after n points is the least range of the
  first n in each sector, both follow from the least number for which they would fail.
  Nothing is assumed of the increment: `OnlyTheLastAngleHasNoRay` says that an index is past
  the rays only for a point at `angle_max_` itself and an increment that divides the range.
* `BackUp`, `RecoveryNode`, `RosServiceNode`: `AlignedMoveIsThroughFreeCells` and
  `EndOfMoveStops`, for which `SamplesSkipNoCell` says that samples along an axis leave no
  cell out;
  `FailsAfterAllAttempts`; `ResponseIsOfItsRequest`. Each is a safety conjunct of a
  property whose other conjuncts are liveness.
* `Crc` (`ChecksumGuardsThePacket`), for packets of any length and content.
  `TableOfEightSteps` compares each of the 256 constants with eight steps of the
  division, and `StepIsEight` is the identity behind the table: the step for a byte is
  eight steps on the register with the byte in it (`EightBitsDetermine`: the upper half only moves down).
  That the two loops run through the same registers follows byte after byte
  (`ChecksumIsDivided`, `RemainderIsDivided`). The division respects exclusive or, so
  two messages have registers that differ by the division of their difference, the
  flipped bits. `Window` is that division with the flipped bits entering one at a
  time, and a packet that was damaged is taken just when its window ends empty
  (`TakenJustWhenEmpty`). It does not: a window that holds something never
  becomes empty again unless a bit enters (`DamageStays`, `BurstStays`); the number of
  bits in it stays odd when it is odd, because the polynomial flips an even number with
  the one that leaves (`OddStays`); and one bit alone does not come back to one bit
  alone within the length of a packet (`NeverAloneAgain`), so that a second bit cannot
  cancel it (`PairStays`). `DamagesAssumption` names these three kinds of damage and
  `PayloadsAssumption` a packet with data in it.

### Only model-checked

* All liveness: `StartedLeadsToReleased`, `TemporaryStatusEnds`, `TreeSettles`,
  `GoalsAreServed`, `LinkRecovers`, `KeptCommandIsUsed`, and the liveness conjuncts of
  `LidarsAreConfigured`, `PacketsArrive`, `RebuildIsInvisible`, `ScansServeListeners`,
  `BackUpIsSafe`, `RecoveryIsComplete` and `ServiceNodeIsAnswered`.
* `ImplementsPointMap`: the tree is recursive data and its operators are RECURSIVE. That
  its queries compare ranges rightly is proved (`PruningIsExact`).
* The expected violations.

## 5. Not modelled, and what could follow

* Floating-point numerics: the filter's matrices, plane fits, geometry of features,
  the fit of a circle through the path, `laser_geometry`. The models take their answers
  as arbitrary.
* FAST_LIO: `map_incremental`'s choice of points, `Add_Point_Boxes` and
  `Add_by_range`, which nothing calls, the filter variants the node does not use, the
  vendored plotting header `matplotlibcpp.h`.
* livox driver: parsing of the configuration file, coordinate conversion, ROS 1 and
  bag outputs.
* Controller: the rotation PID and the velocity-scaled look-ahead. `BackUp`: the choice
  among directions and the markers.
* Nodes that copy ports into one message (`pub_*`), `IsAttacked`, `IsDetectEnemy`, the
  tree variants that are not run by default, logging and plugin loading.
* Launch files, message definitions and simulation assets.

Proofs that could follow: `ImplementsPointMap`, with the operators of the tree as
recursive functions on its paths.

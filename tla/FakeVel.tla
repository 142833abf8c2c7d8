------------------------------- MODULE FakeVel -------------------------------
(***************************************************************************)
(* FakeVelTransform: commands of the controller, given in a frame with a   *)
(* fixed yaw, are turned into the frame of the robot.  A command carries   *)
(* no time, so it is kept until an odometry message and a local plan have  *)
(* been paired by their stamps, and the yaw of that odometry is used.      *)
(* Commands are numbered, 0 is the zero velocity.                          *)
(***************************************************************************)
EXTENDS Integers

CONSTANTS Yaws, MaxCommands

ASSUME FakeVelAssumption == Yaws # {} /\ MaxCommands \in Nat

NoCommand == -1                   \* latest_cmd_vel_ is null

VARIABLES spin_speed_,
          active,                 \* a plan came within CONTROLLER_TIMEOUT
          current_robot_base_angle_,
          latest_cmd_vel_,
          commands,               \* number of the last non-zero command
          received,               \* the last command received, NoCommand at first
          unpaired,               \* odometry and plans the synchronizer holds
          sent                    \* the last command published: [cmd, spin, how]

fakeVars == <<spin_speed_, active, current_robot_base_angle_, latest_cmd_vel_, commands, received, unpaired, sent>>

FakeInit ==
  /\ active = FALSE /\ spin_speed_ = 0
  /\ current_robot_base_angle_ \in Yaws
  /\ latest_cmd_vel_ = NoCommand /\ commands = 0 /\ received = NoCommand
  /\ unpaired = [odom |-> {}, plan |-> FALSE]
  /\ sent = [cmd |-> NoCommand, spin |-> 0, how |-> "none"]

cmdSpinCallback(speed) ==
  /\ spin_speed_' = speed
  /\ UNCHANGED <<active, current_robot_base_angle_, latest_cmd_vel_, commands, received, unpaired, sent>>

\* the subscriber calls odometryCallback first, then the synchronizer
odometryCallback(yaw) ==
  /\ current_robot_base_angle_' = IF active THEN current_robot_base_angle_ ELSE yaw
  /\ unpaired' = [unpaired EXCEPT !.odom = {yaw}]
  /\ UNCHANGED <<spin_speed_, active, latest_cmd_vel_, commands, received, sent>>

localPlanCallback ==
  /\ active' = TRUE
  /\ unpaired' = [unpaired EXCEPT !.plan = TRUE]
  /\ UNCHANGED <<spin_speed_, current_robot_base_angle_, latest_cmd_vel_, commands, received, sent>>

\* more than CONTROLLER_TIMEOUT since the last plan
ControllerTimeout ==
  /\ active
  /\ active' = FALSE
  /\ UNCHANGED <<spin_speed_, current_robot_base_angle_, latest_cmd_vel_, commands, received, unpaired, sent>>

\* a zero velocity, or one that cannot be synchronized, is published at once
Direct(cmd) ==
  /\ sent' = [cmd |-> cmd, spin |-> spin_speed_, how |-> "direct"]
  /\ UNCHANGED latest_cmd_vel_

cmdVelCallback(cmd) ==
  /\ received' = cmd
  /\ commands' = IF cmd = 0 THEN commands ELSE cmd
  /\ \/ (cmd = 0 \/ ~active) /\ Direct(cmd)
     \/ cmd # 0 /\ active /\ latest_cmd_vel_' = cmd /\ UNCHANGED sent
  /\ UNCHANGED <<spin_speed_, active, current_robot_base_angle_, unpaired>>

(* Mutant: a pair that comes late is not used any more.                    *)
syncCallbackWhileActive(yaw) ==
  /\ yaw \in unpaired.odom /\ unpaired.plan
  /\ unpaired' = [odom |-> {}, plan |-> FALSE]
  /\ IF latest_cmd_vel_ = NoCommand \/ ~active
     THEN UNCHANGED <<current_robot_base_angle_, sent>>
     ELSE /\ current_robot_base_angle_' = yaw
          /\ sent' = [cmd |-> latest_cmd_vel_, spin |-> spin_speed_, how |-> "synced"]
  /\ UNCHANGED <<spin_speed_, active, latest_cmd_vel_, commands, received>>

\* the synchronizer has found an odometry message close to a plan
syncCallback(yaw) ==
  /\ yaw \in unpaired.odom /\ unpaired.plan
  /\ unpaired' = [odom |-> {}, plan |-> FALSE]
  /\ IF latest_cmd_vel_ = NoCommand
     THEN UNCHANGED <<current_robot_base_angle_, sent>>
     ELSE /\ current_robot_base_angle_' = yaw
          /\ sent' = [cmd |-> latest_cmd_vel_, spin |-> spin_speed_, how |-> "synced"]
  /\ UNCHANGED <<spin_speed_, active, latest_cmd_vel_, commands, received>>

FakeNext ==
  \/ \E speed \in {0, 1} : cmdSpinCallback(speed)
  \/ \E yaw \in Yaws : odometryCallback(yaw)
  \/ localPlanCallback
  \/ ControllerTimeout
  \/ \E cmd \in {0, commands + 1} : cmd <= MaxCommands /\ cmdVelCallback(cmd)
  \/ \E yaw \in Yaws : syncCallback(yaw)

(* Odometry and plans keep coming, and what can be paired is paired.       *)
FakeFairness ==
  /\ WF_fakeVars(\E yaw \in Yaws : odometryCallback(yaw) /\ unpaired.odom = {})
  /\ WF_fakeVars(localPlanCallback)
  /\ WF_fakeVars(\E yaw \in Yaws : syncCallback(yaw))

FakeSpec == FakeInit /\ [][FakeNext]_fakeVars /\ FakeFairness

(***************************************************************************)
(* Properties                                                              *)
(***************************************************************************)
(* As long as plans and odometry keep coming, a command that was kept is   *)
(* published or replaced by a later one, whatever times out in between.    *)
KeptCommandIsUsed ==
  \A c \in 1 .. MaxCommands :
     (latest_cmd_vel_ = c) ~> (sent.cmd = c \/ latest_cmd_vel_ # c)

(* What the comment on the synchronizer assumes: the command published for *)
(* a plan is the one that was received with it, the latest.                *)
SyncedCommandIsCurrent == [][sent'.how = "synced" /\ sent' # sent => sent'.cmd = received]_fakeVars
=============================================================================

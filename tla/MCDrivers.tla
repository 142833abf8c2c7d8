----------------------------- MODULE MCDrivers -----------------------------
(* Model-checking instance of the parts that have threads, timers or         *)
(* retries of their own: the configuration and the streams of the lidar      *)
(* driver, the rebuild thread of the k-d tree, the velocity transform, the   *)
(* laser scan nodes, the behaviour that backs up, nodes of behaviour trees   *)
(* and the checksum of the serial line.  Each initial state chooses one      *)
(* component, which then moves alone and under its own fairness.             *)
EXTENDS LivoxConfig, LivoxStreams, IkdRebuild, FakeVel, LaserScan, BackUp, RecoveryNode,
        RosServiceNode, RosTopicSubNode, TickGates, Crc, TLC

VARIABLE focus

MCUserConfigs == "a" :> {"DataType", "ScanPattern"}

MCSubtreeOrder == <<"L", "R">>
MCHome == "p1" :> "L" @@ "p2" :> "L" @@ "p3" :> "R"

Ray(angle, range, ok_) == [angle |-> angle, range |-> range, ok |-> ok_]
MCClouds ==
    {<<p, q, Ray(2, 3, TRUE)>> :
        p \in {Ray(2, 2, TRUE), Ray(6, 1, TRUE), Ray(7, 1, TRUE)},
        q \in {Ray(5, 2, TRUE), Ray(2, 1, FALSE)}}

\* Along an axis and oblique; both samples and the cell between them may be lethal.
MCHeadings == {<<5, 0>>, <<4, 3>>}
MCStarts == {<<110, 60>>, <<40, 130>>}
MCCostmaps == {{}, {<<1, 1>>}, {<<1, 0>>, <<2, 2>>}}

\* Every byte after the header, and longer packets; single, double and triple
\* flips, and bursts.
MCPayloads == {<<Bits(90), Bits(b)>> : b \in 0 .. 255}
              \union {<<Bits(90), Bits(255), {}>>, <<Bits(165), {0}, {7}, Bits(7)>>}
MCDamages == {{b} : b \in 0 .. 31} \union {{3, b} : b \in {4, 10, 11, 17, 24, 31}}
             \union {0 .. 15, 5 .. 20, 16 .. 31, {9, 12, 17, 24}, {0, 13, 31}}

treeVars == <<recoveryVars, srvVars, subVars, gateVars>>
vars == <<focus, cfgVars, streamVars, rebuildVars, fakeVars, laserVars, backVars, treeVars, crcVars>>

\* Of a component that is not chosen only one initial state is needed.
Init ==
    /\ focus \in {"config", "streams", "rebuild", "velocity", "scan", "backup", "recovery",
                 "service", "topic", "gates", "crc"}
    /\ CfgInit /\ (focus # "config" => map_index_ = DOMAIN UserConfigs)
    /\ RebuildInit
    /\ FakeInit /\ (focus # "velocity" => current_robot_base_angle_ = CHOOSE y \in Yaws : TRUE)
    /\ StreamInit /\ (focus # "streams" => stream = "imu")
    /\ LaserInit /\ (focus # "scan" => kind = "cloud")
    /\ BackInit
    /\ (focus # "backup" => place = (CHOOSE x \in Starts : TRUE) /\ heading = CHOOSE h \in Headings : TRUE)
    /\ RecoveryInit
    /\ SubInit /\ (focus # "topic" => topicPort = [n \in SubNodes |-> CHOOSE t \in SubTopics : TRUE])
    /\ GateInit
    /\ CrcInit
    /\ SrvInit /\ (focus # "service" => namePort = CHOOSE n \in ServiceNames : TRUE)

Next ==
    /\ UNCHANGED focus
    /\ \/ /\ focus = "config" /\ CfgNext
          /\ UNCHANGED <<streamVars, rebuildVars, fakeVars, laserVars, backVars, treeVars, crcVars>>
       \/ /\ focus = "streams" /\ StreamNext
          /\ UNCHANGED <<cfgVars, rebuildVars, fakeVars, laserVars, backVars, treeVars, crcVars>>
       \/ /\ focus = "rebuild" /\ RebuildNext
          /\ UNCHANGED <<cfgVars, streamVars, fakeVars, laserVars, backVars, treeVars, crcVars>>
       \/ /\ focus = "velocity" /\ FakeNext
          /\ UNCHANGED <<cfgVars, streamVars, rebuildVars, laserVars, backVars, treeVars, crcVars>>
       \/ /\ focus = "scan" /\ LaserNext
          /\ UNCHANGED <<cfgVars, streamVars, rebuildVars, fakeVars, backVars, treeVars, crcVars>>
       \/ /\ focus = "backup" /\ BackNext
          /\ UNCHANGED <<cfgVars, streamVars, rebuildVars, fakeVars, laserVars, treeVars, crcVars>>
       \/ /\ focus = "recovery" /\ RecoveryNext
          /\ UNCHANGED <<cfgVars, streamVars, rebuildVars, fakeVars, laserVars, backVars, srvVars,
                         subVars, gateVars, crcVars>>
       \/ /\ focus = "service" /\ SrvNext
          /\ UNCHANGED <<cfgVars, streamVars, rebuildVars, fakeVars, laserVars, backVars,
                         recoveryVars, subVars, gateVars, crcVars>>
       \/ /\ focus = "topic" /\ SubNext
          /\ UNCHANGED <<cfgVars, streamVars, rebuildVars, fakeVars, laserVars, backVars,
                         recoveryVars, srvVars, gateVars, crcVars>>
       \/ /\ focus = "gates" /\ GateNext
          /\ UNCHANGED <<cfgVars, streamVars, rebuildVars, fakeVars, laserVars, backVars,
                         recoveryVars, srvVars, subVars, crcVars>>
       \/ /\ focus = "crc" /\ CrcNext
          /\ UNCHANGED <<cfgVars, streamVars, rebuildVars, fakeVars, laserVars, backVars, treeVars>>

Fairness ==
    \/ focus = "config" /\ CfgFairness
    \/ focus = "streams" /\ StreamFairness
    \/ focus = "rebuild" /\ RebuildFairness
    \/ focus = "velocity" /\ FakeFairness
    \/ focus = "scan" /\ LaserFairness
    \/ focus = "backup" /\ BackFairness
    \/ focus = "recovery" /\ RecoveryFairness
    \/ focus = "service" /\ SrvFairness
    \/ focus \in {"topic", "gates", "crc"}

Spec == Init /\ [][Next]_vars /\ Fairness
=============================================================================

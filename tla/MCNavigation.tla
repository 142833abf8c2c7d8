---------------------------- MODULE MCNavigation ----------------------------
(* Model-checking instance of what lies between the lidar's packets and the  *)
(* wheels' velocity: frames of packets, the chain of scans and odometry, the *)
(* terrain map with its searches on planar voxels, the costmap layer, the    *)
(* choice of a place to attack from, and the controller.  Each initial state *)
(* chooses one component, which then moves alone.                            *)
EXTENDS LivoxFrames, ScanChain, TerrainBlocks, TerrainMap, OmniController, IntensityLayer,
        AttackPose

VARIABLE focus

MCGaps == {2, 3}
MCHostSteps == {-4, 4}

At(x, y, yaw) == [place |-> <<x, y>>, yaw |-> yaw]
MCPoses == {At(0, 0, 0), At(3, 1, 1)}
MCMounts == {At(1, 0, 0), At(1, 2, 3)}
MCRobotBases == {At(0, -1, 0), At(1, 0, 2)}

MCSurveyed == {<<2, 2>>, <<1, 1>>, <<1, 2>>, <<0, 1>>, <<2, 1>>}

MCScanPoints == {<<0, 0, 0>>, <<1, 0, 2>>, <<-7, -5, 1>>}
MCVehicleAt == {<<0, 0>>, <<5, 1>>, <<-9, -6>>}
MCMinRelZ == -1

MCPlans == {<<1, 2, 3, 4, 5, 6, 7>>, <<2, 3, 3, 2, 1, 0>>, <<0, 2, 4>>}
MCPlaces == {0, 3, 9}
MCCostmaps == {{}, {3, 4, 5}, {2, 7}}
MCLinearMin == -2

Between(a, b) == [min |-> a, max |-> b]
MCHeights == Between(-1, 4)
MCIntensities == Between(1, 5)
MCRanges == Between(0, 12)
Hit(x, z, i) == [x |-> x, z |-> z, intensity |-> i]
MCEchoes == SUBSET {Hit(4, 0, 1), Hit(5, 3, 1), Hit(-3, -1, 1), Hit(-4, 2, 2),
                    Hit(1, 2, 9), Hit(-9, 2, 1)}
MCRobotAt == {-6, -5, 0, 1, 5}

MCSectors == <<<<2, 0>>, <<0, 2>>, <<-2, 0>>, <<0, -2>>>>
Grid(c) == [p \in (0..2) \X (0..1) |-> c[p[2] * 3 + p[1] + 1]]
MCGrids == {Grid(<<0, 90, 50, 0, 0, 0>>), Grid(<<-1, 0, -1, 90, -1, 90>>)}
MCGridOrigin == <<-1, 0>>
MCSightings == {<<0, 0>>, <<1, 2>>, <<-1, 3>>, <<5, 1>>}
MCRobotPlaces == {<<0, 0>>, <<3, 3>>}

vars == <<focus, frameVars, chainVars, blockVars, terrainVars, omniVars, layerVars, attackVars>>

\* Of a component that is not chosen only one initial state is needed.
Init ==
    /\ focus \in {"frames", "chain", "blocks", "terrain", "controller", "layer", "attack"}
    /\ FrameInit /\ (focus # "frames" => \A h \in Heads : sent[h] = Min(Phases))
    /\ ChainInit
    /\ focus # "chain" => LET m == CHOOSE x \in Mounts : TRUE
                          IN  mount = m /\ tf_odom_to_lidar_odom_ = m
    /\ IF focus = "blocks" THEN BlockInit
       ELSE BlockInit /\ pass = "nodata" /\ withData = {}
    /\ TerrainInit /\ (focus # "terrain" => node = "local")
    /\ OmniInit /\ LayerInit /\ AttackInit
    /\ focus # "controller" =>
         /\ lookahead_dist_ = Min(LookAheads) /\ use_interpolation_
         /\ min_approach_linear_velocity_ = Min(MinApproach)

Next ==
    /\ UNCHANGED focus
    /\ \/ /\ focus = "frames" /\ FrameNext
          /\ UNCHANGED <<chainVars, blockVars, terrainVars, omniVars, layerVars, attackVars>>
       \/ /\ focus = "chain" /\ ChainNext
          /\ UNCHANGED <<frameVars, blockVars, terrainVars, omniVars, layerVars, attackVars>>
       \/ /\ focus = "blocks" /\ BlockNext
          /\ UNCHANGED <<frameVars, chainVars, terrainVars, omniVars, layerVars, attackVars>>
       \/ /\ focus = "terrain" /\ TerrainNext
          /\ UNCHANGED <<frameVars, chainVars, blockVars, omniVars, layerVars, attackVars>>
       \/ /\ focus = "controller" /\ OmniNext
          /\ UNCHANGED <<frameVars, chainVars, blockVars, terrainVars, layerVars, attackVars>>
       \/ /\ focus = "layer" /\ LayerNext
          /\ UNCHANGED <<frameVars, chainVars, blockVars, terrainVars, omniVars, attackVars>>
       \/ /\ focus = "attack" /\ AttackNext
          /\ UNCHANGED <<frameVars, chainVars, blockVars, terrainVars, omniVars, layerVars>>

Spec == Init /\ [][Next]_vars
=============================================================================

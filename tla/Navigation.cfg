SPECIFICATION Spec
CONSTANTS
    Heads = {"a", "b"}
    publish_interval_ms_ = 2
    Phases = {1}
    Gaps <- MCGaps
    HostSteps <- MCHostSteps
    MaxHost = 5
    MaxPackets = 5
    MaxRaw = 2
    Poses <- MCPoses
    Mounts <- MCMounts
    RobotBases <- MCRobotBases
    MaxFrames = 3
    blockWidth = 5
    blockSkipNum = 2
    Surveyed <- MCSurveyed
    Heights = {0, 1, 2, 3}
    ConnReach = 1
    terrainConnThre = 2
    ceilingFilteringThre = 2
    terrainVoxelSize = 4
    terrainVoxelHalfWidth = 3
    Shown = 2
    planarVoxelHalfWidth = 4
    voxelPointUpdateThre = 2
    voxelTimeUpdateThre = 2
    decayTime = 1
    noDecayDis = 2
    minRelZ <- MCMinRelZ
    maxRelZ = 4
    quantileNum = 3
    quantileDen = 4
    maxGroundLift = 1
    vehicleHeight = 3
    minBlockPointNum = 1
    noDataBlockSkipNum = 1
    minDyObsDis = 1
    minDyObsRelZ = 0
    minDyObsPointNum = 1
    dyObsSlope = 1
    absDyObsRelZThre = 1
    localTerrainMapRadius = 4
    Flags = {"useSorting", "limitGroundLift", "clearDyObs", "noDataObstacle"}
    ScanPoints <- MCScanPoints
    VehicleAt <- MCVehicleAt
    ClearingDistances = {3}
    MaxTime = 1
    Plans <- MCPlans
    Places <- MCPlaces
    Costmaps <- MCCostmaps
    CostmapMaxExtent = 5
    max_robot_pose_search_dist_ = 4
    sample_points = 3
    kp_ = 2
    ki_ = 1
    kd_ = 1
    MaxIntegral = 2
    v_linear_max_ = 9
    v_linear_min_ <- MCLinearMin
    LookAheads = {2}
    MinApproach = {1}
    approach_velocity_scaling_dist_ = 3
    Ratios = {4, 10}
    scaling_rate = 3
    resolution_ = 2
    size_x_ = 7
    z_resolution_ = 2
    size_z_ = 2
    mark_threshold_ = 0
    obstacle_height <- MCHeights
    obstacle_intensity <- MCIntensities
    obstacle_range <- MCRanges
    inflation_radius_ = 0
    Echoes <- MCEchoes
    RobotAt <- MCRobotAt
    Sectors <- MCSectors
    Grids <- MCGrids
    GridOrigin <- MCGridOrigin
    CellLen = 2
    cost_threshold = 50
    Sightings <- MCSightings
    RobotPlaces <- MCRobotPlaces
INVARIANTS
    VoxelMarksAreSound
    CostmapIsCurrent
    AttackPosesAreSound
PROPERTIES
    FramesKeepTime
    ChainKeepsThePose
    TerrainFollowsTheVehicle
    CycleIsBounded
\* The components stop at the bounds of their inputs.
CHECK_DEADLOCK FALSE

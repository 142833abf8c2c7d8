SPECIFICATION Spec
CONSTANTS
    Candidates <- MCCandidates
    Boxes <- MCBoxes
    Centres <- MCCentres
    K = 2
    Radii = {2}
    Voxel = 2
    MinUnbalanced = 2
    DeletePct = 50
    BalancePct = 60
    MaxTreeOps = 3
    Configs <- MCConfigs
    Shapes <- MCShapes
    MaxInitImu = 1
    SyncGap = 2
    MapAxes = {x, y}
    CubeLen = 14
    Margin = 3
    MaxStep = 2
    Travel = 7
    ScanPoints = {1, 2}
    MaxIter = 3
    MaxUpdates = 3
    CustomClouds <- MCCustom
    PointClouds <- MCClouds
    LidarTypes = {"OUST64", "VELO16", "MID360", "other"}
    SweepSteps = 4
    N_SCANS = 2
    Filters = {1, 2}
    TimeScale = 1
    StrayTimes = {0, 9}
    MaxCalls = 1
    LineSizes = {2, 5, 6}
    group_size = 2
    point_filter_num = 2
INVARIANTS
    CubeFollowsTheLidar
    UpdateIsOfItsScan
    CloudsAreUsable
    FeaturesAreSound
PROPERTIES
    ImplementsPointMap
    ScansAndStampsAgree
\* The components stop at the bounds of their inputs.
CHECK_DEADLOCK FALSE

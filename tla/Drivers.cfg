SPECIFICATION Spec
CONSTANTS
    Lidars = {"a", "c"}
    UserConfigs <- MCUserConfigs
    kMaxSourceLidar = 2
    MaxAnnounce = 3
    lidar_count_ = 1
    QueueSize = 2
    IndexRange = 4
    SubtreeOrder <- MCSubtreeOrder
    MapPoints = {"p1", "p2", "p3"}
    Home <- MCHome
    DelBoxes = {{"p1"}, {"p1", "p2", "p3"}}
    Searchers = {"s1", "s2"}
    MaxMapOps = 3
    Yaws = {1, 2}
    MaxCommands = 3
    angle_max_ = 6
    angle_increment_ = 2
    range_min_ = 1
    range_max_ = 4
    Clouds <- MCClouds
    Scale = 5
    Paces = 2
    BackCells = 3
    Headings <- MCHeadings
    Costmaps <- MCCostmaps
    attempt_distance = 60
    Allowances = {0, 2}
    Starts <- MCStarts
    Attempts = {0, 2}
    MaxTries = 3
    ServiceNames = {"m", "n"}
    MaxRequests = 3
    SubNodes = {"a", "b"}
    Dynamic = {"b"}
    Latching = {"b"}
    SubTopics = {"t", "u"}
    MaxPosted = 2
    Period = 2
    Timeouts = {2, 3}
    MaxTime = 6
    Payloads <- MCPayloads
    Damages <- MCDamages
INVARIANTS
    PassesAreRated
    SuccessesAreSpaced
    ChecksumGuardsThePacket
PROPERTIES
    LidarsAreConfigured
    PacketsArrive
    RebuildIsInvisible
    KeptCommandIsUsed
    ScansServeListeners
    BackUpIsSafe
    RecoveryIsComplete
    ServiceNodeIsAnswered
    SubscribersAreServed
\* Threads end after a shutdown, and commands are bounded.
CHECK_DEADLOCK FALSE

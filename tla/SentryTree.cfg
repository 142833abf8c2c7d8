SPECIFICATION FairSpec
CONSTANTS
    NoMsg = NoMsg
    GameMsgs <- MCGameMsgs
    RobotMsgs <- MCRobotMsgs
    RfidMsgs <- MCRfidMsgs
    EventMsgs <- MCEventMsgs
    Timeout = 1
    Hold = 1
    NumAttempts = 2
    QueueDepth = 2
INVARIANTS
    OneBranchActive
    TemporaryStatusOwned
PROPERTIES
    TemporaryStatusEnds
    TreeSettles

SPECIFICATION DwellSpec
CONSTANTS
    NoMsg = NoMsg
    GameMsgs <- DwellGameMsgs
    RobotMsgs <- MCRobotMsgs
    RfidMsgs <- DwellRfidMsgs
    EventMsgs <- DwellEventMsgs
    Timeout = 2
    Hold = 1
    NumAttempts = 2
    QueueDepth = 2
PROPERTY
    ConvertOnlyAfterContinuousDwell

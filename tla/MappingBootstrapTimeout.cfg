SPECIFICATION FairSpec
CONSTANTS
    NumGoals = 3
    SaveMayFail = FALSE
PROPERTY
    NoGuideGoalAfterTimeout
CHECK_DEADLOCK FALSE

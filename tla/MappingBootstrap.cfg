SPECIFICATION FairSpec
CONSTANTS
    NumGoals = 3
    SaveMayFail = TRUE
INVARIANTS
    OneGuideGoalChain
    ReleasedOnlyAfterSaves
PROPERTIES
    GateStaysOpen
    StartedLeadsToReleased
\* The mission is over at some point and nothing more happens.
CHECK_DEADLOCK FALSE

SPECIFICATION Spec
CONSTANTS
    MaxGoals = 3
    MayReject = TRUE
INVARIANTS
    HaltReachesAcknowledgedGoal
    PromptOutcomeIsOfItsGoal
    PromptIdleMeansNoLiveGoal
\* The number of goals is bounded, and an exception ends the tree.
CHECK_DEADLOCK FALSE

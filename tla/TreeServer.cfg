SPECIFICATION FairSpec
CONSTANTS
    MaxGoals = 3
    MaxRestarts = 1
INVARIANTS
    ExecutingHasThread
PROPERTIES
    GoalsAreServed

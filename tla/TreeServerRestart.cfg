SPECIFICATION FairSpec
CONSTANTS
    MaxGoals = 2
    MaxRestarts = 1
PROPERTY
    ExecutorIsNotBlocked

CONSTANTS Yaws={1,2} MaxCommands=3
SPECIFICATION FakeSpec
PROPERTY SyncedCommandIsCurrent
CHECK_DEADLOCK FALSE

SPECIFICATION FairSpec
CONSTANTS
    FrameLen = 3
    Twists = {0, 1}
    Statuses <- MCStatuses
INVARIANTS
    McuIsCurrent
PROPERTIES
    LinkRecovers
\* After a shutdown both threads end.
CHECK_DEADLOCK FALSE

SPECIFICATION FairSpec
CONSTANTS
    WindowTTL = 1
    ReviewTTL = 1
    MaxTime = 0
    MaxListeners = 2
PROPERTIES
    StopEnds
    ShutdownAnswered
    HostCloses
CHECK_DEADLOCK FALSE

\* One child of a group of two dies.
SPECIFICATION FairSpec
CONSTANTS
    Parallel = 2
    Repetitions = 1
    HasCleanup = TRUE
    MaxCalls = 1
    MaxRescale = 0
    FaultKinds = {"child"}
    MaxFaults = 1
CHECK_DEADLOCK FALSE
PROPERTIES
    GivingUpEnds

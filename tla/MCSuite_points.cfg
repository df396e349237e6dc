SPECIFICATION Spec
CONSTANTS
    Batches = 2
    BatchSize = 2
    MaxFaults = 1
    Capacity = 2
    MaxProcs = 3
    MaxTries = 1
    MaxLost = 3
    MaxPages = 3
    FileBlocks = 4
    Remember = 2
CHECK_DEADLOCK FALSE
INVARIANT EveryPoint

\* Two nodes, one start, one run of lat_mem_rd fails.
SPECIFICATION Spec
CONSTANTS
    N = 2
    HasCpu = {0, 1}
    HasMem = {0, 1}
    MaxAttempts = 1
    MaxFailures = 1
CHECK_DEADLOCK FALSE
INVARIANTS
    LmbenchOnly

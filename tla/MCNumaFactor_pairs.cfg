\* Two nodes, the script started twice, one command may fail.
SPECIFICATION Spec
CONSTANTS
    N = 2
    HasCpu = {0, 1}
    HasMem = {0, 1}
    MaxAttempts = 2
    MaxFailures = 2
CHECK_DEADLOCK FALSE
INVARIANTS
    MatricesRight
    FactorsRight
    FreshBandwidth
    CompleteIsRight
    ReadersRight

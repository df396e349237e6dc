\* A group of two, nothing fails.
SPECIFICATION Spec
CONSTANTS
    Parallel = 2
    Repetitions = 1
    HasCleanup = TRUE
    MaxCalls = 1
    MaxRescale = 0
    FaultKinds = {}
    MaxFaults = 0
INVARIANTS
    AllStartedBeforeTiming

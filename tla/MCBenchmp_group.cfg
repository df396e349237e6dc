\* Four children, two calls after their baseline; nothing fails, but the parent
\* may be killed.
SPECIFICATION FairSpec
CONSTANTS
    Parallel = 4
    Repetitions = 2
    HasCleanup = TRUE
    MaxCalls = 2
    MaxRescale = 1
    FaultKinds = {"kill"}
    MaxFaults = 1
INVARIANTS
    ResponseInPhase
    BarrierBytes
    LoadWhileTiming
PROPERTIES
    CallsReturn

\* Two calls, each with three children after their baseline, no cleanup routine,
\* -N not given; every kind of fault.  The system may stop: children that ignore
\* SIGTERM hold up a parent that waits for them.
SPECIFICATION FairSpec
CONSTANTS
    Parallel = 3
    Repetitions <- NotGiven
    HasCleanup = FALSE
    MaxCalls = 2
    MaxRescale = 1
    FaultKinds = {"child", "sigterm", "kill", "fork", "pipe", "malloc"}
    MaxFaults = 2
CHECK_DEADLOCK FALSE
INVARIANTS
    TypeInv
    SoleReporter
    BarrierInv
    TimeIsComplete
    NoSpuriousError
    NoStrayChildren
PROPERTIES
    Implements
    FirstGivesUp
    OrphansDie

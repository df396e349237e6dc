\* Two machines with a shared cache below the last level.
SPECIFICATION Spec
CONSTANTS
    Machines <- Shared
    StackLimit = 6
    StreamLimit = 40
CHECK_DEADLOCK FALSE
INVARIANT NodeAnswered

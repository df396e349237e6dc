\* One child, as calc_numafactor.sh runs it: -P 1 -N 1; one call gives up.
SPECIFICATION Spec
CONSTANTS
    TRIES = 3
    Parallel = 1
    Repetitions = 1
    Length = 1024
    Stride = 64
    Times = {1, 2}
    Iterations = {1}
    MaxFailures = 1
    Exponents = {9, 10}
CHECK_DEADLOCK FALSE
INVARIANTS
    LineOfThisArray

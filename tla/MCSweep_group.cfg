\* Two children, two samples each, sizes up to 10240, one call gives up.
SPECIFICATION Spec
CONSTANTS
    TRIES = 3
    Parallel = 2
    Repetitions = 2
    Length = 10240
    Stride = 1000
    Times = {0, 1, 2}
    Iterations = {1, 2}
    MaxFailures = 1
    Exponents = {9, 10, 11, 12, 13, 14, 15, 16, 17, 18, 19, 20}
CHECK_DEADLOCK FALSE
INVARIANTS
    ListsSorted
    WithinCapacity
    NothingLost
    LineIsBest
    MedianIsMiddle
PROPERTIES
    PowersVisited

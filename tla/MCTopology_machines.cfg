\* Fourteen machines, 16 streams, calls nested six deep.
SPECIFICATION Spec
CONSTANTS
    Machines <- AllMachines
    StackLimit = 6
    StreamLimit = 16
CHECK_DEADLOCK FALSE
INVARIANTS
    NodeCpusRight
    SiblingsRight
    RegularSurvives
    CoresRight

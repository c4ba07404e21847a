CONSTANTS
    MaxLogn = 4
    MaxDraws = 3
SPECIFICATION Spec
INVARIANTS
    Permuted
    NothingVisited
PROPERTIES
    ProgrammingKept
    Returns
CHECK_DEADLOCK FALSE

CONSTANTS
    Logn = 3
    Before = 2
SPECIFICATION Spec
INVARIANTS
    Aligned
    FindsItsLeaf
    BothGoOn
CHECK_DEADLOCK FALSE

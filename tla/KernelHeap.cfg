SPECIFICATION Spec
CONSTANTS
    HeapSize = 50
    Header = 7
    Alignment = 2
    Ids = {i1, i2, i3}
    Requests = {0, 1, 4, 9}
    ZERO = zero
    HEADER = header
SYMMETRY Symmetry
INVARIANTS
    ListConsistent
    AssertionsHold
    BlocksIntact
CHECK_DEADLOCK FALSE

SPECIFICATION Spec
CONSTANTS
    Procs = {p1, p2, p3}
    Vpns = {v1}
    Ppns = {n1, n2}
    Values = {one}
    ZERO = zero
    FREED = freed
    NULL = null
SYMMETRY Symmetry
INVARIANTS
    OnlyExecvLeaks
    SharersAlive
CHECK_DEADLOCK FALSE

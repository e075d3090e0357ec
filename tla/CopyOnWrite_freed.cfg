SPECIFICATION Spec
CONSTANTS
    Procs = {p1, p2}
    Vpns = {v1}
    Ppns = {n1, n2}
    Values = {one}
    ZERO = zero
    FREED = freed
    NULL = null
INVARIANT FreePagesUntouched
CHECK_DEADLOCK FALSE

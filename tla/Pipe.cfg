SPECIFICATION Spec
CONSTANTS
    Procs = {p1, p2, p3}
    Reader = p1
    Writer = p2
    Size = 4
    Values = {a, b}
    NULL = NULL
INVARIANTS
    BufferLives
PROPERTY ImplementsQueue
CHECK_DEADLOCK FALSE

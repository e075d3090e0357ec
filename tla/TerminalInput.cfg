CONSTANTS
    Console = "console"
    Readers = {"r1", "r2"}
    Terminals = {0, 1}
    TerminalOf <- MCTerminalOf
    Size = 3
    RingSize = 2
    LineSize = 2
    MaxKeys = 4
    MaxPrints = 1
    NULL = NULL
SPECIFICATION Spec
INVARIANT KeysComeOutAsEchoed
PROPERTY KeysAreServed
CHECK_DEADLOCK FALSE

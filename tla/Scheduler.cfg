SPECIFICATION Spec
CONSTANTS
    UserThreads = {t1, t2, t3}
    Cleanup = cleanup
    Idle = idle
    Intervals = {2}
    Durations = {0, 3}
    DestroyMax = 1
    NULL = null
INVARIANTS
    BlockedBriefly
    RunningThreadsExist
    SleepsLongEnough
PROPERTY NobodyStarves

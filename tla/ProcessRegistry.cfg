SPECIFICATION FairSpec
CONSTANTS
    MaxPid = 3
    Slots = {1}
    Progs = 2
    Registry = Registry
INVARIANTS
    WaitGraphAcyclic
    NoDeathMissed
    AnyPidIsDead
    UnmountedLast
PROPERTY ShutsDown
CHECK_DEADLOCK FALSE

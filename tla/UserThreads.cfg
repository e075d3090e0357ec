SPECIFICATION FairSpec
CONSTANTS
    MaxTid = 2
    Forked = FALSE
    Programs <- MCPrograms
INVARIANTS
    AssertionsHold
    JoinAcyclic
    NoLostJoin
    LiveThreadsListed
    ExitsOnce
PROPERTY
    ExitCompletes
CHECK_DEADLOCK FALSE

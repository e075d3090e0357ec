SPECIFICATION FairSpec
CONSTANTS
    m1 = m1
    m2 = m2
    c1 = c1
    NULL = NULL
    Threads = {t1, t2, t3}
    Mutexes = {m1}
    Conditions = {c1}
    CondMutex <- MCCondMutex
    Rank <- MCRank
CHECK_DEADLOCK FALSE
PROPERTIES
    WaitersAreServed

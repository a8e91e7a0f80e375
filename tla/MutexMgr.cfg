SPECIFICATION MutexSpec
CONSTANTS
    Threads = {t1, t2, t3}
    NULL = NULL
    Creator = t1
    CreatorReleases = TRUE
    EndsHolding = TRUE
    MaxHolds = 2
INVARIANTS
    MutualExclusion
PROPERTIES
    LockReturns
CHECK_DEADLOCK FALSE

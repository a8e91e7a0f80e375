SPECIFICATION PoolSpec
CONSTANTS
    Threads = {t1, t2}
    Addresses = {a1, a2}
    Funcs = {f, g}
    NULL = NULL
    Operands = {1, 3}
    Start = 3
    Mod = 4
    MaxCalls = 2
INVARIANTS
    WorkerCallsItsFunction
    NothingLeaked
    FinalValueSeen
    ResultIsRecent
PROPERTIES
    JoinReturns
CHECK_DEADLOCK FALSE

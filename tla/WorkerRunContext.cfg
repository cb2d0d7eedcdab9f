SPECIFICATION MCSpec
CONSTANTS
    Requests = 4
    Workers = 3
    Limit = 2
    Sizes <- MCSizes
    t1 = t1
    t2 = t2
    t3 = t3
    Threads <- MCThreads
    Calls = 1
    Timeouts <- MCTimeouts
    MaxTime = 2
    MaxInstant = 3
    Nobody = Nobody
INVARIANTS
    UsedIsHeld
    WithinLimit
    AdmittedPrefix
    NoLostWakeup
    NoLostNotice
    ToldOnlyIfCancelled
PROPERTIES
    EveryCallReturns
    WaitsEnd
    NoGrantAfterTold
CHECK_DEADLOCK FALSE

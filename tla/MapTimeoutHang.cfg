SPECIFICATION FairSpec
CONSTANTS
    Workers = 2
    Prefetch = 1
    Batches = 2
    MaxFaults = 0
    FaultKinds = {}
    Modes <- PersistentTimeout
PROPERTIES
    ExpiryReturns
CHECK_DEADLOCK FALSE

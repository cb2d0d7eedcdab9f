SPECIFICATION FairSpec
CONSTANTS
    Workers = 2
    Prefetch = 1
    Batches = 3
    MaxFaults = 1
    FaultKinds = {"error"}
    Modes <- PersistentOrdered
PROPERTIES
    ReusedPoolReturns
CHECK_DEADLOCK FALSE

SPECIFICATION FairSpec
CONSTANTS
    Workers = 2
    Prefetch = 2
    Batches = 3
    MaxFaults = 2
    FaultKinds = {"init", "error", "panic", "cancel", "oversize", "source", "collate"}
    Modes <- PersistentAndOwned
INVARIANTS
    TypeOK
    BatchesConserved
    CreditsExact
    PermitsExact
    LanesSound
PROPERTIES
    ImplementsDelivery
    QuiesceReturns
    CallsReturn
CHECK_DEADLOCK FALSE

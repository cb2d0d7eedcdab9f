SPECIFICATION Spec
CONSTANTS
    Configs <- MCConfigs
    MaxGeneration = 2
    MaxSequence = 3
    MaxSize = 5
INVARIANTS
    CreditsExact
PROPERTIES
    DeliveryExact
    CallsReturn
CHECK_DEADLOCK FALSE

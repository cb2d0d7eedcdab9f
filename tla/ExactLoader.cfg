SPECIFICATION Spec
CONSTANTS
    Configs <- MCConfigs
    MaxU64 = 3
    MaxLives = 2
    MaxEpoch = 0
    Scenarios <- MCScenarios
INVARIANTS
    BoundaryExact
    OnlyUserPanics
PROPERTIES
    ReplayExact
    CallsReturn
CHECK_DEADLOCK FALSE

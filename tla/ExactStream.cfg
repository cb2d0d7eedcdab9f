SPECIFICATION FairSpec
CONSTANTS
    Configs <- MCConfigs
    MaxGeneration = 3
    MaxSequence = 3
    MaxLives = 2
INVARIANTS
    ReplayExact
    OnlyUserFails
PROPERTY CallsReturn
CHECK_DEADLOCK FALSE

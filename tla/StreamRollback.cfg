SPECIFICATION Spec
CONSTANTS
    Configs <- FallingNumber
    MaxGeneration = 3
    MaxSequence = 3
    MaxLives = 1
INVARIANT PrefetchRolledBack
CHECK_DEADLOCK FALSE

SPECIFICATION Spec
CONSTANTS
    Configs <- MCConfigs
    LowScale = 0
    HighScale = 3
    MaxNodes = 8
    MaxDepth = 2
    MaxRank = 3
    MaxBytes = 64
INVARIANTS
    UpdatesSound
    ResumeExact
CHECK_DEADLOCK FALSE

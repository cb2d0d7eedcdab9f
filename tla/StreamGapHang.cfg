SPECIFICATION Spec
CONSTANTS
    Configs <- Gaps
    MaxGeneration = 2
    MaxSequence = 3
    MaxSize = 5
PROPERTIES
    GapReported
CHECK_DEADLOCK FALSE

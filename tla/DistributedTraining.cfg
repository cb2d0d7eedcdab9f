SPECIFICATION Spec
CONSTANTS
    World = 2
    Params = 2
    Calls = 3
    Sessions = 2
    Faults = 2
    MaxSize = 30
    MaxRank = 2
    MaxWorld = 3
    MaxBytes = 8
    MaxStep = 3
INVARIANTS UpdatesAreMeans ReplicasClose StepsConfirmed RestoresOneCapture
CHECK_DEADLOCK FALSE

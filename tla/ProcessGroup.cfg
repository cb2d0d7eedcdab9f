SPECIFICATION SessionSpec
CONSTANTS
    World = 3
    Limit = 30
    Menus <- MCMenus
    Sessions <- MCSessions
INVARIANTS MeshSound BarrierHolds CollectivesAgree PointsAgree
PROPERTY RendezvousEnds CollectivesReturn ImplementsAgreement
CHECK_DEADLOCK FALSE

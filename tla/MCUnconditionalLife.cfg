SPECIFICATION LifeSpec
CONSTANTS
    Rows = 3
    Columns = 4
    NoMove = 0
    HasAPoint = HasAPoint
    Points <- Grid
    Neighbors <- GridNeighbors
    Beside <- GridBeside
    Orders <- BothWays
    StartPositions <- AllPositions
CHECK_DEADLOCK FALSE
INVARIANTS
    AliveCannotBeCaptured
    TerritoryStaysDead
    AlgorithmsAgree
    ReplacementsAreSound

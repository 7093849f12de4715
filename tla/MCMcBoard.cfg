SPECIFICATION McSpec
CONSTANTS
    Rows = 3
    Columns = 3
    MostEmpty = 3
    NoMove = 0
    Points <- Grid
    Neighbors <- GridNeighbors
    Beside <- GridBeside
    Around <- GridAround
    Diagonal <- GridDiagonal
    BoardOrder <- GridOrder
    Starts <- StartPositions
    GiveUp = 1
CHECK_DEADLOCK FALSE
INVARIANTS
    EdgesAreOfTheBoard
    ValuesAreOfTheBoard
PROPERTIES
    PlayoutIsAGame
    PlayoutEnds

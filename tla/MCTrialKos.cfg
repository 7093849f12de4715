SPECIFICATION Spec
CONSTANTS
    Rows = 2
    Columns = 10
    NoMove = 0
    Points <- Grid
    Neighbors <- GridNeighbors
    Beside <- GridBeside
    Around <- GridAround
    Diagonal <- GridDiagonal
    MaxStrings = 24
    MaxLiberties = 5
    Boards <- ThreeKos
    Readers = {"komaster_trymove"}
    Candidates = {2, 3, 5, 6, 8, 9, 11}
    MaxStack = 12
    Alternate = TRUE
    MaxPlayed = 0
    MaxMoves = 12
CHECK_DEADLOCK FALSE
INVARIANTS
    HashesAreOfTheLevels
    KosDoNotCycle

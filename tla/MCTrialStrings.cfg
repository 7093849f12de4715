SPECIFICATION Spec
CONSTANTS
    Rows = 2
    Columns = 3
    NoMove = 0
    Points <- Grid
    Neighbors <- GridNeighbors
    Beside <- GridBeside
    Around <- GridAround
    Diagonal <- GridDiagonal
    MaxStrings = 6
    MaxLiberties = 2
    Boards <- AnyBoard
    Readers = {"trymove", "tryko", "komaster_trymove"}
    Candidates <- Grid
    MaxStack = 4
    Alternate = FALSE
    MaxPlayed = 2
    MaxMoves = 2
CHECK_DEADLOCK FALSE
INVARIANTS
    StringsAreOfTheBoard
    ConditionalKoIsAKo
PROPERTIES
    TrialSpec

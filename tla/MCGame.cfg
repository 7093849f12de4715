SPECIFICATION Spec
CONSTANTS
    Points <- Grid
    Neighbors <- GridNeighbors
    Beside <- GridBeside
    NoMove = NoMove
    Games <- AllGames
CHECK_DEADLOCK FALSE
INVARIANTS
    HistoryLeadsHere
    HashFollowsThePlay
    ShapesAreSound
    NoRepetition

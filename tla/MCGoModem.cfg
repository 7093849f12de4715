SPECIFICATION FairSpec
CONSTANTS
    gnugo = gnugo
    client = client
    Peers <- Both
    Games <- AllGames
    Points <- TwoPoints
    MaxMoves = 3
    MaxQueued = 16
    RetrySecs = 1
    Retries = 3
    MaxFlight = 3
CHECK_DEADLOCK FALSE
INVARIANTS
    NobodyGivesUp
PROPERTIES
    GameSpec
    GameEnds

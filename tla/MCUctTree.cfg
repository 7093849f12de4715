SPECIFICATION FairSpec
CONSTANTS
    t1 = t1
    t2 = t2
    p1 = p1
    p2 = p2
    p3 = p3
    Pass = Pass
    Threads <- TwoThreads
    Points <- ThreePoints
    Unplayable <- OneRefused
    NumNodes = 4
    NumArcs = 4
    Margin = 0
    NumLocks = 2
    MaxDepth = 2
    SimCap = 2
INVARIANTS
    ListsAreSound
    VirtualLossIsInFlight
    VisitsAreConserved
    NoMoveIsLost
PROPERTIES
    ArcsAreImmutable
    SearchEnds
    TreeSpec

SPECIFICATION Spec
CONSTANTS
    a = a
    b = b
    c = c
    Pass = Pass
    Boards <- TwoBoards
    SimCap = 2
    CacheCap = 3
    Reserve = 0
    MaxDepth = 3
    MaxHist = 3
INVARIANT
    StatisticsAreOfThePosition

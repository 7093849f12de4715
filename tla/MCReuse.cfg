SPECIFICATION Spec
CONSTANTS
    a = a
    b = b
    c = c
    Pass = Pass
    Boards <- LargerBoard
    SimCap = 2
    CacheCap = 5
    Reserve = 0
    MaxDepth = 3
    MaxHist = 2
INVARIANTS
    NoMoveIsLost
    StatisticsAreOfThePosition
    BudgetFits

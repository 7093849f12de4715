SPECIFICATION Spec
CONSTANTS
    w1 = w1
    w2 = w2
    a = a
    b = b
    c = c
    Pass = Pass
    AllWorkers <- TwoWorkers
    Searches <- AllSearches
    CheckEvery = 1
CHECK_DEADLOCK FALSE
INVARIANTS
    SelectionIsBest
    VisitsAreSimulations
PROPERTIES
    StopIsLossFree

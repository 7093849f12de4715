SPECIFICATION FairSpec
CONSTANTS
    w1 = w1
    w2 = w2
    Workers <- MCWorkers
    SimCap = 2
    UnstCap = 1
    CheckEvery = 2
    PonderEnabled = TRUE
    EarlyStop = TRUE
INVARIANTS
    Quiescent
    AbortIsHeld
    GenmoveUndisturbed
    PonderRunsItsBudget
    GenmoveRunsItsBudget
PROPERTIES
    HandoffSpec
    LinesAreHandled

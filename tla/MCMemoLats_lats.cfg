SPECIFICATION Spec
CONSTANTS
    NumThread = 2
    Configs <- AllConfigs
    Cycles = {20, 50, 90}
    Garbage = {0, 60}
CHECK_DEADLOCK FALSE
INVARIANTS
    Inv
    InBuffer
    ColdStart
    ChaseVisitsAll
    AverageBetween
    MedianRight

SPECIFICATION Spec
CONSTANTS
    NumThread = 1
    Configs <- ChaseConfigs
    Cycles = {20, 50, 90}
    Garbage = {0, 60}
CHECK_DEADLOCK FALSE
INVARIANTS
    MaxIsMax

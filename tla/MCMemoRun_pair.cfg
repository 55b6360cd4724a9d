SPECIFICATION Spec
CONSTANTS
    NumThread = 2
    NumCores = 3
    Configs <- PairConfigs
    MsrMayFail = FALSE
    MaxOps = 1
CHECK_DEADLOCK FALSE
INVARIANTS
    PinnedAsAsked

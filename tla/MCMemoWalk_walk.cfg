SPECIFICATION Spec
CONSTANTS
    NumThread = 2
    Configs <- WalkConfigs
    WORD_BITS = 12
    MaxOps = 6
CHECK_DEADLOCK FALSE
INVARIANTS
    Inv
    InSlice
    CountedAsTouched
    WalkAligned
    WalkInOrder

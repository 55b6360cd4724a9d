SPECIFICATION Spec
CONSTANTS
    NumScripts = 2
    MAX_TUNE_ITER = 7
    IL_BOT_MAX = 4
    IL_BOT_RESET = 1
CHECK_DEADLOCK FALSE
INVARIANTS
    FixedRatio

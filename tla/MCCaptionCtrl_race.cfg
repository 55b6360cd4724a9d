SPECIFICATION Spec
CONSTANTS
    IL_TOP_RESET = 10
    IL_BOT_MAX = 8
    IL_BOT_RESET = 1
    STEP_RESET = 3
    MIN_STEP = 1
    UNIT = 10
    RESET_THRESHOLD = 12
    TUNE_THRESHOLD = 2
    IDLE_THRESHOLD = 30
    MIN_SAMPLE_CNT = 4
    States <- AllStates
    SysctlMayFail = FALSE
    MaxSamples = 7
    MaxRounds = 2
INVARIANTS
    Inv
    NoZeroDivision
    Lockstep
    MeanOfSamples
    SearchInBounds
    KernelAgrees

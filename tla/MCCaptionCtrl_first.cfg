SPECIFICATION Spec
CONSTANTS
    IL_TOP_RESET = 10
    IL_BOT_MAX = 4
    IL_BOT_RESET = 1
    STEP_RESET = 3
    MIN_STEP = 1
    UNIT = 10
    RESET_THRESHOLD = 12
    TUNE_THRESHOLD = 2
    IDLE_THRESHOLD = 30
    MIN_SAMPLE_CNT = 2
    States <- OneState
    SysctlMayFail = FALSE
    MaxSamples = 4
    MaxRounds = 0
PROPERTIES
    FirstTuneUp

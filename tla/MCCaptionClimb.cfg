SPECIFICATION Spec
CONSTANTS
    IL_TOP_RESET = 10
    IL_BOT_MAX = 20
    IL_BOT_RESET = 1
    STEP_RESET = 3
    MIN_STEP = 1
    UNIT = 10
    RESET_THRESHOLD = 5000
    TUNE_THRESHOLD = 2
    IDLE_THRESHOLD = 700000
    MAX_TUNE_ITER = 7
    Profiles <- Tents
CHECK_DEADLOCK FALSE
INVARIANTS
    Inv
    NoOvershoot
PROPERTIES
    TurnsBack

SPECIFICATION Spec
CONSTANTS
    MAX_CORE_NUM = 1
    MAX_NUM_THREAD = 8
    MAX_BUF_GB = 8
    MAX_NUMA_NODE = 1
    WORD = 64
    GIB = 8
    PAGE = 4
    DefaultThreads = 3
    DefaultSize = 8
    MaxOptions = 4
    Options <- AnyOptions
    Nodes = {0, 1}
    Garbage <- AnyInts
    MEMORY = 12
CHECK_DEADLOCK FALSE
INVARIANTS
    Inv
    SlicesFit
    ReadyToRun
    ReleasedAtEnd

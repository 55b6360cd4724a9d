SPECIFICATION Spec
CONSTANTS
    NumThread = 2
    NumCores = 3
    Configs <- TwoThreadConfigs
    MsrMayFail = TRUE
    MaxOps = 3
CHECK_DEADLOCK FALSE
INVARIANTS
    Inv
    ReadingsNeverShrink
    ReadingsAreFresh
    ConfiguredWhileMeasuring
    RestoredWhenDone
PROPERTIES
    MeterSpec
    Termination

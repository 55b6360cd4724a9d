SPECIFICATION Spec
CONSTANTS
    WINDOW_SIZE = 2
    Founds <- TwoFounds
    MaxReports <- ThreeAndOne
INVARIANTS
    Inv
    Conserved
    Newest
    InStep
PROPERTIES
    Delivered

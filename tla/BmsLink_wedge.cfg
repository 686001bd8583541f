SPECIFICATION Spec
CONSTANTS
    MaxRetries = 2
    GattFails = FALSE
    BmsLeaves = TRUE
    Rescan = FALSE
INVARIANTS
    ConnectedIsLinked

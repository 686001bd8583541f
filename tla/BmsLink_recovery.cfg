SPECIFICATION Spec
CONSTANTS
    MaxRetries = 2
    GattFails = TRUE
    BmsLeaves = TRUE
    Rescan = TRUE
INVARIANTS
    TypeOK
    
PROPERTIES
    ServiceSpec

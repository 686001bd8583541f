SPECIFICATION Spec
CONSTANTS
    Fields = {stored, overridden}
    InFile = {overridden}
    WipeAt = 3
    MaxCrash = 2
INVARIANTS
    TypeOK
    SettledIsSane
    BootUsesFlash
PROPERTIES
    SettingsKept

SPECIFICATION WakeupSpec
CONSTANTS
    Duration = 50
    LongestPass = 8
INVARIANTS
    WakeupTypeOK
    PinRestored
PROPERTIES
    PulseEnds

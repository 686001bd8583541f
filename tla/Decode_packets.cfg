SPECIFICATION Spec
CONSTANTS
    Volts10mV = {0, 2560}
    Amps10mA = {0, 32767, 32768, 60536, 65535}
    Temps01K = {2481, 2730, 3101}
    CellCounts = {4, 5}
    Sensors = {0, 1, 2}
    CellmV = {0, 3200, 3201, 3650}
    Garbage = {0, 65535}
INVARIANTS
    TypeOK
    AmpsNear
    AverageInRange
    LimitsRight
    MedianInRange

SPECIFICATION RelaySpec
CONSTANTS
    Refresh = 3
    MaxPass = 2
    Readings = {10, 20, 29, 30, 40, 50}
    Unit = 10
    Settings <- AllSettings
PROPERTIES
    NoChatter
    Follows

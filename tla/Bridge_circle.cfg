SPECIFICATION BridgeSpec
CONSTANTS
    LIMIT = 4
    RECONNECT = 6
    Periods = {1, 6}
    MaxPass = 2
    MaxErr = 2
    MaxWifiErr = 2
INVARIANTS
    SilenceBounded
PROPERTIES
    ConnectedNotRebooted
    Reconnects
    Bridges

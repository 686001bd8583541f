SPECIFICATION ScanSpec
INVARIANTS
    ScanTypeOK
    OneWayToHang
PROPERTIES
    Returns
CHECK_DEADLOCK FALSE

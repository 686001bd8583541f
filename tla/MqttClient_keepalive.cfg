SPECIFICATION Spec
CONSTANTS
    KeepAlive = 2
    Grace = 3
    MaxPass = 3
    MaxInbox = 2
INVARIANTS TypeOK DeadNoticed
PROPERTIES NotGivenUp WillTold

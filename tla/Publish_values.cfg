SPECIFICATION PublishSpec
CONSTANTS
    MaxValue = 4
    MinDiff = 1
    Every = 4
INVARIANTS
    DriftBounded
PROPERTIES
    Settles

SPECIFICATION Spec
CONSTANTS
    Payloads = {p1}
    Fsync = TRUE
    SegmentSize = 2
    MaxWrites = 2
    MaxFaults = 0
    MaxCrashes = 1
    MaxRots = 0
INVARIANTS
    RestartSucceeds

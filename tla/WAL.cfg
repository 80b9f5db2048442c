SPECIFICATION Spec
CONSTANTS
    Payloads = {p1}
    Fsync = TRUE
    SegmentSize = 2
    MaxWrites = 5
    MaxFaults = 2
    MaxCrashes = 2
    MaxRots = 1
INVARIANTS
    TypeOK
    AckedReadable
    DeliveredInOrder
PROPERTIES
    ImplementsLog

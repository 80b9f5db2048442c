SPECIFICATION CompactionSpec
CONSTANTS
    Jobs = {j1, j2}
    Job1 = j1
    Payloads <- MCPayloads
    Fsync = TRUE
    SegmentSize = 1
    MaxWrites = 3
    MaxFaults = 0
    MaxCrashes = 0
    MaxRots = 0
    MaxCompactions = 1
INVARIANT
    DeliveredInOrder

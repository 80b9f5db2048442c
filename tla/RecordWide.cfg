SPECIFICATION Spec
CONSTANTS
    Records <- MCWideRecords
    LenMod = 3
    TicksPerMs = 2
INVARIANT
    MarshalledReadable
CHECK_DEADLOCK FALSE

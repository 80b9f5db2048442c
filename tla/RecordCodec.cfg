SPECIFICATION Spec
CONSTANTS
    Records <- MCRecords
    LenMod = 3
    TicksPerMs = 2
INVARIANT
    RoundTrip
CHECK_DEADLOCK FALSE

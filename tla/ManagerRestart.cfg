SPECIFICATION Spec
CONSTANTS
    Queues = {q1}
    NoQueue = NoQueue
    Jobs = {j1, j2}
    NoJob = NoJob
    Keys = {k1}
    NoKey = NoKey
    Callers = {c1, c2}
    Priorities = {0}
    Delays = {0}
    Retries = {1, 2}
    Visibilities = {0}
    MaxBatch = 1
    TicksPerMs = 1
    BaseDelay = 1
    MaxDelay = 2
    Multiplier = 2
    JitterDivisor = 10
    MaxClock = 2
    MaxLeases = 1
    MaxCrashes = 1
    MaxFaults = 1
SYMMETRY Symmetry
INVARIANTS
    WriteAhead
    NoJobLost
    UnracedConsistent

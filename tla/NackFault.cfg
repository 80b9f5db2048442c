SPECIFICATION FairSpec
CONSTANTS
    Queues = {q1}
    NoQueue = NoQueue
    Jobs = {j1}
    NoJob = NoJob
    Keys = {}
    NoKey = NoKey
    Callers = {c1}
    Priorities = {0}
    Delays = {0}
    Retries = {2}
    Visibilities = {1}
    MaxBatch = 1
    TicksPerMs = 1
    BaseDelay = 1
    MaxDelay = 2
    Multiplier = 2
    JitterDivisor = 10
    MaxClock = 4
    MaxLeases = 1
    MaxCrashes = 0
    MaxFaults = 1
PROPERTIES
    LeaseEnds

CONSTANTS
    Servers = {s1, s2}
    Keys = {k1}
    NoKey = NoKey
    Limits = {l1, l2}
    NoLimit = NoLimit
    MaxRetries = 2
    MaxLog = 3
    MaxJobs = 3
    MaxLeases = 1
    MaxRestarts = 1
    MaxFaults = 1
SPECIFICATION Spec
INVARIANT LimitsRestored
SYMMETRY Symmetry
CHECK_DEADLOCK FALSE

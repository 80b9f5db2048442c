CONSTANTS
    s = s
    a = a
    Nodes = {s, a}
    Local = s
    NoNode = NoNode
    Preference <- MCPreference
    Handlers = {h1, h2}
    MaxRequests = 0
    MaxCrashes = 0
    MaxFlips = 2
SPECIFICATION FairSpec
PROPERTIES
    QueuesRebalance
CHECK_DEADLOCK FALSE

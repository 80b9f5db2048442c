CONSTANTS
    s = s
    a = a
    Nodes = {s, a, b}
    Local = s
    NoNode = NoNode
    Preference <- MCPreference
    Handlers = {h1, h2}
    MaxRequests = 0
    MaxCrashes = 0
    MaxFlips = 0
SPECIFICATION FairSpec
PROPERTIES
    AddedNodesOwn
CHECK_DEADLOCK FALSE

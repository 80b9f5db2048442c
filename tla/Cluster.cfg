CONSTANTS
    s = s
    a = a
    Nodes = {s, a}
    Local = s
    NoNode = NoNode
    Preference <- MCPreference
    Handlers = {h1, h2}
    MaxRequests = 2
    MaxCrashes = 1
    MaxFlips = 2
SPECIFICATION FairSpec
INVARIANTS
    TypeOK
    RingKnown
    RingIsConfiguration
    DeadFailedTwice
    PanicNeedsLeave
PROPERTIES
    DownNoticed
    ForwardsAgain
CHECK_DEADLOCK FALSE

SPECIFICATION Spec
CONSTANTS
    NodeIDs = {n1, n2, n3}
    VirtualNodes = 2
    HashSpace = 6
    Replication = 2
    MaxCopies = 2
    NoNode = NoNode
    Unavailable = Unavailable
SYMMETRY NodeSymmetry
INVARIANTS
    TypeOK
    OwnerIsNearest
    LiveOwner
    ReplicasFound
PROPERTIES
    MinimalDisruption
    ReplicaTakesOver

SPECIFICATION Spec
CONSTANTS
    Queues = {q1}
    NoQueue = NoQueue
    Jobs = {j1, j2, j3, j4, j5, j6}
    NoJob = NoJob
    Fields <- MCFields
    Now = 1
INVARIANTS
    TypeOK
    IndexAgrees
PROPERTIES
    KeepsPromise
SYMMETRY Symmetry

\* Two writers with one process id; one call may be cut at any point.
SPECIFICATION FairSpec
CONSTANTS
    Writers = {1, 2}
    Values = {v1, v2}
    Absent = Absent
    Process <- MCProcess
    MaxTries = 2
    MaxFailures = 1
INVARIANTS
    TypeOK
    HolderInv
PROPERTIES
    AtomicUntilCut
    LockRemoved

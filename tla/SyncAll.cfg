SPECIFICATION FairSpec
CONSTANTS
    N = 2
    Modes = {"both", "push", "pull"}
    Networks = {"wifi", "cellular"}
    Limits <- MCLimits
    FileSize <- MCFileSize
    ForeignSize = 3
    MaxFailures = 1
    MaxOutside = 2
INVARIANTS
    TypeOK
    LimitKept
    PolicyRespected
    BehindIsDone
PROPERTIES
    CompleteIsDone
    Reached

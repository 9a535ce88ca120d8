SPECIFICATION Spec
CONSTANTS
    Writers = {w1, w2}
    MaxCalls = 2
    MaxAttempts = 3
    Servers = {"webdav", "bare", "rootless", "s3"}
SYMMETRY Symmetry
INVARIANTS
    TypeOK
    AnswersTrue
PROPERTIES
    CarriedOutOnce
CHECK_DEADLOCK FALSE

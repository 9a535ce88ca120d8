\* Marks, deletions and revivals under fairness, with clocks that agree.
SPECIFICATION FairSpec
CONSTANTS
    Devices = {1, 2}
    Items = {a}
    Clocks = {1, 2, 3}
    ClockModel = "synchronised"
    CreateTs = {1, 2}
    Modes = {"bidirectional"}
    AppOps = {"item", "delete", "undo"}
    MaxEdits = 3
    MaxAttempts = 2
    ContentVersions = TRUE
    AppSerialized = TRUE
    Faults = FALSE
PROPERTIES
    Convergence

\* As MetaConvergence, with positions: two passes overwrite each other for ever.
SPECIFICATION FairSpec
CONSTANTS
    Devices = {1, 2}
    Items = {a}
    Clocks = {1, 2, 3}
    ClockModel = "synchronised"
    CreateTs = {1}
    Modes = {"bidirectional"}
    AppOps = {"progress", "item"}
    MaxEdits = 3
    MaxAttempts = 2
    ContentVersions = TRUE
    AppSerialized = TRUE
    Faults = FALSE
PROPERTIES
    Convergence

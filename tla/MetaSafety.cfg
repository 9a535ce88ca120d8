\* Two devices, one item, clocks that disagree and go back, passes and deletions cut short.
SPECIFICATION Spec
CONSTANTS
    Devices = {1, 2}
    Items = {a}
    Clocks = {1, 2}
    ClockModel = "arbitrary"
    CreateTs = {1}
    Modes = {"bidirectional"}
    AppOps = {"progress", "item", "delete"}
    MaxEdits = 3
    MaxAttempts = 1
    ContentVersions = TRUE
    AppSerialized = TRUE
    Faults = TRUE
INVARIANTS
    TypeOK
    CacheInv
PROPERTIES
    RemoteProgressLww
    DeletionSticks
    ItemsKept

\* Two items, revivals, pulls, retries, and app operations in the middle of a pass.
SPECIFICATION Spec
CONSTANTS
    Devices = {1, 2}
    Items = {a, b}
    Clocks = {1}
    ClockModel = "arbitrary"
    CreateTs = {1}
    Modes = {"bidirectional", "pull_only"}
    AppOps = {"item", "delete", "undo"}
    MaxEdits = 3
    MaxAttempts = 2
    ContentVersions = FALSE
    AppSerialized = FALSE
    Faults = FALSE
INVARIANTS
    BucketInv
PROPERTIES
    SharedBucket
    NoResurrection
    PassAgrees

\* One device whose rotation fails when the marker is already written.
SPECIFICATION Spec
CONSTANTS
    Devices = {d1}
    Objects = {a, b}
    Configs <- MCConfigs
    FirstConfig <- MCFirst
    Informed = FALSE
    MaxEdits = 2
    MaxRotations = 1
    MaxFailures = 1
INVARIANTS
    Unmixed

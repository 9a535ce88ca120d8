\* Two devices that use the key of the active namespace, two rotations, one failure.
SPECIFICATION FairSpec
CONSTANTS
    Devices = {d1, d2}
    Objects = {a}
    Configs <- MCConfigs
    FirstConfig <- MCFirst
    Informed = TRUE
    MaxEdits = 2
    MaxRotations = 2
    MaxFailures = 1
INVARIANTS
    TypeOK
    NamespaceReady
    OneKey
PROPERTIES
    OnlyForward
    EditsReachActive

SPECIFICATION FairSpec
CONSTANTS
    Devices = {d1, d2}
    Owners = {d1}
    Setups <- MCSetups
    Modes = {"both"}
    MaxFailures = 1
    MaxOutside = 1
INVARIANTS
    TypeOK
    IndexHonest
PROPERTIES
    NoClobber
    PassSettles
    CacheGuarded
    ResolvedIsDone
    ResolutionSticks
    Settles

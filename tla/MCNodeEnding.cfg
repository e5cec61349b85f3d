SPECIFICATION NodeSpec
CONSTANTS
    i1 = i1
    i2 = i2
    o1 = o1
    Incoming = {i1, i2}
    Outgoing = {o1}
    Capacity = 1
    Command = {"version", "verack"}
    MaxMessages = 0
    VersionBuilds = {TRUE}
CONSTRAINT MCOneCause
SYMMETRY MCSymmetry
INVARIANTS
    PMTypeOK
    PeeridCountsTasks
    RegistrySound
    LowIdsNeverPileUp
    NoLeak
    DrainedPeersAreTold
PROPERTIES
    PMSpec
    HMSpec

SPECIFICATION HMSpec
CONSTANTS
    i1 = i1
    o1 = o1
    Incoming = {i1}
    Outgoing = {o1}
    Capacity = 1
    Command = {"version", "invalid_version", "verack"}
    VersionBuilds = {TRUE, FALSE}
INVARIANTS
    HMTypeOK
    MapsAgree
PROPERTY ImplementsHandshake
CHECK_DEADLOCK FALSE

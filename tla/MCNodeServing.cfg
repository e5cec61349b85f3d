SPECIFICATION NodeSpec
CONSTANTS
    i1 = i1
    i2 = i2
    Incoming = {i1, i2}
    Outgoing = {}
    Capacity = 2
    Command = {"version", "verack"}
    MaxMessages = 2
    VersionBuilds = {TRUE}
CONSTRAINT MCServing
SYMMETRY MCSymmetry
INVARIANTS
    PeerTypeOK
    NoLeak
    SocketOrder
    InnocentNotReported
    FlagsMatchTraffic

SPECIFICATION MCHonestSpec
CONSTANTS
    i1 = i1
    o1 = o1
    Incoming = {i1}
    Outgoing = {o1}
    Capacity = 2
    Command = {"version", "verack"}
    MaxMessages = 2
    VersionBuilds = {TRUE}
PROPERTIES
    HandshakeCompletes
    HMSpec
CHECK_DEADLOCK FALSE

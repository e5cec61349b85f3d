SPECIFICATION SystemLiveSpec
CONSTANTS
    Incoming = {"i1", "i2"}
    Outgoing = {}
    Capacity = 1
    Command = {"verack"}
    MaxMessages = 1
    VersionBuilds = {TRUE}
    Backlog = 1
    SystemFaults = {"bind", "hm"}
INVARIANTS
    PeersEndFirst
PROPERTIES
    ImplementsSupervision
    PMSpec
    SystemEnds
CHECK_DEADLOCK FALSE

SPECIFICATION DetailLiveSpec
CONSTANTS
    i1 = i1
    Incoming = {i1}
    Outgoing = {}
    Self = i1
    Capacity = 1
    Command = {"version", "verack"}
    MaxMessages = 2
INVARIANTS
    DetailTypeOK
    NothingTakenIsLost
PROPERTIES
    ImplementsPeerActor
    ClosingReturns
    CutOffEnds
CHECK_DEADLOCK FALSE

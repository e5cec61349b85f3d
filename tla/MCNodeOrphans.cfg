SPECIFICATION MCServingSpec
CONSTANTS
    i1 = i1
    i2 = i2
    i3 = i3
    Incoming = {i1, i2, i3}
    Outgoing = {}
    Capacity = 1
    Command = {"verack"}
    MaxMessages = 1
    VersionBuilds = {TRUE}
PROPERTIES
    OrphansEnd
CHECK_DEADLOCK FALSE

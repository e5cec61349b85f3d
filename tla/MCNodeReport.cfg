SPECIFICATION NodeSpec
CONSTANTS
    i1 = i1
    i2 = i2
    Incoming = {i1, i2}
    Outgoing = {}
    Capacity = 2
    Command = {"verack"}
    MaxMessages = 1
    VersionBuilds = {TRUE}
CONSTRAINT MCServing
INVARIANT ReportHitsOffender

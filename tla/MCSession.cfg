SPECIFICATION SessionSpec
CONSTANTS
    Dirs = {"to_in", "to_out"}
    LEN_MAGIC = 2
    LEN_HEADER_MESSAGE = 4
    LenVersion = 5
    TempBuffer = 32
    MaxHanded = 2
PROPERTIES
    HandshakeOverTheWire
CHECK_DEADLOCK FALSE

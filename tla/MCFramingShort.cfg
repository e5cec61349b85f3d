SPECIFICATION FramingSpec
CONSTANTS
    Dirs = {"d"}
    LEN_MAGIC = 4
    LEN_HEADER_MESSAGE = 24
    LenVersion = 114
    TempBuffer = 4096
    MaxHanded = 1
INVARIANT ShortBufferWaits
CHECK_DEADLOCK FALSE

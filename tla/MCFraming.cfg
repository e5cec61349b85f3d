SPECIFICATION FramingSpec
CONSTANTS
    Dirs = {"to_in"}
    LEN_MAGIC = 4
    LEN_HEADER_MESSAGE = 14
    LenVersion = 47
    TempBuffer = 256
    MaxHanded = 3
    Base = 4
    W16 = 2
    W32 = 4
    W64 = 4
    IpLen = 4
    CommandLen = 2
    MAGIC_BYTES = 197
    BYTES_VERSION <- MCVersion
    BYTES_VERACK <- MCVerack
    USERAGENT <- MCAgent
    Versions <- MCVersions
INVARIANTS
    FramingTypeOK
    ParsedInOrder
    RejectedOnlyAfterVerack
    OnlyTheCrowdWaits
PROPERTY
    BytesSayTheSame
CHECK_DEADLOCK FALSE

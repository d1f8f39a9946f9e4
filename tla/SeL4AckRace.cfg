CONSTANTS
    ByteMax = 7
    MaxPty = 5
    OuterMode = "raw"
    ChipTags = {1}
    OuterTag = 1
    Faults = {}
    MuxClients = {1}
    RegistryJson <- OneStream
    FrameSize = 11
    DemuxSinks = {1}
    RingSize = 4
    NoClient = 0
    StreamOf <- ByNumber
    BatchSize = 4
    FlushThreshold = 4
    FlushBytes <- EndOfLine
    ReadSize = 2
    FragmentSize = 1
    EnableRawWrite = FALSE
    TtyFaults = {}
    PutBytes <- LineAndEsc
    TypeBytes <- EndOfLine
    MaxPut = 4
    MaxTyped = 1
    TypeInto = {3}
    MaxReopens = 0
    LinkCap = 1
SPECIFICATION LSpec
INVARIANTS
    UplinkIntact
CHECK_DEADLOCK FALSE

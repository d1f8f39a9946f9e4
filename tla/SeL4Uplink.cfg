CONSTANTS
    ByteMax = 7
    MaxPty = 5
    OuterMode = "raw"
    ChipTags = {1}
    OuterTag = 1
    Faults = {}
    MuxClients = {1, 2}
    RegistryJson <- OneInput
    FrameSize = 11
    DemuxSinks = {1, 2}
    RingSize = 4
    NoClient = 0
    StreamOf <- ByNumber
    BatchSize = 5
    FlushThreshold = 5
    FlushBytes <- EndOfLine
    ReadSize = 2
    FragmentSize = 1
    EnableRawWrite = FALSE
    TtyFaults = {}
    PutBytes <- LineAndEsc
    TypeBytes = {}
    MaxPut = 5
    MaxTyped = 0
    TypeInto = {}
    MaxReopens = 0
    LinkCap = 1
SPECIFICATION LSpec
INVARIANTS
    FramesFit
    
PROPERTY ImplementsUplink
CHECK_DEADLOCK FALSE

CONSTANTS
    ByteMax = 7
    MaxPty = 5
    OuterMode = "raw"
    ChipTags = {1}
    OuterTag = 1
    Faults = {}
    MuxClients = {1, 2}
    RegistryJson <- OneStream
    FrameSize = 11
    DemuxSinks = {1}
    RingSize = 2
    NoClient = 0
    StreamOf <- OnlyFirst
    BatchSize = 4
    FlushThreshold = 4
    FlushBytes <- EndOfLine
    ReadSize = 2
    FragmentSize = 1
    EnableRawWrite = FALSE
    TtyFaults = {"timeout", "drain", "partial"}
    PutBytes <- EndOfLine
    TypeBytes <- PlainAndEsc
    MaxPut = 1
    MaxTyped = 1
    TypeInto = {3}
    MaxReopens = 1
    LinkCap = 1
SPECIFICATION LSpec
INVARIANTS
    CMTypeOK
    
    
CHECK_DEADLOCK FALSE

CONSTANTS
    ByteMax = 7
    Clients = {c1, c2}
    Names <- OneName
    DataBytes <- OneByte
    ChanCap = 1
    MaxRead = 1
    MaxWrite = 1
    MaxSessions = 2
    SinkMayFail = TRUE
    MaxPty = 9
    OuterMode = "raw"
    ChipTags = {1}
    OuterTag = 1
    Faults = {}
SPECIFICATION MFairSpec
INVARIANTS
    NothingUnframed
    
PROPERTIES
    ImplementsChannels
    DeliversWhileSinkWorks
CHECK_DEADLOCK FALSE

CONSTANTS
    ByteMax = 7
    Clients = {c1}
    Names <- TwoNames
    DataBytes <- TwoBytes
    ChanCap = 1
    MaxRead = 1
    MaxWrite = 0
    MaxSessions = 6
    SinkMayFail = FALSE
    MaxPty = 9
    OuterMode = "raw"
    ChipTags = {1}
    OuterTag = 1
    Faults = {}
SPECIFICATION MSpec
INVARIANTS
    PtyHasSessionName
CHECK_DEADLOCK FALSE

CONSTANTS
    ByteMax = 3
    Clients = {c1, c2}
    Names <- MCNames
    DataBytes = {1}
    ChanCap = 1
    MaxRead = 2
    MaxWrite = 2
    MaxSessions = 5
    SinkMayFail = TRUE
SPECIFICATION DFairSpec
INVARIANTS
    DTypeOK
    
    PoolMatchesSessions
PROPERTIES
    FramesFormSessions
    IdsAreReturned
CHECK_DEADLOCK FALSE

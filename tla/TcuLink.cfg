CONSTANTS
    ByteMax = 7
    ChipTags <- TwoChips
    EnableRawWrite = TRUE
    ReadSize = 2
    PrintBytes <- Lines
    NewLine = 1
    Return = 2
    BufSize = 2
    OtherBytes <- AllKinds
    TypeBytes <- TagAndEsc
    UnknownTag = 6
    Batches <- SomeBatches
    MaxEvents = 4
SPECIFICATION TLSpec
INVARIANTS
    TLTypeOK
    SinksKeepOrder
    ClientsAreApart
    LinesEndInBoth
    
    OnlyAddressedClient
CHECK_DEADLOCK FALSE

CONSTANTS
    ByteMax = 7
    MaxPty = 5
    OuterMode = "nvidia-tcu"
    ChipTags = {1, 2}
    OuterTag = 1
    Faults = {"alloc", "openpt", "log", "pty", "tty"}
    Scripts <- MCScripts
    MaxEvents = 1
SPECIFICATION SSpec
INVARIANTS
    TypeOK
    CursorIsOpenStream
    DistinctStreamIds
    StreamsWithInputAreServed
    DecodesRecords
    ResyncsAfterLoss
PROPERTY TableOnlyGrows
CHECK_DEADLOCK FALSE

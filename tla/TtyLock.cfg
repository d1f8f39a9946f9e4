CONSTANTS
    a = a
    b = b
    c = c
    Procs <- AllProcs
    Retries = 1
    MaxStarts = 3
    MaxPlugs = 2
SPECIFICATION LFairSpec
INVARIANTS
    LTypeOK
    ExclusiveTty
    LockFileIsExclusive
    
    StrayWritesNeedHangup
PROPERTIES
    StartersSettle
CHECK_DEADLOCK FALSE

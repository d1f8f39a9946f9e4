CONSTANTS
    Pipes <- BothPipes
    ReadSize = 2
    ChanCap = 1
    MaxOut = 3
SPECIFICATION EFairSpec
INVARIANTS
    ETypeOK
    CleanExitIsComplete
PROPERTIES
    ImplementsPipes
    
    ForwardsWhileConnected
CHECK_DEADLOCK FALSE

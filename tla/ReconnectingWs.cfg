SPECIFICATION FairSpec
CONSTANTS
    MaxChunks = 5
    MaxBuffered = 3
    DrainYieldEvery = 2
    Budget = 4
    BaseDelay = 2
    MaxDelay = 4
    JitterPct = 50
INVARIANTS
    NeverWedged
    AtMostOnce
PROPERTIES
    ComesToRest
    ImplementsUplink
    OutageEnds
    BufferDrains
CHECK_DEADLOCK FALSE

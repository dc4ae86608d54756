SPECIFICATION FairSpec
CONSTANTS
    PipeCap = 2
    ReadSize = 3
    MaxSig = 4
    MaxConn = 2
    MaxFault = 1
INVARIANTS
    TypeOK
    LeavesOnlyOnInt
    ByteHasEvent
    NoBrokenPipe
PROPERTIES
    InterruptStops
CHECK_DEADLOCK FALSE

SPECIFICATION Spec
CONSTANTS
    Input <- Streams
    BufSize = 14
INVARIANTS
    TypeOK
    ParseIsIncremental
    NoCrLeftBehind
    UnjudgedAsSent
CHECK_DEADLOCK FALSE

SPECIFICATION FairSpec
CONSTANTS
    c1 = c1
    c2 = c2
    Conn = {c1, c2}
    w1 = w1
    w2 = w2
    Worker = {w1, w2}
    Garbage = Garbage
    MaxData = 1
    MaxFault = 1
INVARIANTS
    TypeOK
    OneWorkerPerConnection
    ArrivalNotOverlooked
PROPERTIES
    ClosedConnectionsReleased
CHECK_DEADLOCK FALSE

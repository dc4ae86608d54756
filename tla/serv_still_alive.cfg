SPECIFICATION Spec
CONSTANTS
    c1 = c1
    Conn = {c1}
    UserLimit = 2
    NoConn = NoConn
    PidOne = PidOne
    Endings = {"fin", "rst", "finrst"}
    MaxTerm = 1
    MaxFault = 0
INVARIANTS
    StillAliveCount
CHECK_DEADLOCK FALSE

SPECIFICATION Spec
CONSTANTS
    c1 = c1
    c2 = c2
    Conn = {c1, c2}
    UserLimit = 2
    NoConn = NoConn
    PidOne = PidOne
    Endings = {"fin", "rst", "finrst"}
    MaxTerm = 0
    MaxFault = 0
INVARIANTS
    NotificationMeansMessage
CHECK_DEADLOCK FALSE

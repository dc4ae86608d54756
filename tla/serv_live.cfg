SPECIFICATION FairSpec
CONSTANTS
    c1 = c1
    c2 = c2
    Conn = {c1, c2}
    UserLimit = 1
    NoConn = NoConn
    PidOne = PidOne
    Endings = {"rst"}
    MaxTerm = 1
    MaxFault = 0
PROPERTIES
    ZombiesReaped
    ShutdownProgress
CHECK_DEADLOCK FALSE

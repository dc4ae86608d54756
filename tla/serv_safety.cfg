SPECIFICATION Spec
CONSTANTS
    c1 = c1
    c2 = c2
    c3 = c3
    Conn = {c1, c2, c3}
    UserLimit = 2
    NoConn = NoConn
    PidOne = PidOne
    Endings = {"fin", "rst", "finrst"}
    MaxTerm = 1
    MaxFault = 1
SYMMETRY Connections
CONSTRAINT FewDisturbed
INVARIANTS
    TypeOK
    SegmentSingleWriter
    RegistryAgrees
    SignalNotStuck
    ZombieNotForgotten
    NotificationsFromOthers
    RelayedSegmentBlank
PROPERTIES
    SigtermReachesEveryChild
CHECK_DEADLOCK FALSE

SPECIFICATION ProgramsSpec
CONSTANTS
    Fd = {1, 2, 3}
    MaxOpen = 3
    MaxBacklog = 2
    MaxConnects = 4
    MaxUnread = 2
    Timer = {1, 2, 3}
    NULL = NULL
    TIMESLOT = 1
    USER_LIMIT = 2
    MaxInbox = 2
    FewOpen = 2
    FewBacklog = 1
    FewConnects = 3
    FewUnread = 1
INVARIANTS
    ProgramTypeOK
    TimersOfConnections
    SilenceHarmless
    EdgeDrained
    OpenIsListed
    InputOnlyAfterTheEnd
    SilentAfterMessage
    HoldersApart
PROPERTIES
    ReceiverEndNoticed
    EndedIsClosed
    EndsUnlessCopiedLocked
    BothEnd
CHECK_DEADLOCK FALSE

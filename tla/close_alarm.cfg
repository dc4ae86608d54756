SPECIFICATION Spec
CONSTANTS
    Fd = {1, 2}
    MaxOpen = 2
    MaxBacklog = 1
    MaxConnects = 2
    MaxUnread = 1
    Timer = {1, 2}
    NULL = NULL
    TIMESLOT = 1
PROPERTIES
    AlarmClosesInactive
CHECK_DEADLOCK FALSE

SPECIFICATION Spec
CONSTANTS
    t1 = t1
    t2 = t2
    t3 = t3
    Timer = {t1, t2, t3}
    NULL = NULL
    Spans = {1, 2, 3}
    AdjustCases = {"inplace"}
    MaxTime = 4
INVARIANTS
    TypeOK
    AscendingDoublyLinked
PROPERTIES
    ImplementsQueue
CHECK_DEADLOCK FALSE

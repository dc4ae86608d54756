SPECIFICATION Spec
CONSTANTS
    t1 = t1
    t2 = t2
    t3 = t3
    Timer = {t1, t2, t3}
    NULL = NULL
    Spans = {3}
    AdjustCases = {"inplace","head","middle"}
    MaxTime = 4
INVARIANTS
    AscendingDoublyLinked
CHECK_DEADLOCK FALSE

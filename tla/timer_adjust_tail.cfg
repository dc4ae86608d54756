SPECIFICATION Spec
CONSTANTS
    t1 = t1
    t2 = t2
    t3 = t3
    Timer = {t1, t2, t3}
    NULL = NULL
    Spans = {3}
    AdjustCases = {"tail"}
    MaxTime = 4
INVARIANTS
    AdjustTailUnchanged
CHECK_DEADLOCK FALSE

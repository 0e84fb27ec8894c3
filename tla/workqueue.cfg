CONSTANTS
    a = a
    b = b
    c = c
    d = d
    e = e
    Ops = {a, b, c, d, e}
    Chained <- MCChained
    MayStop = TRUE
SPECIFICATION FairSpec
CHECK_DEADLOCK FALSE
INVARIANTS NeverDoubleSchedules NoStrandedWork RunsInOrder
PROPERTIES EveryOpRuns

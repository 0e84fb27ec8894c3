SPECIFICATION Spec
CONSTANTS
    Workers = {w1, w2}
    NumStarts = 1
    MaxRows = 3
    MaxBeats = 1
    MaxSweeps = 1
INVARIANTS
    CompletedIsReal
CHECK_DEADLOCK FALSE

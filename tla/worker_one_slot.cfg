CONSTANTS
    Slots = {s1}
    Types = {t1, t2}
    MaxTasks = 3
    MayThrow = TRUE
SPECIFICATION FairSpec
CHECK_DEADLOCK FALSE
INVARIANTS SlotKeepsItsTask
 

SPECIFICATION FairSpec
CONSTANTS
    Defs <- AllDefs
    Values = {"yes"}
    Ops <- AllOps
    Results = {"COMPLETED", "FAILED"}
    MaxIds = 6
    MaxOps <- AllCalls
    MaxHeld <- AllHeld
CHECK_DEADLOCK FALSE
INVARIANTS  NothingStuck
PROPERTIES OverStaysOver  EventuallyEnds

SPECIFICATION PartsSpec
CONSTANTS
    NumRouters = 1
    LeafBits = 3
    ReadySets <- SomeReady
    Churn = TRUE
    Watched <- LeafIds
    Chars <- SomeChars
    MaxText = 4
    CronItems <- SomeItems
    MaxItems = 3
    FieldRanges <- SomeRanges
    Inputs <- ScriptValues
    Args <- ScriptArgs
    Results <- HostResults
    MaxDepth = 2
    MaxSteps = 2
    Procs = {p1}
    Keys = {k1, k2}
    Values = {1, 2}
    Docs = {d1}
    MaxOps = 3
    Jobs = {1, 2}
    Limits = {0, 1, 2}
    MaxReplies = 3
    Hosts = {h1, h2}
    Baselines = 1
    MaxSecond = 2
    MaxSchema = 2
    MaxHand = 1
    MaxFaults = 1
SYMMETRY PartsSymmetry
CHECK_DEADLOCK FALSE
INVARIANTS TextsReadBack CronFieldsMean  AckedWritesKept  AnsweredOnce  LedgerIsTrue ReadyIsCurrent 
PROPERTIES TreeServes

SPECIFICATION FairSpec
CONSTANTS
    c1 = c1
    c2 = c2
    b1 = b1
    Contracts = {c1, c2}
    Branches = {b1}
    BranchOf <- MCBranchOf
    LeafWidth = 2
    Pool = {p1}
    Callers = {k1, k2}
    CallerOps = {"schedule", "release"}
    WorkerOps = {"schedule", "release"}
    CreateFlags <- MCEither
    MaxCalls = 1
CHECK_DEADLOCK FALSE
INVARIANTS NoLostWakeup TreeAgrees
PROPERTIES KeepsPromise

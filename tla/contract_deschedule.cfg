SPECIFICATION Spec
CONSTANTS
    c1 = c1
    c2 = c2
    b1 = b1
    Contracts = {c1}
    Branches = {b1}
    BranchOf <- MCBranchOf
    LeafWidth = 1
    Pool = {p1}
    Callers = {k1, k2}
    CallerOps = {"schedule", "deschedule", "release"}
    WorkerOps = {"schedule", "deschedule", "release"}
    CreateFlags <- MCEither
    MaxCalls = 2
INVARIANTS TypeOK ReleasedOnce
CHECK_DEADLOCK FALSE

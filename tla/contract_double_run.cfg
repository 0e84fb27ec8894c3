SPECIFICATION Spec
CONSTANTS
    c1 = c1
    c2 = c2
    b1 = b1
    Contracts = {c1}
    Branches = {b1}
    BranchOf <- MCBranchOf
    LeafWidth = 1
    Pool = {p1, p2}
    Callers = {k1}
    CallerOps = {"schedule"}
    WorkerOps = {"schedule"}
    CreateFlags <- MCEither
    MaxCalls = 1
INVARIANT MutualExclusion
CHECK_DEADLOCK FALSE

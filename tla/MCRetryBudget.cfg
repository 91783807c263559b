SPECIFICATION Spec
CONSTANTS
    j1 = j1
    w1 = w1
    w2 = w2
    s1 = s1
    s2 = s2
    NULL = NULL
    Jobs <- MCOneJob
    Params <- MCOneParams
    Workers = {w1, w2}
    Sessions = {s1, s2}
    Polls <- MCPolls
    Second = 1
    Base = 1
    CapDelay = 1
    MaxDuration = 7
    Lease = 1
    Limit = 1
    MaxNow = 2
    MaxRuns = 3
    TxBound = 1
SYMMETRY Symmetry
INVARIANT
    RetryBudgetKept

SPECIFICATION PoolSpec
CONSTANTS
    j1 = j1
    w1 = w1
    w2 = w2
    a = a
    b = b
    c = c
    NULL = NULL
    Jobs <- MCJobs
    Params <- MCParams
    Workers = {w1}
    Slots = {a, b}
    WorkerOf <- MCShared
    Handlers <- MCHandlers
    Second = 1
    Base = 1
    CapDelay = 2
    MaxDuration = 7
    Punctual = TRUE
    MaxFaults = 2
    Lease = 5
    JobTimeout = 7
    ShutdownGrace = 3
    MaxInterval = 5
    SettleTimeout = 1
    Lag = 1
    HandlerGrace = 1
    MaxNow = 9
    MaxClaims = 5
SYMMETRY Symmetry
INVARIANTS
    ExclusiveExecution
    LeaseHasSlot
    LeasesOutlastWork
    AttemptsBounded
PROPERTIES
    SettlesOwnClaim

SPECIFICATION PoolSpec
CONSTANTS
    j1 = j1
    w1 = w1
    w2 = w2
    a = a
    b = b
    c = c
    NULL = NULL
    Jobs <- MCJobs
    Params <- MCParams
    Workers = {w1, w2}
    Slots = {a, b, c}
    WorkerOf <- MCTwo
    Handlers <- MCHandlers
    Second = 1
    Base = 1
    CapDelay = 2
    MaxDuration = 7
    Punctual = FALSE
    MaxFaults = 1
    Lease = 3
    JobTimeout = 5
    ShutdownGrace = 3
    MaxInterval = 5
    SettleTimeout = 1
    Lag = 1
    HandlerGrace = 1
    MaxNow = 5
    MaxClaims = 2
SYMMETRY Symmetry
PROPERTIES
    FencedByWorker

SPECIFICATION FairSpec
CONSTANTS
    NULL = NULL
    c1 = c1
    c2 = c2
    Conns = {c1, c2}
    MaxRetries = 1
    Window = 2
    Expiry = 3
    Samples <- MCSamples
    MaxNow = 3
    MaxRuns = 1
    MaxFaults = 1
CHECK_DEADLOCK FALSE
INVARIANTS
    TotalAddsUp
    WindowCounts
    PercentilesRanked
PROPERTIES
    TotalNeverFalls
    TotalConverges

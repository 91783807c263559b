SPECIFICATION LimiterSpec
CONSTANTS
    c1 = c1
    c2 = c2
    NULL = NULL
    Callers = {c1, c2}
    Rate = 2
    Burst = 0
    Unit = 3
    Expiry = 5
    MaxDelay = 2
    MaxNow = 9
    MaxCalls = 10
SYMMETRY Symmetry
CHECK_DEADLOCK FALSE
INVARIANTS
    Overshoot
PROPERTIES
    ImplementsTokenBucket

SPECIFICATION LiveSpec
CONSTANTS
    j1 = j1
    w1 = w1
    s1 = s1
    s2 = s2
    NULL = NULL
    Jobs <- MCJobs
    Params <- MCParams
    Workers = {w1}
    Sessions = {s1, s2}
    Polls <- MCPolls
    Second = 1
    Base = 1
    CapDelay = 1
    MaxDuration = 7
    Lease = 1
    Limit = 1
    MaxNow = 2
    MaxRuns = 2
    TxBound = 1
PROPERTIES
    TransactionsEnd
    ExpiredLeaseRecovered

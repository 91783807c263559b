SPECIFICATION FairSpec
CONSTANTS
    c1 = c1
    c2 = c2
    NULL = NULL
    Clients = {c1, c2}
    Cap = 1
    MaxJobs = 1
    MaxTicks = 1
CHECK_DEADLOCK FALSE
INVARIANTS
    NoSendOnClosed
    SameOrder
    NothingMissed
PROPERTIES
    PublishReturns
    ChannelsClosed

SPECIFICATION FairSpec
CONSTANTS
    c1 = c1
    c2 = c2
    h1 = h1
    h2 = h2
    p1 = p1
    NULL = NULL
    Clients = {c1, c2}
    Handlers = {h1, h2}
    Processes = {p1}
    Ids <- MCIds
    Tenants = {"tenant-1", "tenant-2"}
    Workloads <- MCWorkloads
    MaxFaults = 1
    MaxStops = 1
CHECK_DEADLOCK FALSE
INVARIANTS
    OneJobPerKey
    StoredAsRequested
    CancelStands
PROPERTIES
    RpcsSurviveShutdown
    Answered
    ShutdownEnds

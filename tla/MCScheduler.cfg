SPECIFICATION Spec
CONSTANTS
    r1 = r1
    r2 = r2
    a = a
    b = b
    NULL = NULL
    Orphan = Orphan
    Replicas = {r1, r2}
    Schedules = {a, b}
    Crons <- MCCrons
    Loaded <- MCLoadedNull
    LockCanBreak = FALSE
    MaxNow = 2
    MaxFaults = 1
SYMMETRY Symmetry
INVARIANTS
    OneLeader
PROPERTIES
    NoOccurrenceSkipped

SPECIFICATION FairSpec
CONSTANTS
    r1 = r1
    r2 = r2
    a = a
    b = b
    NULL = NULL
    Orphan = Orphan
    Replicas = {r1, r2}
    Schedules = {a}
    Crons <- MCCrons
    Loaded <- MCLoadedDue
    LockCanBreak = TRUE
    MaxNow = 2
    MaxFaults = 2
INVARIANTS
    AtMostOneJob
    OnlyOccurrences
PROPERTIES
    NoOccurrenceSkipped
    DueIsEnqueued

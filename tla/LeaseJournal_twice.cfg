SPECIFICATION Spec
CONSTANTS
    j1 = j1
    j2 = j2
    e1 = e1
    e2 = e2
    l1 = l1
    l2 = l2
    nobody = nobody
    Jobs = {j1}
    Endpoints = {e1}
    LeaseIds = {l1}
    Nobody = nobody
    MaxAttempts = 2
    MaxGeneration = 4
    MaxEvents = 4
    MaxCrashes = 2
    Appenders = {j1}
    Observed <- MCNoJobs
CHECK_DEADLOCK FALSE
INVARIANTS
    LeaseRecordsExact
    EventsContiguous
PROPERTIES
    HistoryIsKept

SPECIFICATION Spec
CONSTANTS
    j1 = j1
    j2 = j2
    e1 = e1
    e2 = e2
    l1 = l1
    l2 = l2
    nobody = nobody
    Jobs = {j1, j2}
    Endpoints = {e1}
    LeaseIds = {l1, l2}
    Nobody = nobody
    MaxAttempts = 1
    MaxGeneration = 4
    MaxEvents = 2
    MaxCrashes = 1
    Appenders <- MCNoJobs
    Observed = {j2}
CHECK_DEADLOCK FALSE
INVARIANTS
    TypeOK
    LeaseRecordsExact
    QueuedCopiesAreCurrent
    HandoffsExact
    
    JobIndexesComplete

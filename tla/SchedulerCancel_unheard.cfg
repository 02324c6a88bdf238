SPECIFICATION Spec
CONSTANTS
    w1 = w1
    w2 = w2
    a = a
    None = None
    Workers <- TwoWorkers
    Runner = w1
    Ids = {a}
    MaxAttempts = 2
    MaxConfirmations = 2
    MaxFaults = 0
    MaxRequests = 2
INVARIANTS
    RequestIsHeard
CHECK_DEADLOCK FALSE

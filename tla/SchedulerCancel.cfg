SPECIFICATION FairSpec
CONSTANTS
    w1 = w1
    w2 = w2
    a = a
    None = None
    Workers <- TwoWorkers
    Runner = w1
    Ids = {a}
    MaxAttempts = 2
    MaxConfirmations = 2
    MaxFaults = 1
    MaxRequests = 1
INVARIANTS
    TypeOK
    EvidenceIsTrue
    OnlyAskedAndOwned
    OneCancelAtATime
    CallsBudgeted
PROPERTIES
    ProofIsKept
    CancellationDecided
CHECK_DEADLOCK FALSE

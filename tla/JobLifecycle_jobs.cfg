SPECIFICATION Spec
CONSTANTS
    s0 = s0
    s1 = s1
    t1 = t1
    t2 = t2
    t3 = t3
    t4 = t4
    Nobody = Nobody
    Crashed = Crashed
    NoJob = NoJob
    NoTask = NoTask
    Jobs <- TwoJobs
    Slots <- TwoSlots
    Tasks <- FourTasks
    Reconciler = s0
    Slow <- None
    Recoverable <- OneJob
    Scheduled <- JobTwo
    Mishaps <- None
    MaxAttempts = 2
    ForegroundLimit = 1
    MaxFaults = 1
SYMMETRY TaskSymmetry
INVARIANT ExclusiveExecution
 
 
INVARIANT SuccessHasTask
PROPERTY ObservedNeverRelaunched

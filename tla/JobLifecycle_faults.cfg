SPECIFICATION FairSpec
CONSTANTS
    s0 = s0
    s1 = s1
    t1 = t1
    t2 = t2
    t3 = t3
    t4 = t4
    Nobody = Nobody
    Crashed = Crashed
    NoJob = NoJob
    NoTask = NoTask
    Jobs <- OneJob
    Slots <- TwoSlots
    Tasks <- TwoTasks
    Reconciler = s0
    Slow <- OneSlot
    Recoverable <- None
    Scheduled <- OneJob
    Mishaps <- AllMishaps
    MaxAttempts = 2
    ForegroundLimit = 1
    MaxFaults = 1
INVARIANT TypeOK
PROPERTY TerminalIsFinal
 

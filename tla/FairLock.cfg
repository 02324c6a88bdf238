SPECIFICATION FairSpec
CONSTANTS
    t1 = t1
    t2 = t2
    t3 = t3
    u1 = u1
    relay = relay
    worker = worker
    Threads <- MCThreads
    Processes <- MCProcesses
    ProcOf <- MCProcOf
    NoThread = NoThread
    NoProcess = NoProcess
    MaxTickets = 4
    MaxDepth = 2
INVARIANTS
    TypeOK
    MutualExclusion
    NoOvertaking
    ServedTicketIsLive
CHECK_DEADLOCK FALSE
PROPERTIES AcquireReturns

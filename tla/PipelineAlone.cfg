SPECIFICATION FairSpec
CONSTANTS
    t1 = t1
    t2 = t2
    Procs = {api}
    ApiProcs = {api}
    TraceIds <- MCTraceIds
    Versions = {1, 2}
    Batches <- MCRepeating
    MemQueueSize = 1
    MaxIngests = 2
    MaxFaults = 1
INVARIANTS
    CommitsExplained
PROPERTIES
    AcceptedSettles
CHECK_DEADLOCK FALSE

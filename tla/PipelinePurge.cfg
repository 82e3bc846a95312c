SPECIFICATION Spec
CONSTANTS
    t1 = t1
    t2 = t2
    Procs = {api}
    ApiProcs = {api}
    TraceIds <- MCTraceIds
    Versions = {1, 2}
    Batches <- MCBatches
    MemQueueSize = 1
    MaxIngests = 2
    MaxFaults = 0
INVARIANT PurgeClearsMemory
CHECK_DEADLOCK FALSE

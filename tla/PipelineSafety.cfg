SPECIFICATION Spec
CONSTANTS
    t1 = t1
    t2 = t2
    Procs = {api, worker}
    ApiProcs = {api}
    TraceIds <- MCTraceIds
    Versions = {1, 2}
    Batches <- MCBatches
    MemQueueSize = 1
    MaxIngests = 2
    MaxFaults = 1
INVARIANTS
    TypeOK
    NothingLostUnprovoked
    AllOrNothing
PROPERTY DeliverySpec
CHECK_DEADLOCK FALSE

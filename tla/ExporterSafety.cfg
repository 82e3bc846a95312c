SPECIFICATION FairSpec
CONSTANTS
    AppThreads = {a1}
    Callers = {c1, c2}
    MaxQueueSize = 1
    BatchSize = 2
    MaxExports = 2
    MaxCalls = 1
INVARIANTS
    TypeOK
    UnfinishedExact
    InOrderExactlyOnce
    FlushWaits
    ExitDrains
    CountersNeverOverstate
PROPERTIES
    ChannelSpec
    AcceptedIsHanded
    ThreadsEnd
CHECK_DEADLOCK FALSE

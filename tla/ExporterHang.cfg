SPECIFICATION FairSpec
CONSTANTS
    AppThreads = {a1}
    Callers = {c1}
    MaxQueueSize = 2
    BatchSize = 2
    MaxExports = 1
    MaxCalls = 3
PROPERTY EveryCallReturns
CHECK_DEADLOCK FALSE

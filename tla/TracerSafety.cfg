SPECIFICATION Spec
CONSTANTS
    Tasks = {k1, k2}
    Runs = {r1, r2}
    MaxTraces = 3
    MaxSpans = 4
INVARIANTS
    TypeOK
    ContextFollowsStack
    HandOverExplained
    ParentsExplained
SYMMETRY Symmetry
CHECK_DEADLOCK FALSE

SPECIFICATION Spec
CONSTANTS
    t1 = t1
    t2 = t2
    t3 = t3
    timeout = timeout
    Traces = {t1, t2, t3}
    Newest <- MCNewest
    Views <- MCViews
    Groups <- MCGroups
    FailsAs <- MCFailsAs
    Stored <- MCStored
    None = None
    Limit = 2
    MaxEvents = 3
INVARIANTS
    TypeOK
    DeletionsExplained
    PanelsExplained
PROPERTIES
    ClosesExplained
CHECK_DEADLOCK FALSE

SPECIFICATION Spec
CONSTANTS
    default = default
    team = team
    Team = Team
    Threads = {r1, r2}
    Names <- MCNames
    DefaultName = default
    Fold <- MCFold
    Existing <- MCExisting
    TraceIds = {t1}
    ForeignKeys = TRUE
    MaxRequests = 4
INVARIANTS
    TypeOK
    NothingMisplaced
    WorkspacesExplained
SYMMETRY Symmetry
CHECK_DEADLOCK FALSE

SPECIFICATION Spec
CONSTANTS
    w1 = w1
    w2 = w2
    w3 = w3
    Workspaces = {w1, w2, w3}
    Existing <- MCExisting
    Default = w1
    None = None
    Filters = {all, failed}
    Parts = {"traces"}
    MaxEvents = 3
INVARIANTS
    TypeOK
    ScreenExplained
    ChoiceKept
    CaughtUp
SYMMETRY Symmetry
CHECK_DEADLOCK FALSE

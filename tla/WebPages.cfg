SPECIFICATION WebSpec
CONSTANTS
    Loads <- MCLoads
    MaxClicks = 2
    Simulated <- MCSimulated
    w1 = w1
    w2 = w2
    w3 = w3
    gpt4o = gpt4o
    mini = mini
    llama = llama
    Currencies = {"USD", "EUR"}
    Live = {2}
    Typed = {0, 3}
    Prices = {3}
    Sources = 2
    Defaults <- MCDefaults
    Models = {llama, mini}
    Within <- MCWithin
    Workspaces = {w1, w2, w3}
    Existing = {w1, w2}
    None = None
    MaxEvents = 4
INVARIANTS
    PagesTyped
    RowsComplete
    TotalsBounded
    MoneyExplained
    CatalogExplained
    KeysKept
SYMMETRY Symmetry
CHECK_DEADLOCK FALSE

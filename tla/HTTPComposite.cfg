SPECIFICATION FairSpec
CONSTANTS
    BatchLen = 3
    Creds = {k1, k2}
    NoCred = NoCred
    Destinations = 2
    Composite = TRUE
    MaxRetries = 1
INVARIANTS
    TypeOK
    DeliveryExplained
    RepeatsExplained
PROPERTIES
    CallEnds
CHECK_DEADLOCK FALSE

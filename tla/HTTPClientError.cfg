SPECIFICATION Spec
CONSTANTS
    BatchLen = 1
    Creds = {k1}
    NoCred = NoCred
    Destinations = 1
    Composite = FALSE
    MaxRetries = 1
INVARIANT ClientErrorsFinal
CHECK_DEADLOCK FALSE

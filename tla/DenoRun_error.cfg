\* An extension that throws.
SPECIFICATION FairSpec
CONSTANTS
    Capacity = 1
    MaxCalls = 1
    MaxOutstanding = 1
    Prints <- MCTextPrints
    MayThrow = TRUE
    MayDie = FALSE
PROPERTIES
    StdinIsClosed
CHECK_DEADLOCK FALSE

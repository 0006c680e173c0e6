\* A daemon whose extension prints, throws and is killed.
SPECIFICATION FairSpec
CONSTANTS
    Extensions = {a}
    Clients = {cli}
    Nobody = Nobody
    Trays = {tray}
    Requests <- MCRequests
    Faults = {}
    MaxQueue = 1
    MaxChanges = 1
    Capacity = 1
    MaxCalls = 1
    MaxOutstanding = 1
    Prints <- MCPrints
    MayThrow = TRUE
    MayDie = TRUE
PROPERTY OkIsEarned
PROPERTY ImplementsDaemonLoop
CHECK_DEADLOCK FALSE

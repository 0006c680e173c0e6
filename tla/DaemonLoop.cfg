\* A daemon with a tray and two clients, of which one waits while the other is
\* served; everything can fail.
SPECIFICATION FairSpec
CONSTANTS
    Extensions = {a}
    Clients = {cli, hotkey}
    Nobody = Nobody
    Trays = {tray}
    Requests <- MCRequests
    Faults = {"start", "config", "tray"}
    MaxQueue = 1
    MaxChanges = 2
INVARIANTS
    TypeOK
    RegistryTracksDisk
PROPERTIES
    ReloadIsFresh
    ShutdownEnds
    RequestsAreAnswered
CHECK_DEADLOCK FALSE

SPECIFICATION FairSpec
CONSTANTS
    e1 = e1
    e2 = e2
    Unset = Unset
    Keep = Keep
    Extensions = {e1, e2}
    Foreign = {e2}
    Applying = {e1}
    Clients = {c1, c2}
    AbsentIsError = TRUE
    SaveRequests <- MCSaves
    RunRequests <- MCRuns
    LiveRequests <- MCHard
    MaxConnections = 2
    MaxInstalls = 1
    MaxChanges = 1
    MaxFaults = 1
    Modes = {"window", "browser", "headless"}
    MaxPages = 3
INVARIANT TypeOK
INVARIANT OkMeansApplied
INVARIANT TriggerRunsEnabled
PROPERTY EverybodyIsAnswered
CHECK_DEADLOCK FALSE

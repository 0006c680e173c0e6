SPECIFICATION FairSpec
CONSTANTS
    Missing = Missing
    Absent = Absent
    Bad = Bad
    Empty = Empty
    Torn = Torn
    Nothing = Nothing
    NoAction = NoAction
    n1 = n1
    n2 = n2
    Server = d1
    Clients = {c1, c2}
    Tokens = {t1, t2, t3}
    MaxStarts = 3
    Candidates <- MCCandidates
    User = "user"
    Real <- MCReal
    Slots <- MCSlots
    Contents <- MCContents
    Ids <- MCIds
    MaxChanges = 1
    Names = {n1, n2, n3}
    Manifests <- MCManifests
    HostOwned = TRUE
    RequestParts = 3
    AnswerParts = 3
    PipeSize = 2
    Keys = {runs, note}
    Counter = runs
    MaxCount = 3
    MaxFaults = 2
    Files = {f1, f2}
    Runs = {r1, r2}
    Sole = r1
    Texts = {t1, t2}
    Surfaces = {"page", "cli", "daemon"}
    Length = 2
    MaxLocks = 1
INVARIANT TypeOK
INVARIANT TokenServes
INVARIANT DiscoveryIsRight
INVARIANT RunsTheAskedAction
INVARIANT TorrentsAreAccounted
PROPERTY StoreIsAMap
PROPERTY SecretIsKept
PROPERTY TriggerEnds
CHECK_DEADLOCK FALSE

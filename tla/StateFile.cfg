\* Two threads, of the daemon and of the settings UI's own process, save one file;
\* saves fail, processes are killed, the power goes, a person edits the file.
\* One value is enough: a key is there or it is missing.
SPECIFICATION FairSpec
CONSTANTS
    k1 = k1
    k2 = k2
    v1 = v1
    v2 = v1
    daemon = daemon
    cli = cli
    uiThread = uiThread
    trayThread = trayThread
    cliThread = cliThread
    Keys = {k1, k2}
    Values = {v1}
    Missing = Missing
    Absent = Absent
    Bad = Bad
    None = None
    Process = {daemon, cli}
    Thread = {uiThread, cliThread}
    ProcessOf <- MCProcessOf
    Patches <- MCPatches
    Edits <- MCEdits
    InitialFiles <- MCFilesNew
    InitialLegacy <- MCNoLegacy
INVARIANTS
    TypeOK
    NeverTorn
    AcknowledgedSaveStands
PROPERTIES
    UnnamedKeysSurvive
    ImplementsAtomicObject
    SaveReturns
CHECK_DEADLOCK FALSE

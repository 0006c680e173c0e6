\* The first save of an extension whose settings are still in data.json.
SPECIFICATION Spec
CONSTANTS
    k1 = k1
    k2 = k2
    v1 = v1
    v2 = v2
    daemon = daemon
    cli = cli
    uiThread = uiThread
    trayThread = trayThread
    cliThread = cliThread
    Keys = {k1, k2}
    Values = {v1, v2}
    Missing = Missing
    Absent = Absent
    Bad = Bad
    None = None
    Process = {daemon, cli}
    Thread = {uiThread, trayThread}
    ProcessOf <- MCProcessOf
    Patches <- MCPatches
    Edits <- MCNoEdits
    InitialFiles <- MCFilesNew
    InitialLegacy <- MCLegacy
PROPERTIES
    UnnamedKeysSurvive
CHECK_DEADLOCK FALSE

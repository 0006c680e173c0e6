SPECIFICATION FairSpec
CONSTANTS
    Modes = {m1, m2}
    m2 = m2
    s2 = s2
    s1 = s1
    m1 = m1
    DefaultMode = m1
    Scales = {s1, s2}
    DefaultScale = s1
    StandardScales <- MCStandardScales
    Completed <- MCCompleted
    Unset = Unset
    ClickConfigs <- MCClickConfigs
    RefreshConfigs <- MCRefreshConfigs
    MaxJobs = 1
    MaxClicks = 1
    MaxFaults = 1
    MaxClickEdits = 0
    MaxRefreshEdits = 1
    Percents <- MCPercents
    Displays <- MCDisplays
    MainTray = MainTray
    Specs = {first, second}
    Null = Null
    Faults = {"spawn", "provider", "window", "icon", "loop"}
    Hotkeys = {scroll_lock, f12}
    Default = scroll_lock
    Unsupported = hyper
    Cleared = cleared
    MaxSaves = 2
    MaxPresses = 3
    MaxOthers = 1
    MaxToggles = 1
    Keys = {"a", "A", "7", ".", "+", " ", "Enter", "Escape", "Delete", "PageUp", "ArrowUp", "ScrollLock", "CapsLock", "F1", "F12", "F24", "Find", "Control", "Alt", "Shift", "Meta"}
    MaxDowns = 2
INVARIANT TypeOK
INVARIANT DisplayObeys
INVARIANT UsesAreSafe
INVARIANT HotkeyIsHeld
INVARIANT FieldsAreTrue
PROPERTY ThreadsSettle
CHECK_DEADLOCK FALSE

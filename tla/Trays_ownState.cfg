\* Two extensions that declare a tray; nothing fails.
SPECIFICATION Spec
CONSTANTS
    MainTray = MainTray
    Specs = {first, second}
    Null = Null
    Faults = {}
INVARIANT OwnState
CHECK_DEADLOCK FALSE

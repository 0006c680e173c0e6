\* A person copies an extension into place; nothing else fails.
SPECIFICATION Spec
CONSTANTS
    Extensions = {a}
    Clients = {cli}
    Nobody = Nobody
    Trays = {tray}
    Requests <- MCHarmless
    Faults = {}
    MaxQueue = 1
    MaxChanges = 1
PROPERTIES
    AlwaysOn
CHECK_DEADLOCK FALSE

\* One extension, two handlers at a time, and somebody else who saves.
SPECIFICATION FairSpec
CONSTANTS
    e1 = e1
    v0 = v0
    v1 = v1
    Extensions = {e1}
    Applying = {e1}
    Values = {v0, v1}
    Default = v0
    Unset = Unset
    Tasks = {t1, t2}
    MaxClicks = 2
    MaxEdits = 1
    MaxOthers = 1
    MaxFaults = 1
INVARIANT TypeOK
PROPERTY PageSettles
PROPERTY PageIsTrue
CHECK_DEADLOCK FALSE

CONSTANTS
    f1 = f1
    f2 = f2
    c1 = c1
    m1 = m1
    t1 = t1
    File = {f1, f2}
    Raw = {f1}
    Launch = {c1}
    Manual = {m1}
    Tail = {t1}
    Keep = 1
    Slack = 1
    MaxClock = 6
    MaxOther = 1
SPECIFICATION Spec
INVARIANTS
    UploadedMeansStored
    SavedOrExcused
PROPERTIES
    NewestStays
CHECK_DEADLOCK FALSE

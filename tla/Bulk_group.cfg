SPECIFICATION FairSpec
CONSTANTS
    o1 = o1
    o2 = o2
    s1 = s1
    s2 = s2
    None = None
    Ops = {o1}
    Sessions = {s1, s2}
    MaxCancels = 1
    MaxRetries = 1
INVARIANTS TypeOK CancelFreesLock
PROPERTIES RivalKeepsLock ItemsFollow
CHECK_DEADLOCK FALSE

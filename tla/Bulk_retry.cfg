SPECIFICATION Spec
CONSTANTS
    o1 = o1
    o2 = o2
    s1 = s1
    s2 = s2
    None = None
    Ops = {o1}
    Sessions = {s1}
    MaxCancels = 0
    MaxRetries = 2
PROPERTY OnlyFailedRetried
CHECK_DEADLOCK FALSE

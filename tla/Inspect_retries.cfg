SPECIFICATION FairSpec
CONSTANTS
    Items = {1, 2}
    Sessions = {s1, s2}
    s1 = s1
    s2 = s2
    Restarts = {"long"}
    LoopFailures = FALSE
    MaxCrashes = 0
    MaxCancels = 0
    MaxRetries = 1
PROPERTIES ItemsEnd ReportSettles
CHECK_DEADLOCK FALSE

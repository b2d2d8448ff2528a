SPECIFICATION FairSpec
CONSTANTS
    Items = {1, 2}
    Sessions = {s1}
    s1 = s1
    s2 = s2
    Restarts = {"short"}
    LoopFailures = FALSE
    MaxCrashes = 1
    MaxCancels = 0
    MaxRetries = 0
PROPERTY JobResumes
CHECK_DEADLOCK FALSE

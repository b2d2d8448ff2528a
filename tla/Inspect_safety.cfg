SPECIFICATION Spec
CONSTANTS
    Items = {1, 2}
    Sessions = {s1, s2}
    s1 = s1
    s2 = s2
    Restarts = {"short", "long"}
    LoopFailures = TRUE
    MaxCrashes = 1
    MaxCancels = 1
    MaxRetries = 1
SYMMETRY Symmetric
INVARIANTS TypeOK InspectedIsRecorded
PROPERTIES ResultsStay
CHECK_DEADLOCK FALSE

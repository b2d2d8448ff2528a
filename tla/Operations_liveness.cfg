SPECIFICATION FairSpec
CONSTANTS
    o1 = o1
    o2 = o2
    t1 = t1
    s1 = s1
    s2 = s2
    None = None
    Ops = {o1, o2}
    Tables = {t1}
    TableOf <- OneTable
    SparkOps = {o1, o2}
    Users <- Names
    Casefold <- NamesCasefold
    Requester <- FiledByKim
    Snapshots = {s1, s2}
    ExternalTables = {t1}
    InspectedTables = {}
    Faults = {"post", "crash", "poll", "delete", "database"}
    MaxAttempts = 1
    MaxCrashes = 2
CHECK_DEADLOCK FALSE
PROPERTIES ClaimedEnds  ImplementsSerialization

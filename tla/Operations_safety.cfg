SPECIFICATION Spec
CONSTANTS
    o1 = o1
    o2 = o2
    t1 = t1
    s1 = s1
    s2 = s2
    None = None
    Ops = {o1, o2}
    Tables = {t1}
    TableOf <- OneTable
    SparkOps = {o1, o2}
    Users <- Names
    Casefold <- NamesCasefold
    Requester <- FiledByKim
    Snapshots = {s1, s2}
    ExternalTables = {}
    InspectedTables = {}
    Faults = {}
    MaxAttempts = 2
    MaxCrashes = 2
SYMMETRY Symmetric
INVARIANTS TypeOK LockIffActive ClaimedIsCarried SeparationOfDuties NoConcurrentBatches
PROPERTIES CommitsOnPlan EndedStaysEnded ImplementsCommits
CHECK_DEADLOCK FALSE

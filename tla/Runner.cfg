SPECIFICATION FairSpec
CONSTANTS
    t1 = t1
    t2 = t2
    None = None
    Threads = {t1, t2}
    MaxCalls = 2
    MaxOps = 2
    MaxFaults = 2
    MaxSnapshot = 4
INVARIANTS TypeOK SampleNotDoubled
PROPERTIES CommitsOnPlan ResultIsOwn ImplementsCommits OperationEnds SessionReplaced
CHECK_DEADLOCK FALSE

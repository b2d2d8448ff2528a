SPECIFICATION FairSpec
CONSTANTS
    c1 = c1
    c2 = c2
    Clients = {c1, c2}
    Payloads <- PayloadsSent
    MiB = 1
    MaxLong = 1000
    MaxCancels = 2
    MaxRetries = 2
    MaxLost = 1
INVARIANTS TypeOK AnswersOwnPayload MadeIsRunnable
PROPERTIES MadeOnce CreationEnds CancelsWhatWasSeen
CHECK_DEADLOCK FALSE

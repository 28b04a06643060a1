CONSTANTS
    Worker = {w1, w2}
    NoOwner = NoOwner
    Doc = {d1}
    JobId = {j1, j2}
    NoJob = NoJob
    LeasedTypes = {"ingest"}
    MaxAttempts <- TwoAttempts
    LeaseFor = 2
    RetryDelay = 1
    Done = 1
SPECIFICATION FairSpec
INVARIANT
    StaleAttemptIsPowerless
PROPERTIES
    LiveLeaseEndsByHolder
    ImplementsQueue
    EveryJobSettles

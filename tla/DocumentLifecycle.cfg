CONSTANTS
    Worker = {w1, w2, x}
    Ingester = {w1, w2}
    Deleter = x
    NoOwner = NoOwner
    Doc = {d1}
    Content = {c1, c2}
    Unreadable = {}
    MaxVersions = 2
    MaxJobs = 2
    MaxFaults = 1
    MaxAttempts <- TwoAttempts
    LeaseFor = 1
    RetryDelay = 0
    ComputeStages = 1
    Done = 5
SPECIFICATION FairSpec
CHECK_DEADLOCK FALSE
INVARIANTS
    OneLiveIngestPerVersion
    VisibleOnlyByLaterJob
    IndexedIsActive
PROPERTIES
    PublishedOnlyBySuccess
    UploadsSettle

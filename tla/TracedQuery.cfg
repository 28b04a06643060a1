CONSTANTS
    MaxEmits = 2
    SettlesInDatabase = TRUE
    MaxSpans = 2
    MaxTraces = 2
SPECIFICATION FairSpec
CHECK_DEADLOCK FALSE
INVARIANTS
    StreamContract
    TraceTellsOutcome
PROPERTY
    LeavingSettlesAll

SPECIFICATION Spec
CONSTANTS
    Revision = {"r1", "r2"}
    PartsOf <- MCPartsOf
    Down = "down"
    MaxCrashes = 1
INVARIANTS
    DeletedStaysHidden
    VisibleIsIndexed
    DeletedIsGone
    ProcessingIsOwned
PROPERTY
    CleaningIsKept

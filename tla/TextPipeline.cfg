CONSTANTS
    RowsPerRoot = 3
    TargetTokens = 5
    MaxTokens = 6
    OverlapTokens = 3
    SpecialTokens = 1
    MaxLines = 4
    MaxRows = 5
    Files <- AllFiles
    Recognized <- SomeRecognized
    CaptionTokens = 1
SPECIFICATION Spec
CHECK_DEADLOCK FALSE
INVARIANTS
    LoadedWhole
    WordsSurvive
    LeavesCover

CONSTANTS
    RowsPerRoot = 2
    TargetTokens = 4
    MaxTokens = 7
    OverlapTokens = 0
    SpecialTokens = 0
    MaxLines = 1
    MaxRows = 4
    Files <- TwoBlockSheets
    Recognized <- SomeRecognized
    CaptionTokens = 1
SPECIFICATION Spec
CHECK_DEADLOCK FALSE
INVARIANT
    HeaderOnEveryLeaf

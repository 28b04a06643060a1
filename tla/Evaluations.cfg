SPECIFICATION EvaluationSpec
CONSTANTS
    DocumentOf <- MCDocumentOf
    Scale = 12
    RecallK = 2
    RankK = 3
    CitedRoots = 2
    GoldenSets <- MCGoldenSets
    CaseLimit = 2
    MaxRuns = 2
    MaxRestarts = 1
CHECK_DEADLOCK FALSE
INVARIANTS
    ComparedOnSameCases
    MetricsAgree
PROPERTY
    EveryRunEnds

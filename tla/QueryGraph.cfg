SPECIFICATION Spec
CONSTANTS
    RootOf <- MCRootOf
    DocumentOf <- MCDocumentOf
    MaxSubQueries = 2
    MaxRounds = 2
    TopK = 2
    Reserve = 1
    Requests <- MCRequests
    Drafts <- MCDrafts
    Tries = 2
    HitsK = 2
    RootLimit = 1
    WideLimit = 2
INVARIANTS
    ScopeNeverWidens
    AnswerSound
    RecoveredEvidenceKept
    ReportsTrue

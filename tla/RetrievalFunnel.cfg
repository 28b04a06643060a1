SPECIFICATION FunnelSpec
CONSTANTS
    RootOf <- MCRootOf
    DocumentOf <- MCDocumentOf
    TextLength <- MCTextLength
    RrfK = 3
    SearchTopK = 3
    FusedTopK = 3
    LeavesPerRoot = 2
    RerankCandidates = 3
    SelectedLeafK = 2
    MaxParentChars = 3
    Queries = {"q"}
    Permissions <- MCPermissions
    Scopes <- MCScopes
    ScoreLevels = {0, 1, 2}
    MaxChanges = 2
INVARIANTS
    FusionSound
    TraceTellsFunnel
PROPERTIES
    BestSelected
    OnlyAuthorizedContext

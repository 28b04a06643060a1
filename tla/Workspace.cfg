SPECIFICATION WorkspaceSpec
CONSTANTS
    Client = {r1, r2}
    Collection = {x, y}
    Name = {"n", "N"}
    Lower <- MCFolded
    Folded <- MCFolded
    Doc = {1, 2, 3}
    CreatedAt <- MCCreatedAt
    Limit = 1
    MaxDocuments = 2
SYMMETRY Symmetry
CHECK_DEADLOCK FALSE
INVARIANTS
    PagesAreComplete
    TwinsOnlyByRace
PROPERTY
    OnlyTombstonesVanish

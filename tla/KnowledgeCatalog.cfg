SPECIFICATION Spec
CONSTANTS
    Credential = {s1, s2}
    Request = {r1, r2}
    Collections = {"x", "y"}
    Offers <- MCOffers
    MaxGrants = 2
    RootOf <- MCRootOf
    DocumentOf <- MCDocumentOf
    CollectionOf <- MCCollectionOf
    Submitted <- MCSubmitted
    MaxChanges = 1
SYMMETRY Symmetry
CHECK_DEADLOCK FALSE
INVARIANT
    NoEntryAfterRevocation
PROPERTIES
    OnlyPermittedIsServed
    ConfirmedIsServed

CONSTANTS
    None = None  Gone = Gone  Absent = Absent
    A = A  B = B  F = F
    Models = {A, B}
    Families = {F}
    FamilyOf <- MCFamilyOf
    Attrs = {1, 2}
    Offers <- MCOffers
    Specs <- MCSpecs
    WatchCategory = "drive"
    Catalog0 <- MCCatalog0
    Catalogs <- MCCatalogs
    Scopes = {"all"}
    Lanes = {"full"}
    TTL = 1
    MaxTime = 2
    MaxEdges = 1
    MaxSaves = 1
    MaxCatalogEdits = 1
SPECIFICATION Spec
INVARIANTS CurrentIsRight VerdictIsProven KeptNoLonger
CHECK_DEADLOCK FALSE

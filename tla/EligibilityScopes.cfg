CONSTANTS
    None = None  Gone = Gone  Absent = Absent
    A = A  B = B  F = F
    Models = {A, B}
    Families = {F}
    FamilyOf <- MCFamilyOf
    Attrs = {1, 2}
    Offers <- Few
    Specs <- OneSpec
    WatchCategory = "drive"
    Catalog0 <- MCCatalog0
    Catalogs <- OneCatalog
    Scopes = {"s1","s2"}
    Lanes = {"full"}
    TTL = 3
    MaxTime = 4
    MaxEdges = 1
    MaxSaves = 1
    MaxCatalogEdits = 0
SPECIFICATION Spec
INVARIANTS CurrentIsRight
CHECK_DEADLOCK FALSE

CONSTANTS
    None = None
    A = A  B = B  G = G  F = F  D = D  H = H
    Ids <- MCIds
    Kind <- MCKind
    Models = {A, B, G}
    Families = {F, D, H}
    Brands = {"maker", "other"}
    Attrs = {1, 2}
    Conds = {"new", "used"}
    FamilyOf <- MCFamilyOf
    AttrOf <- MCAttrOf
    BrandOf <- MCBrandOf
    CategoryOf <- MCCategoryOf
    Aliases <- MCAliases
    Decoded <- MCDecoded
    Rules <- MCRules
    Texts <- MCTexts
    Seeded = {A, G}
    Deployments <- Uninterrupted
    MaxEdits = 1
    Versions = 2
SPECIFICATION ResolutionSpec
INVARIANT OriginDecidedTarget
PROPERTIES QuietResolveAgrees Converges NoFlapping

SPECIFICATION Spec
CONSTANTS
    Nowhere = Nowhere
    Categories = {c1}
    Items = {i1}
    Guides = {g1}
    WorkspaceAudience = "public"
    Documents <- MCDocuments
    MaxDepth = 1
    MaxCategoryVersion = 2
    MaxItemVersion = 3
    MaxDraftVersion = 2
    MaxRevision = 4
SYMMETRY Symmetry
CHECK_DEADLOCK FALSE
INVARIANT PublicReleasesFrozePublicVersions

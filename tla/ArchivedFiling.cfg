SPECIFICATION Spec
CONSTANTS
    Nowhere = Nowhere
    Categories = {c1, c2}
    Items = {}
    Guides = {g1}
    WorkspaceAudience = "public"
    Documents <- MCDocuments
    MaxDepth = 2
    MaxCategoryVersion = 3
    MaxItemVersion = 1
    MaxDraftVersion = 2
    MaxRevision = 5
SYMMETRY Symmetry
CHECK_DEADLOCK FALSE
INVARIANT ArchivedCategoriesHoldNoLiveGuide

SPECIFICATION ScreensSpec
CONSTANTS
    Nowhere = Nowhere
    Categories = {c1, c2}
    Items = {}
    Guides = {g1}
    WorkspaceAudience = "public"
    Documents <- MCDocuments
    MaxDepth = 1
    MaxCategoryVersion = 2
    MaxItemVersion = 1
    MaxDraftVersion = 3
    MaxRevision = 4
SYMMETRY Symmetry
CHECK_DEADLOCK FALSE
PROPERTIES
    RequestsActOnWhatWasShown
    ImplementsDrafts

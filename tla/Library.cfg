SPECIFICATION Spec
CONSTANTS
    Nowhere = Nowhere
    Categories = {c1, c2, c3}
    Items = {i1}
    Guides = {g1}
    WorkspaceAudience = "public"
    Documents <- MCDocuments
    MaxDepth = 2
    MaxCategoryVersion = 3
    MaxItemVersion = 3
    MaxDraftVersion = 2
    MaxRevision = 4
SYMMETRY Symmetry
CHECK_DEADLOCK FALSE
CONSTRAINT SmallEnough
INVARIANTS
    ReadersKeepWhatTheyHave
    ReleasesFollowDrafts
    OutboxTellsPublication
    ReferencesMatchDocuments
    TreeIsSound
PROPERTY
    ImplementsShelf

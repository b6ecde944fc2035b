SPECIFICATION PageSpec
CONSTANTS
    t1 = t1
    t2 = t2
    NoContent = NoContent
    Contents <- MCContents
    MaxVersion = 3
    MaxRevision = 2
    Most = 2
    GivenUp = TRUE
    s1 = s1
    s2 = s2
    s3 = s3
    i1 = i1
    p1 = p1
    StepIds <- MCSteps
    Texts = {"text", "new"}
    BlankText = "new"
    Items = {i1}
    Photos = {p1}
    MaxSteps = 3
    MaxPhotos = 1
    SavedDocuments <- MCSaved
    f1 = f1
    f2 = f2
    f3 = f3
    f4 = f4
    m1 = m1
    m2 = m2
    Alone = Alone
    FamilyGuides <- MCGuides
    Managers <- MCManagers
    MaxLevels = 3
SYMMETRY Symmetry
CONSTRAINT Bounds
CHECK_DEADLOCK FALSE
INVARIANTS
    WritingStays
    SavesReplaceWhatWasDelivered
    ReleasesAreAsConfirmed
    WhatIsTypedIsSaved
    OnlyTheOrderIsLeftToFix
    FamiliesAreTrees

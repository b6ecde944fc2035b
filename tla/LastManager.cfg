SPECIFICATION ManagingSpec
CONSTANTS
    People = {a, b}
    Founders = {a, b}
    Invitations = {i1, i2}
    Requests = {r1, r2}
    c1 = c1
    c2 = c2
    Ids <- MCRecords
    Rank <- MCRank
    UsedRecords = {c1}
    Top = Top
    Entries <- MCEntries
    Stored <- MCStored
    Questions <- MCQuestions
    PageSize = 1
    MaxChanges = 2
CONSTRAINT NoManaging
SYMMETRY Symmetry
INVARIANT
    SomeoneManages

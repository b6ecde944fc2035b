SPECIFICATION FairManaging
CONSTANTS
    People = {a, n}
    Founders = {a}
    Invitations = {i1}
    Requests = {r1, r2}
    c1 = c1
    c2 = c2
    Ids <- MCRecords
    Rank <- MCRank
    UsedRecords = {c1}
    Top = Top
    Entries <- MCEntries
    Stored <- MCStored
    Questions <- MCQuestions
    PageSize = 1
    MaxChanges = 2
CONSTRAINT OneManager
INVARIANTS
    ListIsCurrent
    AddedRowsAreShown
    SomeoneManages
    AuthorityLasts
PROPERTIES
    EditsReplaceWhatTheyShowed
    MembersAreInvited
    RequestsEnd

SPECIFICATION FairSpec
CONSTANTS
    w1 = w1
    w2 = w2
    r1 = r1
    r2 = r2
    Workspaces <- TwoWorkspaces
    RestoreIds <- TwoIds
INVARIANTS DatabaseLeadsByOne NobodyReadsUnfinished OpenOnlyWithPictures AccessIsAccountedFor
CHECK_DEADLOCK FALSE
PROPERTIES ImplementsSafeRestore RetriesSettle

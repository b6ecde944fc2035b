SPECIFICATION AccountsSpec
CONSTANTS
    a1 = a1
    a2 = a2
    t1 = t1
    t2 = t2
    s1 = s1
    p1 = p1
    p2 = p2
    r1 = r1
    r2 = r2
    Published = p1
    Nobody = Nobody
    Passwords <- TwoPasswords
    Requests <- TwoRequests
    Accounts <- TwoAccounts
    Tokens <- TwoTokens
    Sessions <- OneSession
    k1 = k1
    b1 = b1
    b2 = b2
    c1 = c1
    c2 = c2
    Installation = Installation
    Addresses <- OneAddress
    Busy <- TwoBusy
    Callers <- TwoCallers
    FailureLimit = 2
    GlobalFailureLimit = 3
    PersonalLimit = 1
    GlobalLimit = 6
    Window = 2
    MaxTick = 4
    MaxLost = 1
CONSTRAINT OneCounter
SYMMETRY Symmetry
INVARIANTS SetupEndsOnce LinksAreCurrent KeepsAnAdministrator LimitsHold
PROPERTIES NobodyTakesOver

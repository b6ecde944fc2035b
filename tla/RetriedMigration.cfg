SPECIFICATION SpecDeployment
CONSTANTS
    c1 = c1
    c2 = c2
    old = old
    new = new
    edited = edited
    Builds <- SomeBuilds
    Ships <- SomeShips
    Attempts = {c1, c2}
    Nobody = nobody
    SecretNames = {session_secret}
    Pictures = {photo}
    Backups = {nightly}
    Operator = old
CONSTRAINTS
    NotAllAtOnce
    AccountWhereServed
    OneAtATime
CHECK_DEADLOCK FALSE
INVARIANTS
    NoDataWasChanged

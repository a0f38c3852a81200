CONSTANTS
    unanswered = unanswered
    answered = answered
    other = other
    a1 = a1
    a2 = a2
    None = None
    Cdrs = {unanswered, answered, other}
    CallOf <- MCCallOf
    Rated = {answered, other}
    MaxCrashes = 2
SPECIFICATION FairSpec
INVARIANTS
    TypeOK
    SyncedCallReachedBoss
PROPERTIES
    LedgerImplemented
    EveryCdrIsStored
CHECK_DEADLOCK FALSE

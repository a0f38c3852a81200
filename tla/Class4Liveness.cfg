CONSTANTS
    None = None
    SessionIds = {s1}
    ALegs = {a1}
    Trunks = {t1}
    TrunkLimit = 2
    Sweepers = {w1}
    CallTimeout = 1
    MaxTime = 3
SPECIFICATION FairBlockingSpec
PROPERTY SessionsEnd
CHECK_DEADLOCK FALSE

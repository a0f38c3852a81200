CONSTANTS
    s1 = s1
    s2 = s2
    s3 = s3
    a1 = a1
    None = None
    SessionIds = {s1, s2, s3}
    ALegs = {a1}
    Trunks = {t1}
    TrunkLimit = 2
    Sweepers = {w1}
    CallTimeout = 0
    MaxTime = 2
SPECIFICATION Spec
INVARIANTS
    TypeOK
    BilledOnce
    CloneIsCurrent
    SessionsAreReachable
    StatsAgree
PROPERTIES
    LifecycleImplemented
    AnswerIsKept
SYMMETRY MCSymmetry
CHECK_DEADLOCK FALSE

CONSTANTS
    c1 = c1
    c2 = c2
    c3 = c3
    t1 = t1
    t2 = t2
    t3 = t3
    t4 = t4
    t5 = t5
    None = None
    Trunks = {t1, t2, t3, t4, t5}
    Usable <- MCUsable
    Calls = {c1, c2, c3}
    Limit <- MCLimit
    Offers <- MCOffers
    MaxAttempts = 4
    Codes <- MCCodes
SPECIFICATION Spec
INVARIANTS
    TypeOK
    RecordMatches
    LimitRespected
PROPERTIES
    FailoverImplemented
SYMMETRY MCSymmetry
CHECK_DEADLOCK FALSE

CONSTANTS
    d1 = d1
    d2 = d2
    d3 = d3
    ported = ported
    unported = unported
    lrn = lrn
    None = None
    Dips = {d1, d2, d3}
    NumberOf <- MCNumberOf
    Lrn <- MCLrn
    N = 2
    Lifetime = 1
    MaxTime = 1
SPECIFICATION FairSpec
INVARIANTS
    TypeOK
    AnswersWereAsked
    FailoverComplete
    RoundRobinBalanced
PROPERTY DipsEnd
CHECK_DEADLOCK FALSE

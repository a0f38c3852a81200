CONSTANTS
    d1 = d1
    d2 = d2
    d3 = d3
    ported = ported
    unported = unported
    lrn = lrn
    None = None
    Dips = {d1, d2}
    NumberOf <- MCNumberOf
    Lrn <- MCLrn
    N = 2
    Lifetime = 1
    MaxTime = 1
SPECIFICATION Spec
INVARIANT AnswerIsForNumber
CHECK_DEADLOCK FALSE

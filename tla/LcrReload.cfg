CONSTANTS
    t1 = t1
    t2 = t2
    n1 = n1
    d1 = d1
    c1 = c1
    l1 = l1
    l2 = l2
    q1 = q1
    q2 = q2
    None = None
    Trunks = {t1, t2}
    Routes = {1}
    Numbers = {n1}
    VendorDecks = {d1}
    ClientDecks = {c1}
    Prices = {1, 2}
    MinMargin = 0
    Loaders = {l1}
    Queries = {q1}
    Initial <- MCBefore
    MaxEvents = 3
SPECIFICATION Spec
INVARIANT ReloadedRoutesApply

CONSTANTS
    t1 = t1
    t2 = t2
    c1 = c1
    c2 = c2
    c3 = c3
    c4 = c4
    None = None
    Threads = {t1, t2}
    Calls = {c1, c2, c3, c4}
    Services = {"control", "trunk"}
    Max = 2
    Rate = 1
    OnTrunk = {c1, c2, c3}
    TrunkMax = 1
    Shards = 2
    ShardOf <- MCShardOf
    Width = 8
    LastSecond = 3
    MaxStrays = 2
SPECIFICATION Spec
INVARIANTS
    TypeOK
    CountersAgree
    QuotaKept
    TrunkKept
    RateKept
PROPERTY QuotaImplemented
SYMMETRY MCSymmetry
CHECK_DEADLOCK FALSE

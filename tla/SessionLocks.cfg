CONSTANTS
    c1 = c1
    c2 = c2
    s1 = s1
    s2 = s2
    main = main
    cleaner = cleaner
    cleaner2 = cleaner2
    monitor = monitor
    none = none
    None = none
    SessionIds = {s1, s2}
    CallIds = {c1, c2}
    Records <- MCRecords
    Handlers = {main}
    Cleaners = {cleaner}
    Readers = {monitor}
    HandlerOps <- AllHandlerOps
    MaxWrites = 3
SPECIFICATION Spec
INVARIANTS
    TypeOK
    StuckOnlyByLookup
PROPERTY ManagerSafety
SYMMETRY MCSymmetry
CHECK_DEADLOCK FALSE

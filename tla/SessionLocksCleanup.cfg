CONSTANTS
    c1 = c1
    c2 = c2
    s1 = s1
    s2 = s2
    main = main
    cleaner = cleaner
    cleaner2 = cleaner2
    monitor = monitor
    none = none
    None = none
    SessionIds = {s1}
    CallIds = {c1, c2}
    Records <- MCRecords
    Handlers = {main}
    Cleaners = {cleaner}
    Readers = {}
    HandlerOps <- AllHandlerOps
    MaxWrites = 2
SPECIFICATION FairSpec
PROPERTY CleanupPassEnds
CHECK_DEADLOCK FALSE

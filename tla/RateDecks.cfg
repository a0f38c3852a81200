SPECIFICATION Spec
CONSTANTS
    Loaders = {a, b}
    a = a
    b = b
    NoEnd = NoEnd
    Dates = {0, 2, 3}
    Lead = 1
    MaxDecks = 3
    MaxTime = 3
    MaxTouched = 2
SYMMETRY LoaderSymmetry
INVARIANTS
    TypeOK
    ChainIntact
    GapIsASecond
    LoadedBeforeActive
    RequestedAgrees
PROPERTIES
    CardImplemented
CHECK_DEADLOCK FALSE

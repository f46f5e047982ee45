\* The program's own shape: several gateways put, one device gets, main closes.
\* No symmetry: some properties are temporal.
SPECIFICATION FairSpec
CONSTANTS
    Putters = {p1, p2}
    Getters = {g1}
    Closers = {c1}
    Items = {i1, i2}
    NoThread = NoThread
    MaxPuts = 3
INVARIANTS
    NoLostWakeup
    NothingLostOrReordered
    PushesOnOpen
PROPERTIES
    EmptyHandedOnlyIfClosed
    CloseReleasesGetters
    ItemReachesGetter
    ImplementsClosableQueue
CHECK_DEADLOCK TRUE

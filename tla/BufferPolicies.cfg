SPECIFICATION Spec
CONSTANTS
    Me = me
    Peer = peer
    Nodes = {me, peer}
    UIds = {1, 2}
    Policies = {0, 1, 2, 3, 4, 5, 7, 9}
    MaxBundles = 2
    ExpTime = 2
    CleaningInterval = 2
    InfiniteTtl = FALSE
    MaxSpryingTime = 1
    DropOldestBin = 1
    Metrics = {1, 2}
    Sentinel = 9
    MaxElapsed = 2
    MayBeDelivered <- OneOfPeer
    MaxTime = 3
    MaxArrivals = 3
INVARIANTS
    TypeOK
    CountMatchesList
    WithinCapacity
    NoDuplicateIds
    StaysUp
    AgeBound
PROPERTIES
    SourcePriority
    OwnDroppedLast
    EvictionErrorBounded
CHECK_DEADLOCK FALSE

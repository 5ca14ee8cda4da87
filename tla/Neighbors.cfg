SPECIFICATION FairSpec
CONSTANTS
    Nodes = {1, 2, 3}
    Limits = {2, 4}
    Interval = 2
INVARIANTS
    TypeOK
    NeighborsCounted
PROPERTIES
    KeptAndMetOnce
    QuietEmpties
CHECK_DEADLOCK FALSE

SPECIFICATION Spec
CONSTANTS
    hi = hi
    mid = mid
    lo = lo
    b1 = b1
    b2 = b2
    Nodes = {hi, mid, lo}
    Bundles = {b1}
    Rule <- Rules
    Src <- Sources
    Dst <- Destinations
    Hears <- All
    Routing = 1
    MaxInFlight = 1
    MayForget = {}
INVARIANTS
    TypeOK
    AtMostOnce
    ReportedDelivered
PROPERTY ImplementsService

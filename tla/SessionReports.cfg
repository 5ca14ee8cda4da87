SPECIFICATION FairSpec
CONSTANTS
    hi = hi
    mid = mid
    lo = lo
    b1 = b1
    b2 = b2
    Nodes = {hi, mid, lo}
    Bundles = {b1}
    Rule <- Rules
    Src <- Sources
    Dst <- Destinations
    Hears <- Chain
    Routing = 2
    MaxInFlight = 1
    MayForget = {b1}
PROPERTIES
    ReportSpreads
    DeliveredPurged

SPECIFICATION Spec
CONSTANTS
    Nodes = {1, 2}
    Messages = {m1, m2}
    Src <- Sources
    MaxArrivals = 3
    MaxExchanges = 2
    MaxEvents = 4
    MaxAge <- AgeBounds
    Policies = {0, 2}
    axe_length = 2
    ttl_bin = 2
    max_number_of_stat_messages = 2
    max_number_of_bundles = 1
    MaxReports = 2
    MaxMarks = 1
INVARIANTS
    TypeOK
    RowsFromOwner
PROPERTY NeverOlder
CHECK_DEADLOCK FALSE

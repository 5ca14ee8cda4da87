SPECIFICATION Spec
CONSTANTS
    Nodes = {1, 2}
    Messages = {m1}
    Src <- Sources
    MaxArrivals = 3
    MaxExchanges = 2
    MaxEvents = 5
    MaxAge <- AgeBounds
    Policies = {0}
    axe_length = 2
    ttl_bin = 2
    max_number_of_stat_messages = 2
    max_number_of_bundles = 1
    MaxReports = 1
    MaxMarks = 2
INVARIANT OwnRowOfHolder
CHECK_DEADLOCK FALSE

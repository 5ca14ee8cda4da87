SPECIFICATION Spec
CONSTANTS
    s = s
    r = r
    d = d
    home = home
    away = away
    Sources = {s}
    Relays = {r}
    Dest = d
    Endpoints = {e}
    Regions = {home, away}
    Home = home
    HelloMtu = 6
    HeadSize = 1
    FragSize = 1
    PayloadSize = 4
    ExpTime = 1
    KeepFactor = 1
    Unit = 4
    Scenarios <- Scripts
INVARIANTS TypeOK Intact DuplicateExplained NeighborsRouted NoCompleteGroupWaits AcceptedApart
CHECK_DEADLOCK FALSE

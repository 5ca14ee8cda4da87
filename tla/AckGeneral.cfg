SPECIFICATION FairSpec
CONSTANTS
    Senders = {s1}
    Bundles = {b1, b2}
    ForMe = {b2}
    MaxRet = 1
    AckModulus = 256
    MayForget = {b1}
    MaxAsks = 2
INVARIANTS
    TypeOK
    WaitingCounted
    ToAckCounted
    AcksMatchAsks
PROPERTY WaitingResolved
CHECK_DEADLOCK FALSE

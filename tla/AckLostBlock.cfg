SPECIFICATION Spec
CONSTANTS
    Senders = {s1, s2}
    Bundles = {b1, b2}
    ForMe = {}
    MaxRet = 1
    AckModulus = 256
    MayForget = {}
    MaxAsks = 1
PROPERTY OneBlockPerAck
CHECK_DEADLOCK FALSE

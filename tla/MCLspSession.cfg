CONSTANTS
    k1 = k1
    k2 = k2
    d1 = d1
    x1 = x1
    x2 = x2
    Calls = {k1, k2}
    Conns = {1, 2}
    Docs = {d1}
    DocOf <- MCDocOf
    Texts = {x1, x2}
    TextOf <- MCTextOf
    Mixes <- MCMixes
    NoText = NoText
    NoConn = NoConn
    Configs = 2
    MaxFaults = 1
SPECIFICATION FairSpec
INVARIANTS
    UnsettledIsTimed
    ServerIsInitialized
    NoStrayServer
    OwnDocument
PROPERTIES
    CallsEnd
CHECK_DEADLOCK FALSE

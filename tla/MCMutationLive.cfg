CONSTANTS
    Requests = {r1, r2}
    k1 = k1
    Keys = {k1}
    NoKey = NoKey
    Conns = {c1, c2}
    NoConn = NoConn
    NoRequest = NoRequest
    Attempts <- LiveAttempts
    InitVersion = 1
    MaxVersion = 2
SPECIFICATION FairSpec
PROPERTIES
    ImplementsIdempotentItem
    NobodyWaitsForever

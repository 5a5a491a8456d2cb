CONSTANTS
    Requests = {r1, r2, r3}
    k1 = k1
    Keys = {k1}
    NoKey = NoKey
    Conns = {c1, c2}
    NoConn = NoConn
    NoRequest = NoRequest
    Attempts <- SafeAttempts
    InitVersion = 1
    MaxVersion = 3
SPECIFICATION Spec
SYMMETRY Symmetry
INVARIANTS
    VersionsAreSound
    AtMostOncePerKey
    RecordMatchesEffect
    OutcomeIsHonest
    AbandonedNeverCommits
    NoLockLeak

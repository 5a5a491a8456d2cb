SPECIFICATION FairSpec
CONSTANTS
    Callers = {c1, c2}
    Probes = {1, 2}
    NoProbe = 0
    CacheTime = 1
    MaxTime = 1
    MaxStarts = 2
INVARIANTS
    ProbeIsContained
    UpIsEvidence
PROPERTIES
    EveryCheckAnswered
CHECK_DEADLOCK FALSE

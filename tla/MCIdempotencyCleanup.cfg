SPECIFICATION FairSpec
CONSTANTS
    Callers = {timer, c1, c2}
    Timer = timer
    Sweeps = {s1, s2}
    NoSweep = NoSweep
    MaxBatches = 2
    BatchSize = 1
    MaxRows = 2
    MaxStarts = 2
INVARIANTS
    StopIsClean
PROPERTIES
    CleanupProgresses
CHECK_DEADLOCK FALSE

CONSTANTS
    Tasks = {t1, t2, t3, t4, t5}
    Limit = 2
    QueueLimit = 2
SPECIFICATION FairSpec
INVARIANTS
    SlotAccounting
    PoolIsBounded
    SlotMeansRecord
PROPERTIES
    NoLeaseAfterClose
    FirstComeFirstServed
    NoStarvation

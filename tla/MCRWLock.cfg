CONSTANTS
    Threads = {t1, t2, t3, t4}
    MaxReader = 3
SPECIFICATION FairSpec
INVARIANTS
    TypeOK
    MutualExclusion
    CountExact
    NoLostWakeup
PROPERTIES
    WriterDrains
    EveryCallReturns
    Implements

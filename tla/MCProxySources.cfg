SPECIFICATION FairSpec
CONSTANTS
    m1 = m1
    m2 = m2
    Thread = {t1, t2}
    Map = {m1, m2}
    ChainOf <- MCChainOf
    RetryAfter = 1
    CacheTtl = 1
    MayClose = TRUE
    MaxOps = 3
    MaxTime = 1
    NoThread = NoThread
INVARIANTS TypeOK NoOrphan UpMeansUsed
PROPERTIES EveryOpReturns
CHECK_DEADLOCK FALSE

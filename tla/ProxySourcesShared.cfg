SPECIFICATION Spec
CONSTANTS
    m1 = m1
    m2 = m2
    Thread = {t1, t2}
    Map = {m1, m2}
    ChainOf <- MCChainOf
    RetryAfter = 1
    CacheTtl = 2
    MayClose = TRUE
    MaxOps = 3
    MaxTime = 1
    NoThread = NoThread
SYMMETRY Symmetry
INVARIANTS NoDeadMapKept
CHECK_DEADLOCK FALSE

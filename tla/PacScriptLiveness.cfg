SPECIFICATION FairSpec
CONSTANTS
    Thread = {t1, t2}
    Url = {u1}
    Cooldown = 1
    MaxCalls = 3
    MaxTime = 1
    MayCrash = TRUE
    MayClose = TRUE
    MayInterrupt = TRUE
    NoThread = NoThread

PROPERTIES EveryCallReturns
CHECK_DEADLOCK FALSE

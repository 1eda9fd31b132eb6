SPECIFICATION Spec
CONSTANTS
    Thread = {t1, t2}
    Url = {u1, u2}
    Cooldown = 2
    MaxCalls = 3
    MaxTime = 2
    MayCrash = FALSE
    MayClose = FALSE
    MayInterrupt = TRUE
    NoThread = NoThread
SYMMETRY Symmetry
INVARIANTS OwnAnswer
CHECK_DEADLOCK FALSE

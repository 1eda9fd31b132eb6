SPECIFICATION Spec
CONSTANTS
    Thread = {t1, t2}
    Url = {u1, u2}
    Cooldown = 2
    MaxCalls = 3
    MaxTime = 2
    MayCrash = FALSE
    MayClose = TRUE
    MayInterrupt = FALSE
    NoThread = NoThread
SYMMETRY Symmetry
INVARIANTS CloseReleases
CHECK_DEADLOCK FALSE

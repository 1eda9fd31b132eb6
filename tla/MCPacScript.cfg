SPECIFICATION Spec
CONSTANTS
    Thread = {t1, t2}
    Url = {u1, u2}
    Cooldown = 2
    MaxCalls = 3
    MaxTime = 2
    MayCrash = TRUE
    MayClose = TRUE
    MayInterrupt = FALSE
    NoThread = NoThread
SYMMETRY Symmetry
INVARIANTS TypeOK OwnAnswer OneHelper OneCaller FailedIsEnded
PROPERTIES CooldownOutsideTheGap ServiceSpec
CHECK_DEADLOCK FALSE

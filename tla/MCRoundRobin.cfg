SPECIFICATION RoundRobinSpec
CONSTANTS
    Thread = {t1, t2}
    Url = {u1, u2, u3}
    pair = pair
    triple = triple
    Answers = {pair, triple}
    NoOpinion = NoOpinion
    Ttl = 1
    MaxSize = 2
    MaxLookups = 4
    MaxTime = 1
    Size <- Sizes
    MaxAnswers = 1
SYMMETRY Symmetry
INVARIANTS NeverStale KeepsMostRecent Balanced
CHECK_DEADLOCK FALSE

SPECIFICATION Spec
CONSTANTS
    a = a
    b = b
    c = c
    n = n
    k1 = k1
    k2 = k2
    k3 = k3
    marks = marks
    learns = learns
    plain = plain
    Proxy = {a, b, c, n}
    Direct = Direct
    Portless = {n}
    Key = {k1, k2, k3}
    KeyOf <- MCKeyOf
    Answers <- MCAnswers
    Sender = {marks, learns}
    Prober = {q1, q2}
    ProbeTtl = 2
    MaxTime = 4
    MaxSends = 1
    FailsOver <- MCFailsOver
    TtlOf <- MCTtlOf
    LibraryOf <- MCLibraryOf
INVARIANTS RequestsSendsOnce AiohttpSendsOnce
PROPERTIES SkippedForTtl MarkedForTtl
CHECK_DEADLOCK FALSE

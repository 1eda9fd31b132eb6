SPECIFICATION Spec
CONSTANTS
    a = a
    b = b
    c = c
    n = n
    k1 = k1
    k2 = k2
    k3 = k3
    marks = marks
    learns = learns
    plain = plain
    Proxy = {a, b, c, n}
    Direct = Direct
    Portless = {n}
    Key = {k1, k2, k3}
    KeyOf <- MCKeyOf
    Answers <- MCAnswers
    Sender = {marks, learns, plain}
    Prober = {q1}
    ProbeTtl = 1
    MaxTime = 2
    MaxSends = 2
    FailsOver <- MCFailsOver
    TtlOf <- MCTtlOf
    LibraryOf <- MCLibraryOf
CONSTRAINT FewAtOnce
INVARIANTS TypeOK ResentOnlyIfMisled AllTried BansExpire OnlyBadArePassed
PROPERTIES LearnsFromOthers
CHECK_DEADLOCK FALSE

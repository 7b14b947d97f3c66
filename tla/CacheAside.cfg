SPECIFICATION Spec
CONSTANTS
    c1 = c1  c2 = c2  c3 = c3
    k1 = k1  k2 = k2
    d1 = d1  d2 = d2
    Requests = {c1, c2, c3}
    Dbs = {d1}
    Keys = {k1}
    DbOf <- MCOneDb
    KeyOf <- MCOneKey
    Backends = {"memory", "redis", "none"}
    Coalescing = {TRUE, FALSE}
    Forms = {"plain", "mute", "odd"}
    MaxVer = 2
    Failed = Failed
    None = None
INVARIANTS TypeOK EntriesFresh AnswersFresh
SYMMETRY MCSymmetry
CHECK_DEADLOCK FALSE

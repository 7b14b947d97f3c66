SPECIFICATION FairSpec
CONSTANTS
    c1 = c1  c2 = c2  c3 = c3
    k1 = k1  k2 = k2
    d1 = d1  d2 = d2
    Requests = {c1, c2, c3}
    Dbs = {d1, d2}
    Keys = {k1}
    DbOf <- MCTwoDbs
    KeyOf <- MCOneKey
    Backends = {"memory", "redis"}
    Coalescing = {TRUE, FALSE}
    Forms = {"plain", "odd"}
    MaxVer = 0
    Failed = Failed
    None = None
PROPERTY RequestsReturn
CHECK_DEADLOCK FALSE

SPECIFICATION Spec
CONSTANTS
    t1 = t1  t2 = t2
    e1 = e1  e2 = e2
    a = a  b = b
    v0 = v0  v1 = v1  v2 = v2
    d1 = d1  d2 = d2
    Threads = {t1, t2}
    Entries = {e1, e2}
    Ids = {a, b}
    Vals = {v0, v1, v2}
    Dims = {d1, d2}
    MaxNum = 2
    Inputs <- MCBoth
    None = None
INVARIANTS TypeOK NumbersSound AckedFound AckedDurable
PROPERTY ImplementsVectorStore
SYMMETRY MCSymmetry
CHECK_DEADLOCK FALSE

SPECIFICATION Spec
CONSTANTS
    t1 = t1  t2 = t2  t3 = t3
    p = p  q = q
    a = a  b = b
    v1 = v1  v2 = v2
    Threads = {t1, t2, t3}
    Procs = {p, q}
    ProcOf <- MCProcOf
    ShapeOf <- MCShapeOf
    Backends = {"pgvector", "lancedb", "qdrant", "memory"}
    Order <- MCOrder
    Vals = {v1, v2}
    Dims = {2, 3}
    Shared = Shared
    None = None
INVARIANTS TypeOK BatchesWhole AckedKept SearchesAsEnsured
CHECK_DEADLOCK FALSE

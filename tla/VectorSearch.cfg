SPECIFICATION Spec
CONSTANTS
    Ids <- MCIds
    Similarities <- MCSimilarities
    Metadata <- MCMetadata
    Filters <- MCFilters
    Scalars = {"s"}
    Within <- MCWithin
    TopKs = {0, 1, 2}
    Backends = {"memory", "pgvector", "lancedb", "edge", "qdrant"}
    Reports = {"assumed", "other"}
    Unit = 4
INVARIANTS TypeOK HeapBest HitsMatch HitsBest ScoresComparable
CHECK_DEADLOCK FALSE

SPECIFICATION FairSpec
CONSTANTS
    Item = {1, 2, 3, 4}
    Parallelism = 3
    SpatialOrders <- MCSpatialOrders
    MostTriangles = 2
    TESSELLATION_BATCH = 3
    CHUNK_FLUSH_BATCH = 2
    Budget = 2
    PropertyBlock = 3
INVARIANTS
    TrailerMeansWhole
    ChunksKeepTheirBudget
PROPERTIES
    LoopSpec
    PackingEnds
CHECK_DEADLOCK FALSE

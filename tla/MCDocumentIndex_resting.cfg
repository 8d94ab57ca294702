SPECIFICATION Spec
CONSTANTS
    Hash = {h1}
    Process = {p1, p2}
    Configs = 1
    Format = {"txt"}
    ChunkCount <- Counts
    UpsertBatch = 1
INVARIANTS
    RestingRowsComplete
CHECK_DEADLOCK FALSE

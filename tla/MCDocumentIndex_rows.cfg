SPECIFICATION Spec
CONSTANTS
    Hash = {h1}
    Process = {p1, p2, p3}
    Configs = 2
    Format <- Kinds
    ChunkCount <- Counts
    UpsertBatch = 2
SYMMETRY Symmetry
VIEW Relevant
INVARIANTS
    RowMeansComplete
    QuietRowsComplete
CHECK_DEADLOCK FALSE

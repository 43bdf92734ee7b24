SPECIFICATION Spec
CONSTANTS
    ChunkSize = 2
    BatchCapacity = 5
    Seqs = {s0, s1, s2, s3}
    MaxPending = 3
    MaxPast = 4
INVARIANTS
    ShortestServedFirst
    RowsContiguous
CHECK_DEADLOCK FALSE

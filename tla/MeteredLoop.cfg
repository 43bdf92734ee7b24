SPECIFICATION MeteredSpec
CONSTANTS
    r1 = r1
    r2 = r2
    r3 = r3
    a = a
    b = b
    e = e
    Requests = {r1, r2, r3}
    Streaming = {r2}
    Prompt <- MCPrompt
    MaxTokens <- MCMaxTokens
    Token = {a, b, e}
    EOS = e
    Sampled = {a, e}
    TotalTokens = 12
    BatchCapacity = 12
    BlockSize = 2
    MaxRequest = 7
    ChunkSize = 3
    MaxQueueDepth = 2
    PrefixCacheEnabled = TRUE
    SeqIds = {s0, s1}
    NoSeq = NoSeq
    END = END
SYMMETRY SlotSymmetry
INVARIANTS
    TypeOK
    Ledger
    SlotPartition
    KVCoherent
    ClaimsAreLive
    ReservationsExact
    RunsWithinReservation
    EveryActiveAdvances
    NoLostWakeup
    NoOrphanReader
    SpansBalanced
    AcceptedAccounted
    ThroughputPaired
    TokensBalance
    DisconnectsAreReal
    GaugesHonest
PROPERTIES
    IdleServerAccepts
CHECK_DEADLOCK FALSE

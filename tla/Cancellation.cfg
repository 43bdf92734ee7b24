SPECIFICATION CancelSpec
CONSTANTS
    r1 = r1
    r2 = r2
    r3 = r3
    a = a
    b = b
    e = e
    Requests = {r1, r2, r3}
    Streaming = {r1}
    Prompt <- MCPrompt
    MaxTokens <- MCMaxTokens
    Token = {a, b, e}
    EOS = e
    Sampled = {a, e}
    TotalTokens = 16
    BatchCapacity = 16
    BlockSize = 2
    MaxRequest = 7
    ChunkSize = 3
    MaxQueueDepth = 2
    PrefixCacheEnabled = TRUE
    SeqIds = {s0, s1}
    NoSeq = NoSeq
    END = END
INVARIANTS
    CancelledDroppedByNextTick
CHECK_DEADLOCK FALSE

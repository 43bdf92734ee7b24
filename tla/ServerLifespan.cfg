SPECIFICATION FairLifespan
CONSTANTS
    r1 = r1
    r2 = r2
    a = a
    b = b
    e = e
    Requests = {r1, r2}
    Streaming = {r1}
    Prompt <- MCPrompt
    MaxTokens <- MCMaxTokens
    Token = {a, b, e}
    EOS = e
    Sampled = {a, e}
    TotalTokens = 12
    BatchCapacity = 12
    BlockSize = 2
    MaxRequest = 5
    ChunkSize = 2
    MaxQueueDepth = 2
    PrefixCacheEnabled = TRUE
    SeqIds = {s0, s1}
    NoSeq = NoSeq
    END = END
INVARIANTS
    BooksSurviveRaise
PROPERTIES
    ShutdownCompletes
    StaleWaiterLeaves
CHECK_DEADLOCK FALSE

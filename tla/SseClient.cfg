SPECIFICATION PageSpec
CONSTANTS
    r1 = r1
    r2 = r2
    Requests = {r1, r2}
    Streaming = {r1}
    END = END
    Text <- MCTexts
    MaxPush <- MCMaxPush
INVARIANTS
    ShowsPrefix
    CloseMeansComplete
    ReclaimedByConsumer
PROPERTIES
    ReaderEnds
CHECK_DEADLOCK FALSE

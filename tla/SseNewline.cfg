SPECIFICATION PageSpec
CONSTANTS
    r1 = r1
    r2 = r2
    Requests = {r1}
    Streaming = {r1}
    END = END
    Text <- MCLines
    MaxPush <- MCMaxPush
INVARIANTS
    CloseMeansComplete
CHECK_DEADLOCK FALSE

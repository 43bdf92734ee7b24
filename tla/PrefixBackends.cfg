SPECIFICATION Spec
CONSTANTS
    Candidates = 3
    Caches = {c1, c2, c3}
    MaxReplaced = 3
INVARIANTS
    OnlySupportedABI
    DestroyedOnce
PROPERTIES
    CreateReturns
CHECK_DEADLOCK FALSE

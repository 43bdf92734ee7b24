SPECIFICATION Spec
CONSTANTS
    Runtimes = {rt1, rt2, rt3}
    Server = {rt1}
INVARIANTS
    FreedExactlyOnce
    DecodeOnLiveObjects
CHECK_DEADLOCK FALSE

SPECIFICATION Spec
CONSTANTS
    BlockSize = 2
    SeqIds = {s0, s1, s2}
    Token = {a, b}
    a = a
    b = b
    NoSeq = NoSeq
    Inputs <- MCInputs
INVARIANTS
    EveryNodeOwned
    NoDanglingNode
    NodeCountExact
PROPERTIES
    ImplementsIndex

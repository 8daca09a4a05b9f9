SPECIFICATION Spec
CONSTANTS
    c1 = c1
    c2 = c2
    c3 = c3
    c4 = c4
    c5 = c5
    p1 = p1
    p2 = p2
    SlotCount = 4
    Keys <- MCKeys
    Params <- MCParams
    Hash <- MCHash
    NoKey = NoKey
    NoEntries = NoEntries
    NoParam = NoParam
SYMMETRY Symmetry
INVARIANTS
    TypeOK
    UniqueKey
    ProbeChain
PROPERTY ImplementsMap

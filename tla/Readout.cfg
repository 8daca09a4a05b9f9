SPECIFICATION Spec
CONSTANTS
    t1 = t1
    c1 = c1
    b1 = b1
    b2 = b2
    Threads = {t1}
    Chans = {c1}
    Rings <- MCRings
    Bufs = {b1, b2}
    NULL = NULL
    Start <- MCStart
    End <- MCEnd
    Large = {b1, b2}
    Pushbufs <- MCPushbufs
    RingSize = 4
    TableSize = 1
    Chunk = 2
    MaxWords = 3
    WordBase = 8
    MaxSubs = 5
    MaxGen = 1
INVARIANTS
    TypeOK
    ReadsMapped
    EmittedOnceInOrder
    RecordsFaithful
    RungIsEmitted
    VmapsAccounted

SPECIFICATION BusySpec
CONSTANTS
    k1 = k1
    k2 = k2
    m1 = m1
    NoKey = NoKey
    NULL = NULL
    Direct = Direct
    Size <- MCSize
    Need <- MCNeed
    Home <- MCHome
    Id <- MCId
    Space <- MCSpace
    Covers <- MCCovers
    Threads = {t1}
    Keys = {k1, k2}
    Maps = {m1}
    CacheSize = 2
    Bar1Size = 1
    Dynamic = {}
    Removable = {}
    MaxGen = 1
    RmMayFail = FALSE
    Quiesced = FALSE
    Disciplined = FALSE
PROPERTY EventuallyResolved

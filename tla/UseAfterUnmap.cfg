SPECIFICATION Spec
CONSTANTS
    k1 = k1
    k2 = k2
    m1 = m1
    NoKey = NoKey
    NULL = NULL
    Direct = Direct
    Size <- MCSize
    Need <- MCNeed
    Home <- MCHome
    Id <- MCId
    Space <- MCSpace
    Covers <- MCCovers
    Threads = {t1, t2}
    Keys = {k1, k2}
    Maps = {m1}
    CacheSize = 2
    Bar1Size = 1
    Dynamic = {k1}
    Removable = {m1}
    MaxGen = 1
    RmMayFail = TRUE
    Quiesced = FALSE
    Disciplined = TRUE
SYMMETRY Symmetry
INVARIANT NoUseAfterUnmap

SPECIFICATION FairSpec
CONSTANTS
    k1 = k1
    k2 = k2
    m1 = m1
    NoKey = NoKey
    NULL = NULL
    Direct = Direct
    Size <- MCSize
    Need <- MCNeed
    Home <- MCHome
    Id <- MCId
    Space <- MCSpaceSys
    Covers <- MCCovers
    Threads = {t1}
    Keys = {k1, k2}
    Maps = {m1, m2}
    CacheSize = 2
    Bar1Size = 2
    Dynamic = {k1}
    Removable = {m1, m2}
    MaxGen = 1
    RmMayFail = TRUE
    Quiesced = TRUE
    Disciplined = FALSE
INVARIANTS
    NoUseAfterUnmap
    NoDanglingEntry
    UserdAtHome
PROPERTIES
    HandlerForwards
    PendingEnds

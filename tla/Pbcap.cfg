SPECIFICATION FairSpec
CONSTANTS
    Mappers = {t1, t2}
    Ringers = {t2, t3}
    Windows = {w1, w2}
    NULL = NULL
    TableSize = 2
INVARIANTS
    TypeOK
    NoFalseCrash
    QuietArmed
    ScanArms
    OneEventPerFault
PROPERTY StoresProgress

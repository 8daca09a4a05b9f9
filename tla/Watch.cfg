SPECIFICATION Spec
CONSTANTS
    v1 = v1
    v2 = v2
    v3 = v3
    t1 = t1
    t2 = t2
    t3 = t3
    Vmas = {v1, v2, v3}
    Threads = {t1, t2, t3}
    ProcOf <- MCProcOf
    Tokens = {a, b}
    NoToken = NoToken
    NULL = NULL
    SlotCount = 2
    MaxBp = 2
    DebugRegs = 1
    FirstThreads = {t1, t3}
INVARIANTS
    TypeOK
    HandlerHasContext
    SlotsAccounted
    NoStaleBreakpoint
    LastTokenForwarded
PROPERTY ReleaseCompletes

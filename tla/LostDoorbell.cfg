SPECIFICATION Spec
CONSTANTS
    v1 = v1
    v2 = v2
    v3 = v3
    t1 = t1
    t2 = t2
    t3 = t3
    Vmas = {v1}
    Threads = {t1, t2}
    ProcOf <- MCProcOf
    Tokens = {a, b}
    NoToken = NoToken
    NULL = NULL
    SlotCount = 1
    MaxBp = 2
    DebugRegs = 1
    FirstThreads = {t1, t2}
INVARIANT EveryTokenForwarded

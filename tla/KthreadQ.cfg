SPECIFICATION FairSpec
CONSTANTS
    tick = tick
    work = work
    Users = {u1, u2}
    Worker = Worker
    Items = {tick, work}
    Dynamic = {work}
    Spawns <- MCSpawns
    NoItem = NoItem
INVARIANTS
    TypeOK
    SemCounts
    NeverEmpty
    FlushDrains
    StopDrains
    QueuedItemsLive
PROPERTIES
    CallsReturn
    ImplementsWorkQueue

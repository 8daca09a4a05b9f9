---------------------------- MODULE DoorbellCache ----------------------------
(***************************************************************************)
(* The per-(chid, runlist) USERD cache of nv-doorbell-watch.c and everyone  *)
(* who touches it:                                                          *)
(*                                                                         *)
(*   - the threads that trap on a doorbell write (nv_dbell_db_handler) or   *)
(*     that construct a channel (nv_dbell_cache_pre_resolve);               *)
(*   - the nv_kthread_q worker that resolves a reserved entry;              *)
(*   - the teardown of a tracked BAR1 mapping, which invalidates the        *)
(*     entries that point into it and then unmaps it.                       *)
(*                                                                         *)
(* The cache takes no lock, so an action is one access to a shared entry:   *)
(* one slot examined by a scan, one compare-and-swap, the group of plain    *)
(* stores between two barriers.  A kernel VA is abstracted to the mapping   *)
(* it lies in; mappings are ioremapped at most once in a behaviour, so a    *)
(* pointer to a dead one is dangling.                                       *)
(***************************************************************************)
EXTENDS Naturals, Sequences, FiniteSets

CONSTANTS
    Threads,     \* CPUs running a #DB handler or a channel construction
    Keys,        \* channels: a GPU, a chid and a runlist
    Id,          \* the (chid, runlist) of a channel, all that a find compares
    Maps,        \* BAR1 mappings (VMAs) that get tracked
    NoKey,       \* the zeroed GPU, chid and runlist of an entry never used
    NULL,        \* no pointer, no mapping, no thread
    Direct,      \* RM's own USERD pool or the kernel direct map: never unmapped
    CacheSize,   \* NV_DBELL_CACHE_SIZE
    Bar1Size,    \* NV_DBELL_BAR1_TABLE_SIZE
    Size,        \* bytes of each mapping
    Need,        \* userd_phys + userd_size of each key's channel
    Space,       \* where RM keeps each channel's USERD: "fb", "pool" or "sys"
    Home,        \* the mapping that really holds each FB channel's USERD
    Covers,      \* <<m, k>>: m's user VA range covers k's GPFIFO ring
    Dynamic,     \* keys whose channel is constructed and destroyed at run time
    Removable,   \* mappings that are torn down
    MaxGen,      \* bound: constructions of one channel
    RmMayFail,   \* the RM call may fail for a reason other than "no channel"
    Quiesced,    \* teardown happens only after the doorbells stopped
    Disciplined  \* applications ring only channels that exist

Entries == 1 .. CacheSize
Kva == Maps \cup {Direct}

ASSUME SizesAssumption == CacheSize \in Nat \ {0} /\ Bar1Size \in Nat \ {0}
ASSUME NullAssumption == NULL \notin Kva /\ Direct \notin Maps /\ NoKey \notin Keys
ASSUME LayoutAssumption ==
    /\ Size \in [Maps -> Nat] /\ Need \in [Keys -> Nat \ {0}]
    /\ Space \in [Keys -> {"fb", "pool", "sys"}]
    /\ Home \in [Keys -> Maps] /\ Covers \subseteq Maps \X Keys
    /\ DOMAIN Id = Keys \cup {NoKey}
    /\ Dynamic \subseteq Keys /\ Removable \subseteq Maps
    /\ MaxGen \in Nat /\ RmMayFail \in BOOLEAN /\ Quiesced \in BOOLEAN
    /\ Disciplined \in BOOLEAN

VARIABLES
    cache,    \* g_dbell_cache; gen, by and homed are ghosts: the channel the USERD
              \* belongs to, the thread that reserved the entry, and whether the
              \* mapping with the USERD was tracked by then
    bar1,     \* g_bar1_tracked: the mapping in each row, or NULL
    vma,      \* progress of each mapping through track_add and track_remove
    queue,    \* nv_kthread_q: the entries of the scheduled work items
    th,       \* program counter and locals of each thread
    worker,   \* program counter and locals of nv_dbell_resolve_fn
    chan,     \* RM's channels: alive, registered in the GPFIFO table, generation
    gpuLock   \* the thread that holds the RM locks, or NULL

vars == <<cache, bar1, vma, queue, th, worker, chan, gpuLock>>

States == {"FREE", "PENDING", "RESOLVED", "FAILED"}

Ptr == Kva \cup {NULL}

Entry == [state : States, key : Keys \cup {NoKey}, userd : Ptr, gpfifo : Ptr,
          gen : 0 .. MaxGen, by : Threads \cup {NULL}, homed : BOOLEAN]

Mapping == [st : {"off", "mapped", "scan", "hit", "unmap", "dead"}, i : Entries]

Thread == [pc : {"idle", "find", "reserve", "fill", "enqueue",
                 "state", "load", "gpput", "ring", "forward"},
           op : {"db", "reg"}, key : Keys \cup {NoKey},
           i : Entries, e : Entries, ptr : Ptr]

Resolver == [pc : {"idle", "rm", "userd", "gpfifo", "publish"},
             e : Entries, ok : BOOLEAN, reg : BOOLEAN, gen : 0 .. MaxGen,
             userd : Ptr, gpfifo : Ptr]

TypeOK ==
    /\ cache \in [Entries -> Entry]
    /\ bar1 \in [1 .. Bar1Size -> Maps \cup {NULL}]
    /\ vma \in [Maps -> Mapping]
    /\ queue \in Seq(Entries)
    /\ th \in [Threads -> Thread]
    /\ worker \in Resolver
    /\ chan \in [Keys -> [alive : BOOLEAN, reg : BOOLEAN, gen : 0 .. MaxGen]]
    /\ gpuLock \in Threads \cup {NULL}

IdleThread == [pc |-> "idle", op |-> "db", key |-> NoKey, i |-> 1, e |-> 1, ptr |-> NULL]
IdleWorker == [pc |-> "idle", e |-> 1, ok |-> FALSE, reg |-> FALSE, gen |-> 0,
               userd |-> NULL, gpfifo |-> NULL]
FreeEntry  == [state |-> "FREE", key |-> NoKey, userd |-> NULL, gpfifo |-> NULL, gen |-> 0,
               by |-> NULL, homed |-> FALSE]

\* A channel that is not Dynamic existed before the module was loaded: RM knows
\* it, the GPFIFO table does not.
Init ==
    /\ cache = [e \in Entries |-> FreeEntry]
    /\ bar1 = [j \in 1 .. Bar1Size |-> NULL]
    /\ vma = [m \in Maps |-> [st |-> "off", i |-> 1]]
    /\ queue = << >>
    /\ th = [t \in Threads |-> IdleThread]
    /\ worker = IdleWorker
    /\ chan = [k \in Keys |-> [alive |-> k \notin Dynamic, reg |-> FALSE, gen |-> 0]]
    /\ gpuLock = NULL

-----------------------------------------------------------------------------
(* The threads: #DB handler (op "db") and register-time pre-resolve ("reg").   *)

TearingDown == \E m \in Maps : vma[m].st \in {"scan", "hit", "unmap"}

\* A doorbell write traps and the handler reads token k from the shadow page.
Ring(t, k) ==
    /\ th[t].pc = "idle"
    /\ Quiesced => ~TearingDown
    /\ Disciplined => chan[k].alive
    /\ th' = [th EXCEPT ![t] = [IdleThread EXCEPT !.pc = "find", !.key = k]]
    /\ UNCHANGED <<cache, bar1, vma, queue, worker, chan, gpuLock>>

\* kchannelConstruct ends, RM locks held, by registering the channel.  A new
\* registration calls nv_dbell_cache_pre_resolve before the locks are dropped;
\* a full GPFIFO table leaves the channel unregistered.
Construct(t, k) ==
    /\ k \in Dynamic /\ ~chan[k].alive /\ chan[k].gen < MaxGen
    /\ th[t].pc = "idle" /\ gpuLock = NULL
    /\ \/ /\ chan' = [chan EXCEPT ![k] = [alive |-> TRUE, reg |-> TRUE, gen |-> @.gen + 1]]
          /\ th' = [th EXCEPT ![t] = [IdleThread EXCEPT !.pc = "find", !.op = "reg", !.key = k]]
          /\ gpuLock' = t
       \/ /\ chan' = [chan EXCEPT ![k] = [alive |-> TRUE, reg |-> FALSE, gen |-> @.gen + 1]]
          /\ UNCHANGED <<th, gpuLock>>
    /\ UNCHANGED <<cache, bar1, vma, queue, worker>>

\* kchannelDestruct unregisters the channel under the GPUs lock.  Nothing tells
\* the cache.
Destruct(k) ==
    /\ k \in Dynamic /\ chan[k].alive /\ gpuLock = NULL
    /\ chan' = [chan EXCEPT ![k].alive = FALSE, ![k].reg = FALSE]
    /\ UNCHANGED <<cache, bar1, vma, queue, th, worker, gpuLock>>

\* The cache part is over: the handler forwards, the construction returns.
Leave(t) ==
    \/ /\ th[t].op = "db"
       /\ th' = [th EXCEPT ![t] = [IdleThread EXCEPT !.pc = "forward"]]
       /\ gpuLock' = gpuLock
    \/ /\ th[t].op = "reg"
       /\ th' = [th EXCEPT ![t] = IdleThread]
       /\ gpuLock' = NULL

Goto(t, pc) == th' = [th EXCEPT ![t].pc = pc] /\ gpuLock' = gpuLock

\* Mutant of Advance: the scan runs one entry too far.
AdvanceOffByOne(t, pc) ==
    /\ th' = IF th[t].i <= CacheSize THEN [th EXCEPT ![t].i = @ + 1]
                                     ELSE [th EXCEPT ![t].i = 1, ![t].pc = pc]
    /\ gpuLock' = gpuLock

\* One iteration of a scan over the entries; after the last one, go to pc.
Advance(t, pc) ==
    /\ th' = IF th[t].i < CacheSize THEN [th EXCEPT ![t].i = @ + 1]
                                    ELSE [th EXCEPT ![t].i = 1, ![t].pc = pc]
    /\ gpuLock' = gpuLock

\* Mutant of Matches: only resolved entries match.
MatchesResolved(e, k) == cache[e].state = "RESOLVED" /\ Id[cache[e].key] = Id[k]

Matches(e, k) == cache[e].state # "FREE" /\ Id[cache[e].key] = Id[k]

\* nv_dbell_cache_find, one entry at a time.  pre_resolve returns on a hit.
FindHit(t) ==
    /\ th[t].pc = "find" /\ Matches(th[t].i, th[t].key)
    /\ IF th[t].op = "reg"
       THEN Leave(t)
       ELSE /\ th' = [th EXCEPT ![t].pc = "state", ![t].e = th[t].i, ![t].i = 1]
            /\ gpuLock' = gpuLock
    /\ UNCHANGED <<cache, bar1, vma, queue, worker, chan>>

FindNext(t) ==
    /\ th[t].pc = "find" /\ ~Matches(th[t].i, th[t].key)
    /\ Advance(t, "reserve")
    /\ UNCHANGED <<cache, bar1, vma, queue, worker, chan>>

\* nv_dbell_cache_reserve: the compare-and-swap FREE -> PENDING of one entry.
ReserveWon(t) ==
    /\ th[t].pc = "reserve" /\ cache[th[t].i].state = "FREE"
    /\ cache' = [cache EXCEPT ![th[t].i].state = "PENDING", ![th[t].i].by = t]
    /\ th' = [th EXCEPT ![t].pc = "fill", ![t].e = th[t].i, ![t].i = 1]
    /\ UNCHANGED <<bar1, vma, queue, worker, chan, gpuLock>>

ReserveNext(t) ==
    /\ th[t].pc = "reserve" /\ cache[th[t].i].state # "FREE"
    /\ IF th[t].i < CacheSize THEN Advance(t, "reserve") ELSE Leave(t)
    /\ UNCHANGED <<cache, bar1, vma, queue, worker, chan>>

\* The plain stores that follow the won compare-and-swap.
Fill(t) ==
    /\ th[t].pc = "fill"
    /\ cache' = [cache EXCEPT ![th[t].e] =
          [FreeEntry EXCEPT !.state = "PENDING", !.key = th[t].key, !.by = t,
                            !.homed = Space[th[t].key] = "fb" /\ vma[Home[th[t].key]].st = "mapped"]]
    /\ Goto(t, "enqueue")
    /\ UNCHANGED <<bar1, vma, queue, worker, chan>>

\* Entry e given back: its key stays, and so do its pointers.
Freed(e) == [e EXCEPT !.state = "FREE", !.by = NULL, !.homed = FALSE]

\* Mutant of EnqueueOk: the work item is freed instead of scheduled.
EnqueueDropped(t) ==
    /\ th[t].pc = "enqueue"
    /\ Leave(t)
    /\ UNCHANGED <<cache, bar1, vma, queue, worker, chan>>

\* Mutant of EnqueueFail: the entry stays PENDING.
EnqueueFailKeeps(t) ==
    /\ th[t].pc = "enqueue"
    /\ Leave(t)
    /\ UNCHANGED <<cache, bar1, vma, queue, worker, chan>>

\* Mutant of EnqueueOk: the entry is rolled back although its work is scheduled.
EnqueueRollsBack(t) ==
    /\ th[t].pc = "enqueue"
    /\ queue' = Append(queue, th[t].e)
    /\ cache' = [cache EXCEPT ![th[t].e] = Freed(@)]
    /\ Leave(t)
    /\ UNCHANGED <<bar1, vma, worker, chan>>

\* nv_dbell_try_enqueue_resolve: schedule the work item ...
EnqueueOk(t) ==
    /\ th[t].pc = "enqueue"
    /\ queue' = Append(queue, th[t].e)
    /\ Leave(t)
    /\ UNCHANGED <<cache, bar1, vma, worker, chan>>

\* ... or, when an atomic allocation fails, roll the entry back.
EnqueueFail(t) ==
    /\ th[t].pc = "enqueue"
    /\ cache' = [cache EXCEPT ![th[t].e] = Freed(@)]
    /\ Leave(t)
    /\ UNCHANGED <<bar1, vma, queue, worker, chan>>

\* Mutant of CheckState: the handler returns early unless the entry is resolved.
CheckStateReturns(t) ==
    /\ th[t].pc = "state"
    /\ IF cache[th[t].e].state = "RESOLVED"
       THEN Goto(t, "load")
       ELSE th' = [th EXCEPT ![t] = IdleThread] /\ gpuLock' = gpuLock
    /\ UNCHANGED <<cache, bar1, vma, queue, worker, chan>>

\* The handler reads the state of the entry it found; only RESOLVED is decoded.
CheckState(t) ==
    /\ th[t].pc = "state"
    /\ IF cache[th[t].e].state = "RESOLVED" THEN Goto(t, "load") ELSE Leave(t)
    /\ UNCHANGED <<cache, bar1, vma, queue, worker, chan>>

\* userd_kva is loaded and compared with NULL ...
LoadUserd(t) ==
    /\ th[t].pc = "load"
    /\ IF cache[th[t].e].userd = NULL
       THEN Leave(t)
       ELSE /\ th' = [th EXCEPT ![t].pc = "gpput", ![t].ptr = cache[th[t].e].userd]
            /\ gpuLock' = gpuLock
    /\ UNCHANGED <<cache, bar1, vma, queue, worker, chan>>

\* ... and GP_PUT is read through it: the same plain load, or a second one
\* (Derefs); then gpfifo_kva is loaded and compared.
ReadGpPut(t) ==
    /\ th[t].pc = "gpput"
    /\ IF cache[th[t].e].gpfifo = NULL
       THEN Leave(t)
       ELSE /\ th' = [th EXCEPT ![t].pc = "ring", ![t].ptr = cache[th[t].e].gpfifo]
            /\ gpuLock' = gpuLock
    /\ UNCHANGED <<cache, bar1, vma, queue, worker, chan>>

\* The GPFIFO entry is read through the ring pointer, loaded once or twice.
ReadRing(t) ==
    /\ th[t].pc = "ring"
    /\ Leave(t)
    /\ UNCHANGED <<cache, bar1, vma, queue, worker, chan>>

\* "ALWAYS forward to real BAR0, even on error paths".
Forward(t) ==
    /\ th[t].pc = "forward"
    /\ th' = [th EXCEPT ![t] = IdleThread]
    /\ UNCHANGED <<cache, bar1, vma, queue, worker, chan, gpuLock>>

nv_dbell_cache_find(t) == FindHit(t) \/ FindNext(t)

nv_dbell_cache_reserve(t) == ReserveWon(t) \/ ReserveNext(t) \/ Fill(t)

nv_dbell_try_enqueue_resolve(t) == EnqueueOk(t) \/ EnqueueFail(t)

ThreadStep(t) ==
    \/ nv_dbell_cache_find(t)
    \/ nv_dbell_cache_reserve(t)
    \/ nv_dbell_try_enqueue_resolve(t)
    \/ CheckState(t) \/ LoadUserd(t) \/ ReadGpPut(t) \/ ReadRing(t)
    \/ Forward(t)

-----------------------------------------------------------------------------
(* The resolver, nv_dbell_resolve_fn, in the single kthread of nv_kthread_q.   *)

Take ==
    /\ worker.pc = "idle" /\ queue # << >>
    /\ worker' = [IdleWorker EXCEPT !.pc = "rm", !.e = Head(queue)]
    /\ queue' = Tail(queue)
    /\ UNCHANGED <<cache, bar1, vma, th, chan, gpuLock>>

\* What RM can say of the USERD of k's live channel: the address in its own pool,
\* or a direct-mapped page unless the memdesc is not populated yet, or nothing
\* but an offset into the BAR1 mapping.
UserdFromRm(k) ==
    CASE Space[k] = "pool" -> {Direct}
      [] Space[k] = "sys"  -> {Direct, NULL}
      [] Space[k] = "fb"   -> {NULL}

\* rm_gpu_ops_dbell_resolve_channel, under the RM locks.
ResolveChannel ==
    LET k == cache[worker.e].key IN
    /\ worker.pc = "rm" /\ gpuLock = NULL
    /\ \/ /\ k \in Keys /\ chan[k].alive
          /\ \E u \in UserdFromRm(k) :
                worker' = [worker EXCEPT !.pc = "userd", !.ok = TRUE, !.reg = chan[k].reg,
                                         !.gen = chan[k].gen, !.userd = u]
       \/ /\ RmMayFail \/ k \notin Keys \/ ~chan[k].alive
          /\ worker' = [worker EXCEPT !.pc = "publish", !.ok = FALSE]
    /\ UNCHANGED <<cache, bar1, vma, queue, th, chan, gpuLock>>

Rows == 1 .. Bar1Size

\* nv_dbell_bar1_offset_kva: the first of the largest tracked mappings that are
\* large enough.
Fits(j, k) == bar1[j] # NULL /\ Size[bar1[j]] >= Need[k]

\* Mutant of OffsetRow: the smallest of the tracked mappings that are large enough.
OffsetRowSmallest(j, k) ==
    /\ Fits(j, k)
    /\ \A l \in Rows : Fits(l, k) =>
          \/ Size[bar1[l]] > Size[bar1[j]]
          \/ Size[bar1[l]] = Size[bar1[j]] /\ j <= l

OffsetRow(j, k) ==
    /\ Fits(j, k)
    /\ \A l \in Rows : Fits(l, k) =>
          \/ Size[bar1[l]] < Size[bar1[j]]
          \/ Size[bar1[l]] = Size[bar1[j]] /\ j <= l

nv_dbell_bar1_offset_kva(k) ==
    IF \E j \in Rows : Fits(j, k) THEN bar1[CHOOSE j \in Rows : OffsetRow(j, k)] ELSE NULL

\* nv_dbell_bar1_gpu_va_to_kva: the first tracked mapping that covers the ring.
RingRow(j, k) ==
    /\ <<bar1[j], k>> \in Covers
    /\ \A l \in Rows : <<bar1[l], k>> \in Covers => j <= l

nv_dbell_bar1_gpu_va_to_kva(k) ==
    IF \E j \in Rows : RingRow(j, k) THEN bar1[CHOOSE j \in Rows : RingRow(j, k)] ELSE NULL

LookupUserd ==
    LET k == cache[worker.e].key IN
    /\ worker.pc = "userd"
    /\ worker' = [worker EXCEPT !.pc = "gpfifo",
          !.userd = IF @ = NULL /\ Space[k] = "fb" THEN nv_dbell_bar1_offset_kva(k) ELSE @]
    /\ UNCHANGED <<cache, bar1, vma, queue, th, chan, gpuLock>>

LookupRing ==
    /\ worker.pc = "gpfifo"
    /\ worker' = [worker EXCEPT !.pc = "publish",
          !.gpfifo = IF worker.reg THEN nv_dbell_bar1_gpu_va_to_kva(cache[worker.e].key) ELSE NULL]
    /\ UNCHANGED <<cache, bar1, vma, queue, th, chan, gpuLock>>

\* Mutant of Publish: an unreachable USERD is cached as a failure.
PublishFailed ==
    /\ worker.pc = "publish"
    /\ cache' = [cache EXCEPT ![worker.e] =
          IF worker.userd # NULL
          THEN [@ EXCEPT !.state = "RESOLVED", !.userd = worker.userd,
                         !.gpfifo = worker.gpfifo, !.gen = worker.gen]
          ELSE [@ EXCEPT !.state = "FAILED"]]
    /\ worker' = IdleWorker
    /\ UNCHANGED <<bar1, vma, queue, th, chan, gpuLock>>

\* RESOLVED with the pointers; or FREE, to retry, when the channel exists but its
\* USERD is out of reach; or FAILED.
Publish ==
    /\ worker.pc = "publish"
    /\ cache' = [cache EXCEPT ![worker.e] =
          IF worker.userd # NULL
          THEN [@ EXCEPT !.state = "RESOLVED", !.userd = worker.userd,
                         !.gpfifo = worker.gpfifo, !.gen = worker.gen]
          ELSE IF worker.ok THEN Freed(@) ELSE [@ EXCEPT !.state = "FAILED"]]
    /\ worker' = IdleWorker
    /\ UNCHANGED <<bar1, vma, queue, th, chan, gpuLock>>

WorkerStep == Take \/ ResolveChannel \/ LookupUserd \/ LookupRing \/ Publish

-----------------------------------------------------------------------------
(* BAR1 mappings: nv_dbell_bar1_track_add and nv_dbell_bar1_track_remove.      *)

FreeRow(j) == bar1[j] = NULL /\ \A l \in Rows : bar1[l] = NULL => j <= l

\* ioremap, then take the first free row; without a row, or when ioremap fails,
\* no kernel mapping remains.
TrackAdd(m) ==
    /\ vma[m].st = "off"
    /\ \/ \E j \in Rows :
             /\ FreeRow(j)
             /\ bar1' = [bar1 EXCEPT ![j] = m]
             /\ vma' = [vma EXCEPT ![m].st = "mapped"]
       \/ /\ vma' = [vma EXCEPT ![m].st = "dead"]
          /\ bar1' = bar1
    /\ UNCHANGED <<cache, queue, th, worker, chan, gpuLock>>

\* The handlers are out and the resolver holds no looked-up address.
DoorbellsStopped ==
    /\ \A t \in Threads : th[t].pc = "idle" \/ th[t].op = "reg"
    /\ worker.pc \in {"idle", "rm", "userd"}

\* Mutant of Untrack: the row is left in the table.
UntrackKeepsRow(m) ==
    /\ m \in Removable /\ vma[m].st = "mapped"
    /\ Quiesced => DoorbellsStopped
    /\ vma' = [vma EXCEPT ![m].st = "scan"]
    /\ UNCHANGED <<cache, bar1, queue, th, worker, chan, gpuLock>>

\* The locked part of track_remove: the row is cleared.
Untrack(m) ==
    /\ m \in Removable /\ vma[m].st = "mapped"
    /\ Quiesced => DoorbellsStopped
    /\ bar1' = [j \in Rows |-> IF bar1[j] = m THEN NULL ELSE bar1[j]]
    /\ vma' = [vma EXCEPT ![m].st = "scan"]
    /\ UNCHANGED <<cache, queue, th, worker, chan, gpuLock>>

\* Mutant of PointsInto: only the USERD pointer is compared.
PointsIntoUserd(e, m) == cache[e].userd = m

PointsInto(e, m) == cache[e].userd = m \/ cache[e].gpfifo = m

NextEntry(m) ==
    vma' = [vma EXCEPT ![m] = IF @.i < CacheSize THEN [st |-> "scan", i |-> @.i + 1]
                                                 ELSE [st |-> "unmap", i |-> 1]]

\* nv_dbell_cache_invalidate_range, lockless: the test of one entry ...
InvalidateTest(m) ==
    /\ vma[m].st = "scan"
    /\ LET e == vma[m].i IN
       IF cache[e].state = "RESOLVED" /\ PointsInto(e, m)
       THEN vma' = [vma EXCEPT ![m].st = "hit"]
       ELSE NextEntry(m)
    /\ UNCHANGED <<cache, bar1, queue, th, worker, chan, gpuLock>>

\* ... and the stores that park it: pointers zeroed, then state FREE.
InvalidateStore(m) ==
    /\ vma[m].st = "hit"
    /\ cache' = [cache EXCEPT ![vma[m].i] = [Freed(@) EXCEPT !.userd = NULL, !.gpfifo = NULL]]
    /\ NextEntry(m)
    /\ UNCHANGED <<bar1, queue, th, worker, chan, gpuLock>>

Iounmap(m) ==
    /\ vma[m].st = "unmap"
    /\ vma' = [vma EXCEPT ![m].st = "dead"]
    /\ UNCHANGED <<cache, bar1, queue, th, worker, chan, gpuLock>>

nv_dbell_bar1_track_remove(m) ==
    Untrack(m) \/ InvalidateTest(m) \/ InvalidateStore(m) \/ Iounmap(m)

-----------------------------------------------------------------------------
Next ==
    \/ \E t \in Threads : ThreadStep(t) \/ \E k \in Keys : Ring(t, k) \/ Construct(t, k)
    \/ \E k \in Keys : Destruct(k)
    \/ WorkerStep
    \/ \E m \in Maps : TrackAdd(m) \/ nv_dbell_bar1_track_remove(m)

Spec == Init /\ [][Next]_vars

\* A trapped CPU runs its handler to the end, and the kthread runs whenever its
\* semaphore is up: both are scheduled by the kernel.
Fairness ==
    /\ \A t \in Threads : WF_vars(ThreadStep(t))
    /\ WF_vars(WorkerStep)

FairSpec == Spec /\ Fairness

\* FairSpec, and an application that keeps submitting to every channel on a
\* machine where the atomic allocations do not fail for ever.
BusySpec ==
    /\ FairSpec
    /\ \A k \in Keys :
          /\ SF_vars(\E t \in Threads : Ring(t, k))
          /\ SF_vars(\E t \in Threads : th[t].key = k /\ EnqueueOk(t))

-----------------------------------------------------------------------------
\* The number of those who must still move entry e out of PENDING.
Owners(e) ==
    Cardinality({t \in Threads : th[t].pc \in {"fill", "enqueue"} /\ th[t].e = e})
    + Cardinality({j \in DOMAIN queue : queue[j] = e})
    + (IF worker.pc # "idle" /\ worker.e = e THEN 1 ELSE 0)

\* An entry is PENDING exactly while one reserver, one work item or the resolver
\* owns it ("caller owns enqueueing the worker"): no work item is lost, which
\* would leave the channel undecoded for ever, none is queued twice, and none
\* can overwrite an entry that meanwhile belongs to another channel.
PendingOwned ==
    \A e \in Entries : Owners(e) = IF cache[e].state = "PENDING" THEN 1 ELSE 0

Live(p) == p = Direct \/ (p \in Maps /\ vma[p].st \in {"mapped", "scan", "hit", "unmap"})

\* The addresses the handler may be about to read: the pointer it tested, or the
\* entry's field loaded again after the test (both are plain accesses).
Derefs(t) ==
    CASE th[t].pc = "gpput" -> {th[t].ptr, cache[th[t].e].userd}
      [] th[t].pc = "ring"  -> {th[t].ptr, cache[th[t].e].gpfifo}
      [] OTHER -> {}

\* Whoever is past find and past fill: the entry's key is settled.
Settled(e) ==
    cache[e].state # "FREE" /\ ~\E t \in Threads : th[t].pc = "fill" /\ th[t].e = e

\* No thread reserves a second entry for a (chid, runlist): its find sees the one it
\* reserved before, PENDING or not, whatever the resolver, the other threads and the
\* teardowns do to the entries while it scans.  Two threads may hold one each, since
\* find and reserve are not one step ("NULL if another CPU beat us to it" is not
\* checked by the code), so a channel takes up to one entry per thread that rings it.
OneEntryPerThread ==
    \A e, f \in Entries :
        /\ Settled(e) /\ Settled(f) /\ cache[e].by = cache[f].by
        /\ Id[cache[e].key] = Id[cache[f].key]
        => e = f

\* The handler never reads GP_PUT or the GPFIFO ring through a mapping that
\* track_remove has already unmapped, nor through a pointer that invalidation zeroed
\* after the handler's test: "we move state away from RESOLVED atomically here before
\* any iounmap".
NoUseAfterUnmap ==
    \A t \in Threads : \A p \in Derefs(t) : Live(p)

\* No entry that a future trap will dereference points into an unmapped region.
NoDanglingEntry ==
    \A e \in Entries : cache[e].state = "RESOLVED" =>
        /\ cache[e].userd # NULL /\ Live(cache[e].userd)
        /\ cache[e].gpfifo # NULL => Live(cache[e].gpfifo)

\* A record emitted for (chid, runlist) carries that channel's GP_PUT: the entry
\* the handler dereferences is still the entry of the key it looked up.
DecodesOwnKey ==
    \A t \in Threads : th[t].pc \in {"gpput", "ring"} => cache[th[t].e].key = th[t].key

\* What the handler will dereference belongs to the channel in the entry's key,
\* whoever reserved, refilled or parked the entry while the resolver worked without
\* a lock: RM's pointer only if RM keeps that USERD, otherwise a mapping the USERD's
\* offset lies inside; and a ring in a mapping that covers that channel's GPFIFO.
EntryDescribesKey ==
    \A e \in Entries : cache[e].state = "RESOLVED" =>
        /\ cache[e].key \in Keys
        /\ IF Space[cache[e].key] = "fb"
           THEN cache[e].userd \in Maps /\ Size[cache[e].userd] >= Need[cache[e].key]
           ELSE cache[e].userd = Direct
        /\ cache[e].gpfifo # NULL => <<cache[e].gpfifo, cache[e].key>> \in Covers

\* offset_kva has no address to look for, only an offset, and a small offset lies
\* inside every mapping: it takes the largest ("We want the 2 MiB one").  When the
\* mapping with the USERD is the only one of its size, was tracked when the entry
\* was reserved and still is, the entry points into it and not into another one.
UserdAtHome ==
    \A e \in Entries :
        /\ cache[e].state = "RESOLVED" /\ Space[cache[e].key] = "fb"
        /\ cache[e].homed /\ vma[Home[cache[e].key]].st = "mapped"
        => cache[e].userd = Home[cache[e].key]

\* The entry of a live channel is about that channel, not about a destroyed one
\* that had the same chid: it is not FAILED ("FAILED is reserved for 'RM said no such
\* channel'"; find returns the entry to the handler and to pre_resolve, and neither
\* re-enqueues), and a USERD it holds is not the destroyed channel's.
CacheFollowsChannel ==
    \A e \in Entries :
        Settled(e) /\ chan[cache[e].key].alive =>
            /\ cache[e].state # "FAILED"
            /\ cache[e].state = "RESOLVED" => cache[e].gen = chan[cache[e].key].gen

\* A trapped doorbell is forwarded whatever the cache, the resolver and the
\* teardown of mappings do meanwhile.
HandlerForwards ==
    \A t \in Threads : (th[t].pc # "idle" /\ th[t].op = "db") ~> th[t].pc = "forward"

\* A reserved entry does not stay PENDING: it is resolved, failed or rolled back.
PendingEnds ==
    \A e \in Entries : cache[e].state = "PENDING" ~> cache[e].state # "PENDING"

\* k's channel exists and its USERD can be reached by the resolver.
Reachable(k) ==
    /\ chan[k].alive
    /\ Space[k] = "pool" \/ (Space[k] = "fb" /\ \E j \in Rows : Fits(j, k))

\* Rolling back to FREE is a retry: a channel that is rung again and again, and
\* whose USERD has become reachable, ends up decoded.
EventuallyResolved ==
    \A k \in Keys :
        <>[]Reachable(k) => <>(\E e \in Entries : cache[e].state = "RESOLVED" /\ cache[e].key = k)
=============================================================================

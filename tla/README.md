# Verification of the doorbell path of libcuda-research

The repository instruments NVIDIA's open kernel modules to watch how a CUDA
process submits work to the GPU. Its own logic, on top of the vendored driver,
is the *doorbell path*: `kernel-open/nvidia/nv-doorbell-watch.c` diverts the VF
doorbell window of a process to a shadow page, traps every store to the
doorbell dword with a hardware breakpoint, decodes the submission from the
channel's USERD and GPFIFO ring, and forwards the value to the real doorbell.
It runs in `#DB` context, without locks, against channel construction, munmap
and a resolver thread. Beside it stands `reverse/tools/pbcap.c`, an
`LD_PRELOAD` shim that watches the same doorbell from user space with page
protection and single-stepping. This directory models both in TLA+, checks
them with TLC and proves every invariant the runs check with TLAPS, for all
sizes, together with the safety part of both refinements.

Paths below are relative to the repository root. `watch.c` stands for
`kernel-open/nvidia/nv-doorbell-watch.c`.

## 1. The system

| Component | State | Operations | What makes it correct |
|---|---|---|---|
| Doorbell watchpoint (`watch.c` 85-121, 562-585, 992-1030, 1170-1460; hooks in `nv-mmap.c`) | `g_dbell_slots`; one `nv_dbell_ctx_t` per window: slot, shadow page, mapping of the real doorbell, breakpoint list | `nv_dbell_intercept_mmap`, `nv_dbell_arm_threads`, `nv_dbell_db_handler`, `nv_dbell_vma_release` | every trapped value reaches the GPU; nothing is freed under a handler; no slot or breakpoint leaks on any failure exit; munmap ends |
| USERD cache and resolver (`watch.c` 601-985, 1030-1090) | `g_dbell_cache`: 80 entries FREE / PENDING / RESOLVED / FAILED keyed by (chid, runlist); queued work items | `find`, `reserve`, `try_enqueue_resolve`, `resolve_fn`, `pre_resolve`, `invalidate_range` | a PENDING entry has one owner and stops being PENDING; an entry never points into an unmapped region; a handler reads the channel it looked up; a reachable channel is eventually decoded |
| BAR1 mapping tracker (`watch.c` 145-385) | `g_bar1_tracked` rows under `g_bar1_lock`, each with its own ioremap | `track_add`, `track_remove`, `offset_kva`, `gpu_va_to_kva` | rows are removed, entries invalidated and only then unmapped |
| GPFIFO parameter table (`src/nvidia/src/kernel/rmapi/nv_gpu_ops.c` 10620-10832) | 4096 slots, open addressing, tombstones | `Register` (from `kchannelConstruct`), `Unregister` (from `kchannelDestruct`), `dbellGpfifoLookup` (from the resolver) | it behaves as a bounded map |
| Sysmem tracker, pushbuffer readout (`watch.c` 404-556, 1055-1170) | `g_sysmem_tracked` rows under `g_sysmem_lock`, each with a vmap; a dedup cursor per cache entry | `track_add`, `track_remove`, `gpu_va_to_kva`, the handler's decode and chunked emission | no read after vunmap; no vmap leaks; each submission emitted once, in order, whole |
| Breakpoint shim (`kernel-open/nvidia-dbell/nvidia_dbell.c`) | none | two thunks to the kernel's `register_user_hw_breakpoint` / `unregister_hw_breakpoint` | - |
| `nv_kthread_q` (`kernel-open/nvidia/nv-kthread-q.c`) | a list under a spinlock, a semaphore, an exit flag, one kthread | init, schedule, main loop, flush, stop | items run once, in order; flush and stop leave nothing behind; every call returns |
| pbcap (`reverse/tools/pbcap.c`) | `g_maps`, page protections, a pending window per thread | hooks of mmap, munmap and cudaMemcpy, scan, SIGSEGV and SIGTRAP handlers, snapshots | the traced program never crashes by it; windows end up armed; each trapped store is traced once |
| Trace macros, Python tools (`reverse/tools/*.py`) | none at run time | offline parsing | - |
| Vendored driver | - | - | only the calls the doorbell path makes |

How they interact. `nvidia_mmap_helper` calls the trackers and
`nv_dbell_intercept_mmap`; the VMA release callbacks call `track_remove` and
`nv_dbell_vma_release`. `kchannelConstruct` registers the channel in the GPFIFO
table with the RM locks held, and a *new* registration calls
`nv_dbell_cache_pre_resolve`, which reserves a cache entry and queues a work
item. The handler does the same when `find` misses. The kthread takes the RM
locks, asks RM where the USERD is, asks the table for the ring, translates both
through the BAR1 rows and publishes the entry. No lock is common to handler,
resolver and teardown. For a resolved entry with a ring the handler goes on to
the sysmem rows and emits the pushbuffer. pbcap shares no state with the driver
side; it sees the same windows as mappings of `/dev/nvidia0`.

What is hard here, and is listed line by line under `hazards` in
`PROJECT.json`: lockless publication of entries in two steps; pointers looked
up under a lock and used after it; munmap racing a running handler; a token
that is read back after the trap; failure exits after partial acquisition;
failed atomic allocations; negative and stale cache entries when chids are
reused; probe chains after long sequences of insertions and removals; a
semaphore and a list that are changed apart; self-rescheduling work against
flush and stop; ring indices and addresses that recur; page protections that
several signal handlers change under each other.

## 2. Modules

| Module | Models | Checked by |
|---|---|---|
| `GpfifoMap` | the abstract bounded map the GPFIFO table promises | refinement target |
| `GpfifoTable` | the hash table: `table` is `g_dbellGpfifoTable`, `ret` the last answer | `MCGpfifoTable` + `GpfifoTable.cfg` |
| `GpfifoTableProofs` | its theorems | tlapm |
| `DoorbellCache` | cache, resolver, BAR1 rows, handler's cache part, pre-resolve, channel lifecycle | `MCDoorbellCache` + six cfgs |
| `DoorbellCacheProofs` | its theorems | tlapm |
| `DoorbellWatch` | mmap interception, traps, munmap | `MCDoorbellWatch` + `Watch.cfg`, `LostDoorbell.cfg` |
| `DoorbellWatchProofs` | its theorems | tlapm |
| `WorkQueue` | the abstract FIFO that `nv_kthread_q` promises its clients | refinement target |
| `KthreadQ` | the work queue: list, semaphore, exit flag, kthread, callers | `MCKthreadQ` + `KthreadQ.cfg` |
| `KthreadQProofs` | its theorems | tlapm |
| `PushbufReadout` | sysmem tracker, dedup cursor, the handler's readout | `MCPushbufReadout` + `Readout.cfg` |
| `PushbufReadoutProofs` | its theorems | tlapm |
| `Pbcap` | pbcap's mapping table and doorbell watchpoint | `MCPbcap` + `Pbcap.cfg` |
| `PbcapProofs` | its theorems | tlapm |
| `NaturalLemmas` | the least-number principle, for proofs by smallest counterexample | tlapm |

Operators named `...Eager`, `...Unchecked`, `...Early` and the like, each
commented "Mutant of X", are wrong variants of X. They are not part of any
specification: they record, for every property, a plausible bug it detects.

### GpfifoTable

The three operations run under the RM API lock, so each is atomic. The probe
loop is not unrolled: slot `s` is visited `Dist(k, s)` iterations after the
home slot, and the loop leaves at the first slot where its body returns
(`FirstStop`). `FirstTombstone` is the local `firstTombstone`. `RegisterIgnored`,
`RegisterUpdate`, `RegisterNew` and `RegisterFull` are the four exits of
`nvGpuOpsDbellGpfifoRegister`; the answer "new" is the one that calls
pre-resolve. `Hash` is an arbitrary function into the slots, so the proofs do
not depend on the hash the code computes, nor on a power-of-two table size.

### DoorbellCache

An action is one access to a shared entry: one slot examined by a scan, one
compare-and-swap, or the group of plain stores between two barriers.

| Actions | Code |
|---|---|
| `Ring`, `FindHit`, `FindNext` | handler entry, `nv_dbell_cache_find` slot by slot |
| `ReserveWon`, `ReserveNext`, `Fill` | the compare-and-swap of `nv_dbell_cache_reserve`, and the stores after it |
| `EnqueueOk`, `EnqueueFail` | `nv_dbell_try_enqueue_resolve`, with the roll-back |
| `CheckState`, `LoadUserd`, `ReadGpPut`, `ReadRing`, `Forward` | the rest of the handler |
| `Take`, `ResolveChannel`, `LookupUserd`, `LookupRing`, `Publish` | kthread and `nv_dbell_resolve_fn` |
| `TrackAdd`, `Untrack`, `InvalidateTest`, `InvalidateStore`, `Iounmap` | BAR1 tracker and `nv_dbell_cache_invalidate_range` |
| `Construct`, `Destruct` | the registration calls of `kernel_channel.c`, with the RM locks |

A kernel VA is abstracted to the mapping it lies in, or `Direct` for memory
that is never unmapped. A mapping is ioremapped at most once in a behaviour, so
a pointer to a dead one is dangling. `gen` is a ghost that names the
incarnation of a channel. A key is a channel, that is a GPU, a chid and a
runlist; `Id` is the part that `find` compares. A never-used entry is zeroed, so
`Id[NoKey]` is that of chid 0 on runlist 0. `Home` is the mapping that really
holds a channel's USERD, against which `UserdAtHome` compares what `offset_kva`
answers; the ghosts `by` and `homed` of an entry are the thread that reserved it
and whether `Home` was tracked by then. Both loads of a pointer are there: the
one that is tested, and the one that is dereferenced, which may be the same value
or a fresh one (`Derefs`). The resolver's queue is the FIFO of `WorkQueue`, which
`KthreadQ` is shown to implement.

Constants that describe the environment:

* `Quiesced` - mappings are torn down only after the doorbells that use them
  have stopped and the resolver holds no looked-up address. The driver does not
  enforce this; runs that need it say so.
* `Disciplined` - applications ring only channels that exist. Used in every run
  that reports a disagreement, so none depends on a misbehaving application.
* `RmMayFail` - the RM call may fail for reasons other than a missing channel.
* `Dynamic` / `Removable` / `MaxGen` - the channels constructed and destroyed
  at run time, the mappings that are torn down, the constructions per channel.

### DoorbellWatch

`ctx[v].st` is how far the mmap or munmap of window `v` is. The stages "claim"
to "arm" follow `nv_dbell_intercept_mmap` in order and every one may go to
"fail"; "direct" is the pass-through (kill switch or no slot). `mmap` and
`munmap` of one process exclude each other by its mmap lock. `Store` puts a
value in the shadow page; a thread with a breakpoint traps. `owed` and
`absorbed` are ghosts: values stored and not forwarded since, and windows an
unarmed thread wrote to. `unregister_hw_breakpoint` is the kernel's: the model
takes from it that it waits for a handler of that thread that is running.

### KthreadQ

A caller inside schedule, flush or stop, and the kthread, each have a program
counter. The look at the exit flag, the locked list operation, `up`, `down` and
the callback are separate steps; a flush puts an item named by its caller into
the list, twice. Two kinds of client items: preallocated ones, whose callback
may schedule an item again until told to cease (`Spawns`, `rearm`), and dynamic
ones, allocated by `nv_dbell_try_enqueue_resolve` and freed by their callback
(`heap`; "broken" after a use or free of a freed item). `owe` is a ghost: what
was pending or running when a flush began, and what those items scheduled.
Callers keep the rules of `nv-kthread-q.h`: nothing is called once stop has
been, rescheduling items are told to cease first, init only when nobody uses
the queue. A failed init is included; calls on such a queue other than stop and
init are not. `ClientItems` is the list without the flush items; it and the
item in the kthread's hands are the refinement mapping to `WorkQueue`.

### PushbufReadout

One channel entry that the cache has resolved, from the read of GP_PUT to the
forward; every access to GP_PUT, to the two ring dwords and to the two halves
of the cursor is a step. Addresses and lengths are counted in dwords, and a
ring entry holds an address in two parts, so a stale or torn one would show.
`Mmap`, `TrackInsert`, `TrackFull`, `Untrack` and `Vunmap` are the steps of
`track_add` and `track_remove` on either side of the lock. `log` is a ghost of
everything emitted for the channel; `n` in a record is the number of submissions
when GP_PUT was read, `gen` how often the channel had been resolved anew.
`Reresolve` is an invalidation of the entry followed by a new resolution, which
starts the cursor again; the log stays, so a second emission is seen, and allowed
once per resolution (`EmittedOnceInOrder`). The ghost `again` says that neither a
submission nor a doorbell has followed the reset.

Assumed of applications: one thread submits to a channel, a ring entry stays
unused, and a pushbuffer is unmapped only when everything submitted from it has
been rung (`Drained`). Handlers may run during the munmap: a poke that follows
finds the ring entry of what is being unmapped, and only the dedup cursor keeps
it from being read. `ReadsMapped` therefore exempts the first doorbell after
`Reresolve`, when the cursor is empty: a poke in which nothing was submitted since
then looks up the old pushbuffer, drops the lock, and munmap takes the vmap away
under it (the hazard at `watch.c:1115`; without the exemption TLC shows it). The
driver enforces none of the assumptions; with two threads on one channel
`EmittedOnceInOrder`, `RungIsEmitted` and `ReadsMapped` fail, and so does
`RecordsFaithful` once the ring wraps under a handler that has read GP_PUT.

### Pbcap

`prot` is the protection of each 64 KiB window, shared by all threads; `rows` is
`g_maps` as far as windows go. Any number of threads map, unmap and scan
(`Mappers`) and any number ring (`Ringers`). A window comes and goes through the
hooks (`MmapHook`, `Record`, `ArmRecorded`; `MunmapHook`, `RealMunmap`) or by
libcuda's own system calls (`MmapDirect`, `MunmapDirect`), of which the last
leaves the row behind. The scan takes the writable windows from one reading of
`/proc/self/maps`; row and protection are two steps. `Store`, `SegvLookup`,
`sig_segv`, `Replay`, `sig_trap`, `RearmLookup`, `Rearm` are the life of a trapped
store: both handlers walk the table row by row without its mutex and read the
address of the row again afterwards, and a store faults again when another thread
has re-armed the window before it was replayed. `pending` is the thread-local
`g_dbell_pending`. Ghosts: `armed` (armed since it was mapped), `stale` (mapped
over a row that was left behind), `dropped` (once found the table full).

Assumed: the watchpoint is on (`PBCAP_DBELL`), no store to a window before its
mmap returns or once its munmap begins, and a window is not unmapped while another
thread stores to it, maps it or has it before it in a scan (`Idle`). The last is
no rule of the code: a thread that has entered a row and not yet armed it would,
after a munmap by another thread and a direct mmap at the same address, arm a
window without a row, whose first store crashes the program. The rows that
mappings of other kinds take are not modelled.

### Abstractions

* `Id` is injective on the channels of every run, as with one GPU; a second GPU
  with the same chid and runlist would share the first one's entry at once.
* The plain stores after a won compare-and-swap are one step, as are the
  fields and the state written by `Publish` (a release barrier separates them)
  and by `InvalidateStore`.
* The hex digits, the sequence number, `bp_count` and all formatting are left
  out.
* A VMA split, and stores to the window before `mmap` has returned, are left out.
* `kzalloc` failing for the context fails the mmap with no state: a stutter.

## 3. Runs

| Run | Bounds | Shows |
|---|---|---|
| `gpfifo_table` | 5 channels, 4 slots, 2 parameters; two pairs share a home slot, one at the end of the table | type, `UniqueKey`, `ProbeChain`, and that the table implements `GpfifoMap` |
| `cache_race` | 2 threads, 2 entries, 2 channels, 1 mapping, everything may fail and race | a PENDING entry has exactly one owner, no thread reserves two entries for a channel, and what is published belongs to the key in the entry |
| `cache_sequential` | 1 thread, 2 mappings of different size, both larger than the USERD's offset (USERD in the large one, ring in the other), `Quiesced` | under that discipline pointers stay valid and lead into the right mapping; handlers forward; PENDING ends |
| `cache_retry` | 1 thread, 2 old channels, `BusySpec` | roll-back to FREE is a retry that ends in RESOLVED |
| `watch` | 3 windows of 2 processes, 3 threads (one born later), 2 slots, 1 debug register per thread, at most 2 breakpoints per context | all invariants of the window's life; munmap ends |
| `kthread_q` | 2 callers, a self-rescheduling item, a dynamic item, any number of init and stop | the semaphore counts the list, flush and stop drain it, no item is freed early or twice, calls return, and the queue implements `WorkQueue` with its fairness |
| `readout` | 1 thread, 1 channel with 4 ring entries, 5 submissions, 2 pushbuffers in 2 adjacent mappings, 1 row, 1 new resolution | each submission emitted once per resolution, in order, whole, through live mappings while munmap runs beside the handler; no vmap leaks |
| `pbcap` | 2 windows, 2 rows, 2 threads that map, unmap and scan, 2 that ring (one does both) | no false crash but after a full table, windows armed, one event per trapped store, progress |
| `lost_doorbell`, `use_after_unmap`, `foreign_decode`, `chid_reuse` | as small as shows it | a statement of a code comment that the code does not keep, see below |

Why the bounds are enough to be interesting. Four slots and five channels reach
wrap-around, a chain of length four across tombstones, a table full of live
entries and one full of tombstones. Two cache entries and two keys reach reuse
of an entry with a stale key and a full cache. Two mappings of sizes 1 and 2 and
a USERD that ends at 1 make `offset_kva` choose. Three windows for two slots reach
the pass-through; a window whose thread has no debug register left reaches
failed arming and unarmed threads; a late thread reaches absorbed stores. Two
callers of the queue reach two flushes, a flush against a self-rescheduling
item, and a callback that frees its item while the scheduling thread is still
to raise the semaphore. Five submissions wrap the ring of four, with
pushbuffers at the address of an earlier one, one of a chunk and a half, and two
mappings for one row; a poke before the first submission reads an entry of zero
words. A pushbuffer of more than `MaxWords` words is not in the run, only in the
proofs. Two windows and two rows reach,
with two mapping threads, a window entered twice, the full table, a row left behind
and a scan that meets it, a row entered and not yet armed, and a walk past the
first row; two ringing threads close a window under each other.
Symmetry is used on threads, on channels with equal home slots and on
parameters, only in runs without liveness properties. No run turns the
deadlock check off.

**Fairness.** `FairSpec`: a trapped CPU runs its handler to the end, and the
kthread runs when its semaphore is up; both are scheduled by the kernel and
neither is preempted for ever. `BusySpec` adds, for `cache_retry` only, an
application that keeps ringing every channel and atomic allocations that do not
fail for ever (strong fairness, since each is enabled only now and then).
`DoorbellWatch!Spec`: handlers run to the end and a thread inside munmap goes
on. `KthreadQ!FairSpec`: callers inside a call and the kthread are scheduled,
and callbacks end. `Pbcap!FairSpec`: a thread on its way through a fault
runs on; nothing is asked of the hooks and scans. `StoresProgress` promises that some faulting store gets
through, not each: two threads that keep re-arming can keep a third faulting.
Nothing is assumed of mmap, of new stores or of the teardown of mappings.

### Where the code and its comments disagree

Each is a run whose property is what the comment says.

1. `lost_doorbell` - `watch.c:15` says every doorbell write ends with "the
   original value" written to the real doorbell. The handler reads the value
   back from the shadow page (1010); two threads that ring at once both forward
   the second value. What does hold, and is proved, is `LastTokenForwarded`.
2. `use_after_unmap` - `watch.c:700` says no further synchronisation is needed
   between invalidation and the handler. The handler checks the state and then
   dereferences; nothing makes iounmap wait for it. The shortest trace has the
   pointer zeroed between the test (1056) and the load that is dereferenced
   (1059); with a single load the same trace, one step longer, reads what iounmap
   has removed. An entry can also be published after the invalidation scan has
   passed.
3. `foreign_decode` - `watch.c:633` says a concurrent reader sees the old or
   the new state, "never a tear". An entry is visible as PENDING before its key
   is stored (669, 674), so a `find` can match what was there: in the shortest
   trace the zeroes of a never-used entry, for chid 0 of runlist 0; after a
   roll-back or an invalidation, which keep the key, the previous owner's.
4. `chid_reuse` - `kernel_channel.c:1203` says unregistering keeps stale data
   from a channel that reuses the chid, and `watch.c:859` reserves FAILED for
   "no such channel". Only the GPFIFO table is emptied: a channel destroyed
   before its pre-resolve ran leaves a FAILED entry that the next channel with
   that chid inherits for ever, and a RESOLVED entry stays with the old USERD
   and ring.

Met while modelling, without a run of their own: `nv_dbell_cache_reserve`
returns "NULL if another CPU beat us to it" (656-661) only when the cache is full,
so two threads that both miss both reserve, and a channel has up to one entry per
thread (`OneEntryPerThread` is what holds); `PendingOwned` fails with two
mappings removed at once when USERD and ring of a channel lie in different
ones; `UserdAtHome` fails when the large mapping is not yet tracked as
pre-resolve reserves the entry (a smaller one that fits is taken and kept), and
when two processes have a large mapping each; the comment at `watch.c:884`
("entry stays in PENDING") contradicts the
roll-back at 929; `watch.c:916` calls a refused schedule "harmless", while the
item and its stack are then freed twice (unreachable as long as the queue is
not stopped under its clients, `QueuedItemsLive`); `watch.c:621` calls the
cursor "single-writer", which holds for one submitting thread per channel only;
after a failed init of an `nv_kthread_q` schedule accepts items that nobody
will run. In pbcap: "we trap exactly once per submit" (1025) fails while
another thread has the window open, whose stores are then not trapped;
`map_record` and the scan arm a window even when the table had no row left, and
its first store then crashes the program (the exception in `NoFalseCrash`); a row
left after libcuda's own munmap, or after the munmap of a window that a scan racing
the mmap hook entered twice, keeps a later window at that address from being armed
by the scan (the exception in `ScanArms`), against the comment at 1185-1188 ("armed
by the time CUDA submits work"); `snapshot_all_sigsafe` tests for
write-only mappings with `perms[1] == '-'` (986), which they never have, and
its `continue` (991) would take the same line again in place of the next; the alternate signal
stack (1293) belongs to the initialising thread only.

## 4. Proofs

All theorems hold for every value of the constants that satisfies the named
assumptions of the module (`RingAssumption`, `LayoutAssumption` and the like),
which say what the constants are: sizes are positive, a function has the right
domain, `NULL` is no mapping, a thread is no item. One is a rule of the
environment: a callback schedules preallocated items only (`ItemsAssumption`).
TLC evaluates them in every run. What a theorem needs beyond that and the guards of
the environment's actions named in section 2 (`Drained`, `Idle`) stands in its
own statement, and is a discipline that the code relies on and does not enforce; the
text below says what breaks without it. Every invariant was checked by TLC as
an invariant before it was proved.

**GpfifoTableProofs** (any number of slots, any finite set of channels, any
hash). The inductive invariant is `TypeOK /\ UniqueKey /\ ProbeChain`. No
conjunct is inductive alone: `UniqueKey` survives an insertion only because a
probe that ended at an empty slot has passed every slot where the channel could
be, which is `ProbeChain`; and `ProbeChain` survives an insertion because the
target is the first tombstone or the first empty slot of the sequence.
`Invariance` proves it, `TypeCorrect`, `UniqueKeyHolds` and `ProbeChainHolds`
state its parts, and `Refinement` shows `Spec => ImplementsMap`: `FoundAt`
holds exactly for the slot that carries the channel, `NotFound` exactly when
there is none, and a full table carries as many channels as slots (a
cardinality argument with the injection from slots to channels).

**DoorbellWatchProofs** (any windows, threads, processes, slots, tokens). The
inductive invariant is `TypeOK /\ StageInv /\ SlotInv /\ BreakpointInv /\
HandlerInv /\ TokenInv`:

* `StageInv` - what a context owns at each stage of mmap;
* `SlotInv` - slots and contexts point at each other;
* `BreakpointInv` - a breakpoint the kernel holds is in its context's list;
* `HandlerInv` - a thread inside a handler still has its breakpoint listed,
  which is what makes munmap wait for it;
* `TokenInv` - while the value in the shadow page is owed, some handler has yet
  to read it or has read exactly that value.

`HandlerSafe`, `SlotsSafe`, `BreakpointsSafe`, `LastTokenSafe` and
`TypeCorrect` follow.

**DoorbellCacheProofs** (any threads, channels, mappings, cache and table
sizes). `TypeCorrect` is unconditional; its hard part is that a `CHOOSE` of the
first of the largest rows picks a row (`FirstOfLargest`, by smallest
counterexample). Then one strengthening per promise:

* `Ownership`, `PendingOwnedHolds`. `PendingOwned` counts owners; the inductive
  form `OwnInv` says that owned entries are PENDING, that PENDING entries have
  an owner, that no two owners share one, and that an entry a teardown is about
  to park is still RESOLVED. The last is preserved only if no second teardown
  is about to park the same entry (`SerialTeardown`): with two, the code breaks
  `PendingOwned` (hazard at `watch.c:723`). `Ownership` takes `[]SerialTeardown`
  as its condition; `TeardownsSerial` derives it, with `ReachInv` (a pointer
  leads where the look-ups can lead), from `OneTeardownEach`: at most one of
  the mappings a channel can be reached through is ever removed, for instance
  because USERD and ring lie in the same one. `PendingOwnedHolds` needs nothing
  else: any number of CPUs may ring and construct.
* `KeysSettled`. Whoever works on an entry finds a channel in it. Unconditional.
* `NoDanglingEntryHolds` under `Quiesced`, for any number of threads.
  `QuiescedInv` says that rows and the resolver's locals lead to live mappings,
  that an entry into a mapping being removed has not been passed by the walk, and
  that a running handler excludes teardowns.
* `NoUseAfterUnmapHolds` under `Quiesced` and `[]SerialTeardown`, for any number
  of threads and for a compiler that loads a pointer once or twice;
  `use_after_unmap` refutes it without `Quiesced`. `ReaderInv` says that nobody
  touches a RESOLVED entry under a handler that has tested it.
* `OneEntryPerThreadHolds`, for any number of threads in find and reserve at once.
  `SearchInv` says what a scan has established of the entries its own thread
  reserved: none of those it has passed is for the channel it looks for.
* `EntryDescribesKeyHolds`, for any number of threads. `DescribesInv`: what the
  resolver holds belongs to the key of the entry, which nobody re-keys under it.
* `UserdAtHomeHolds` under `HomeIsLargest`, for any number of threads: the mapping
  with the USERD is larger than every other, however many of the others are large
  enough for the offset. That is what the comment on `offset_kva` says of a CUDA
  process ("We want the 2 MiB one"); `HomeInv` follows the look-up to the entry.

The last three need `[]SerialTeardown` too, because they rest on `Ownership`. The
mappings of one process are closed one at a time, under its mmap lock, so the
condition can fail only where an entry points into mappings of two processes.

**KthreadQProofs** (any callers and items, any relation "the callback of i
schedules j"). No condition. `SemCounts` is inductive only with what each point
of a call implies (`ShapeInv`), the life of the kthread (`LifeInv`: a stop runs
alone, the exit flag is set exactly while a stop is past it) and that a stopping
queue runs dry (`StopInv`). `FlushInv` says where the item of a flush is,
`ItemInv` that list items are distinct and a dynamic item is in one place,
`OweInv` that what a flush has promised is ahead of its own item in the list:
in the first round what was there, in the second what that has scheduled, which
is why two rounds are enough. `Refinement` proves `Spec => WQ!Safety`, the safety
part of `WorkQueue`: `Consume` is `Start` or a stutter, an `Add` of a client's
item is `Submit`, the end of a callback is `Finish`, and an init is a stutter
because `LifeInv` says that the list is empty then. The facts about `ClientItems`
(a filter of the list, by recursion on its length) are proved by smallest
counterexample over the prefixes.

**PushbufReadoutProofs** (any threads, channels, mappings, pushbuffers, rows,
ring and chunk sizes). `TableInv` (rows, vmaps and VMAs agree; the locals of a
handler are in range) is unconditional and gives `TypeCorrect` and
`VmapsAccountedHolds`. `ReadoutInv` ties a handler to its channel: the ring entry
before GP_PUT is that of the last submission, the cursor stands at the last one
rung unless it was reset, what has been copied is a prefix of its words, the log
is ordered by submission and, within one, by resolution. Its part `FreshOK` is why
munmap beside a handler is harmless: a handler that got past the cursor decodes
something not yet rung, whose mapping `Drained` keeps, or runs after a reset. The
invariant needs `SingleWriter` (one thread rings each channel, the comment at
`watch.c:621`) and `DisjointMappings` (the mappings are VMAs of one process), and
gives `ReadsMappedHolds`, `EmittedOnceInOrderHolds`, `RecordsFaithfulHolds` and
`RungIsEmittedHolds`. With two threads on one channel all four fail.

**PbcapProofs** (any mapping, scanning and ringing threads, windows and rows). No
condition beyond `Idle`. `TableInv`: a closed window has a row unless the table was
full or munmap has just forgotten it, and a mapped window with a row is armed, or
about to be by whoever entered the row, unless the row is older than the mapping.
`HookOK` says what a hook or a scan has done so far, `FaultOK` that a window
somebody stores to is armed and not being unmapped, `LookupOK` that the row of the
window lies ahead of the walk over the table, so that the lockless walk meets it,
`TraceOK` what is pending and traced. `NoFalseCrashHolds`, `QuietArmedHolds`,
`ScanArmsHolds`, `OneEventPerFaultHolds` follow.

**Only model-checked.** The liveness properties (`HandlerForwards`,
`PendingEnds`, `EventuallyResolved`, `ReleaseCompletes`, `CallsReturn`,
`StoresProgress`) and the fairness part of `ImplementsWorkQueue`: liveness under
fairness is outside the prover's reach. The four runs that show a disagreement
are counterexamples and stay with TLC.

## 5. Not modelled, and the plan

Modelled, in this order: the GPFIFO table with its abstract map, the cache with
resolver and tracker, the watchpoint, the first proofs, the work queue with its
abstract FIFO, the pushbuffer readout, pbcap's watchpoint; then the proofs of
every invariant. Next:

1. `DoorbellCache`: the theorems that take `[]SerialTeardown` for two processes
   whose teardowns overlap, and an action property for the life of an entry (who
   may leave PENDING).
2. `KthreadQ`: what a queue whose init failed does with later calls.

Not modelled, and why:

* NVIDIA's driver under `src/` and `kernel-open/`: more than two million vendored
  or generated lines in which this repository only inserts trace calls and the
  hooks above. The map therefore covers a very small share of all lines, but
  most of the repository's own stateful C code.
* The trace macros (formatting, a category mask) and the offline Python tools
  (sequential text processing without state).
* pbcap's snapshots, their worker and pipe, the fd table and the hooks that only
  log an event.
* The error exits of `nvidia_mmap_helper` after the BAR1 tracker (hazard at
  `nv-mmap.c:863`), a GPFIFO table used under a shared API lock (hazard at
  `nv_gpu_ops.c:10652`), VMA splits, and the `-ENOSYS` build of the breakpoint
  shim.

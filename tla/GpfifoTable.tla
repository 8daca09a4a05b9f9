----------------------------- MODULE GpfifoTable -----------------------------
(***************************************************************************)
(* The GPFIFO parameter table of nv_gpu_ops.c: an open-addressed hash table *)
(* with linear probing and tombstones, filled when a channel is constructed *)
(* and emptied when it is destroyed, read by the doorbell resolver.         *)
(*                                                                         *)
(* The three operations run under the RM API lock, so each is one action.   *)
(* The probe loop "idx = (start + i) & (SLOTS - 1)" is given by the order   *)
(* in which it visits the slots: s is visited Dist(k, s) steps after the    *)
(* start, and the loop leaves at the first slot where its body returns.     *)
(***************************************************************************)
EXTENDS Naturals, FiniteSets

CONSTANTS
    SlotCount,  \* TRACE_DBELL_GPFIFO_SLOTS
    Keys,       \* (pGpu, runlist, chid) triples with pGpu not NULL
    Params,     \* (gpFifoOffset, gpFifoEntries) with gpFifoEntries > 0
    Hash,       \* _dbellGpfifoHash: any function into the slots
    NoKey,      \* the pGpu = NULL of a slot that holds no channel
    NoEntries,  \* parameters whose gpFifoEntries is 0
    NoParam     \* the answer of a lookup that misses

Slots == 0 .. SlotCount - 1

ASSUME SlotCountAssumption == SlotCount \in Nat \ {0}
ASSUME HashAssumption == Hash \in [Keys -> Slots]
ASSUME KeysAssumption == NoKey \notin Keys /\ IsFiniteSet(Keys)
ASSUME ParamsAssumption == NoEntries \notin Params /\ NoParam \notin Params

VARIABLES
    table,      \* g_dbellGpfifoTable
    ret         \* the last operation, its channel and what it answered

vars == <<table, ret>>

\* The values of dbellGpfifoSlot.state
EMPTY     == 0
LIVE      == 1
TOMBSTONE == 2

Slot == [state : {EMPTY, LIVE, TOMBSTONE},
         key   : Keys \cup {NoKey},
         param : Params \cup {NoEntries}]

EmptySlot == [state |-> EMPTY, key |-> NoKey, param |-> NoEntries]

TypeOK ==
    /\ table \in [Slots -> Slot]
    /\ \A s \in Slots :
          /\ table[s].state = LIVE => table[s].key \in Keys /\ table[s].param \in Params
          /\ table[s].state # LIVE => table[s].key = NoKey

-----------------------------------------------------------------------------
\* How many iterations after the start of k's probe sequence slot s is visited.
Dist(k, s) == IF s >= Hash[k] THEN s - Hash[k] ELSE (s + SlotCount) - Hash[k]

Before(k, t, s) == Dist(k, t) < Dist(k, s)

Holds(s, k) == table[s].state = LIVE /\ table[s].key = k

\* The body of the probe loop returns at s: a live match, or an empty slot.
ProbeStops(k, s) == Holds(s, k) \/ table[s].state = EMPTY

\* The slot at which the loop returns.
FirstStop(k, s) ==
    /\ ProbeStops(k, s)
    /\ \A t \in Slots : Before(k, t, s) => ~ProbeStops(k, t)

\* firstTombstone, among the slots the loop visits before it returns.
FirstTombstone(k, s) ==
    /\ table[s].state = TOMBSTONE
    /\ \A t \in Slots :
          Before(k, t, s) => ~ProbeStops(k, t) /\ table[t].state # TOMBSTONE

NoStop(k) == \A s \in Slots : ~ProbeStops(k, s)

\* The loop returns at a live entry of k ...
FoundAt(k, s) == FirstStop(k, s) /\ Holds(s, k)

\* ... or leaves without one: at an empty slot, or after the whole table.
NotFound(k) ==
    \/ NoStop(k)
    \/ \E e \in Slots : FirstStop(k, e) /\ table[e].state = EMPTY

\* Mutant of InsertSlot: a tombstone is reused as soon as it is met.
InsertSlotEager(k, s) ==
    \/ FirstTombstone(k, s)
    \/ FirstStop(k, s) /\ table[s].state = EMPTY
          /\ \A t \in Slots : Before(k, t, s) => table[t].state # TOMBSTONE

\* Where Register puts a channel it did not find: the first tombstone the loop
\* passed, else the empty slot that ended it.
InsertSlot(k, s) ==
    /\ NotFound(k)
    /\ \/ FirstTombstone(k, s)
       \/ /\ FirstStop(k, s)
          /\ \A t \in Slots : Before(k, t, s) => table[t].state # TOMBSTONE

TableFull(k) == NoStop(k) /\ \A s \in Slots : table[s].state # TOMBSTONE

-----------------------------------------------------------------------------
Answer(op, k, r) == [op |-> op, key |-> k, res |-> r]

Store(s, k, p) ==
    table' = [table EXCEPT ![s] = [state |-> LIVE, key |-> k, param |-> p]]

Init ==
    /\ table = [s \in Slots |-> EmptySlot]
    /\ ret = [op |-> "none"]

\* "if (pGpu == NULL || gpFifoEntries == 0) return;"
RegisterIgnored(k, p) ==
    /\ p = NoEntries
    /\ table' = table
    /\ ret' = Answer("register", k, "ignored")

\* Update in place: not a new registration, no pre-resolve.
RegisterUpdate(k, p) ==
    /\ p # NoEntries
    /\ \E s \in Slots :
          /\ FoundAt(k, s)
          /\ table' = [table EXCEPT ![s].param = p]
    /\ ret' = Answer("register", k, "update")

\* Mutant of RegisterNew: gpFifoEntries = 0 is not refused.
RegisterNewUnchecked(k, p) ==
    /\ \E s \in Slots : InsertSlot(k, s) /\ Store(s, k, p)
    /\ ret' = Answer("register", k, "new")

\* Insert, then call nv_dbell_cache_pre_resolve (the answer "new").
RegisterNew(k, p) ==
    /\ p # NoEntries
    /\ \E s \in Slots : InsertSlot(k, s) /\ Store(s, k, p)
    /\ ret' = Answer("register", k, "new")

RegisterFull(k, p) ==
    /\ p # NoEntries
    /\ TableFull(k)
    /\ table' = table
    /\ ret' = Answer("register", k, "full")

nvGpuOpsDbellGpfifoRegister(k, p) ==
    \/ RegisterIgnored(k, p)
    \/ RegisterUpdate(k, p)
    \/ RegisterNew(k, p)
    \/ RegisterFull(k, p)

\* Mutant of Bury: removal empties the slot.
BuryEmpty(s) == table' = [table EXCEPT ![s] = EmptySlot]

\* A found entry becomes a tombstone: pGpu = NULL, gpFifoEntries = 0, state = 2.
Bury(s) ==
    table' = [table EXCEPT ![s] = [state |-> TOMBSTONE, key |-> NoKey, param |-> NoEntries]]

nvGpuOpsDbellGpfifoUnregister(k) ==
    /\ \/ \E s \in Slots : FoundAt(k, s) /\ Bury(s)
       \/ NotFound(k) /\ table' = table
    /\ ret' = Answer("unregister", k, "done")

\* Mutant of dbellGpfifoLookup: a tombstone ends the probe.
LookupStopsAtTombstone(k) ==
    /\ table' = table
    /\ LET hit(s) == FoundAt(k, s) /\ \A t \in Slots : Before(k, t, s) => table[t].state = LIVE IN
       \/ \E s \in Slots : hit(s) /\ ret' = Answer("lookup", k, table[s].param)
       \/ (\A s \in Slots : ~hit(s)) /\ ret' = Answer("lookup", k, NoParam)

\* The lookup of the resolver.
dbellGpfifoLookup(k) ==
    /\ table' = table
    /\ \/ \E s \in Slots :
             FoundAt(k, s) /\ ret' = Answer("lookup", k, table[s].param)
       \/ NotFound(k) /\ ret' = Answer("lookup", k, NoParam)

Next ==
    \E k \in Keys :
        \/ \E p \in Params \cup {NoEntries} : nvGpuOpsDbellGpfifoRegister(k, p)
        \/ nvGpuOpsDbellGpfifoUnregister(k)
        \/ dbellGpfifoLookup(k)

Spec == Init /\ [][Next]_vars

-----------------------------------------------------------------------------
\* No channel occupies two slots: Register looks past tombstones for a live
\* entry before it reuses one, so unregistering a channel leaves none behind.
UniqueKey ==
    \A s, t \in Slots :
        table[s].state = LIVE /\ table[t].state = LIVE /\ table[s].key = table[t].key
            => s = t

\* No empty slot lies between a channel's hash and its entry, whatever was
\* removed meanwhile: that is why removal leaves tombstones, and why a probe
\* that stops at an empty slot may conclude the channel is absent.
ProbeChain ==
    \A s, t \in Slots :
        table[s].state = LIVE /\ Before(table[s].key, t, s) => table[t].state # EMPTY

\* The parameters a channel would be found with.
MapOf ==
    [k \in Keys |->
        IF \E s \in Slots : Holds(s, k)
        THEN table[CHOOSE s \in Slots : Holds(s, k)].param
        ELSE NoParam]

Abs == INSTANCE GpfifoMap WITH map <- MapOf, ret <- ret, Capacity <- SlotCount

\* The table implements the bounded map: every register, unregister and lookup
\* of nv_gpu_ops.c answers what the map answers, across collisions, tombstone
\* reuse and wrap-around, and drops a registration only at full capacity.
ImplementsMap == Abs!AbsSpec
=============================================================================

------------------------- MODULE DoorbellCacheProofs -------------------------
(***************************************************************************)
(* What TLAPS proves of DoorbellCache, for every number of threads, channels, *)
(* mappings, cache entries and table rows.                                   *)
(*                                                                         *)
(* Type correctness holds without further ado.  PendingOwned rests on OwnInv:  *)
(* who owns a PENDING entry, and that nobody else does.  It is preserved as    *)
(* long as teardowns do not meet at an entry (SerialTeardown), which           *)
(* OneTeardownEach guarantees through ReachInv.  KeyInv says that a filled     *)
(* entry keeps its key, SearchInv what a scan has established of the entries   *)
(* its own thread reserved, DescribesInv and HomeInv what the resolver holds.   *)
(* QuiescedInv and ReaderInv are about a handler that excludes teardowns.       *)
(* No theorem limits the number of threads in the cache code.                   *)
(***************************************************************************)
EXTENDS DoorbellCache, NaturalLemmas, FiniteSetTheorems, SequenceTheorems, TLAPS

\* The reservers, the work items and the resolver each own an entry.
Reserving(t) == th[t].pc \in {"fill", "enqueue"}
Filling(e) == \E t \in Threads : th[t].pc = "fill" /\ th[t].e = e
Busy == worker.pc # "idle"

\* An owned entry is PENDING, and one about to be parked is RESOLVED ...
OwnedPending ==
    /\ \A t \in Threads : Reserving(t) => cache[th[t].e].state = "PENDING"
    /\ \A j \in DOMAIN queue : cache[queue[j]].state = "PENDING"
    /\ Busy => cache[worker.e].state = "PENDING"
    /\ \A m \in Maps : vma[m].st = "hit" => cache[vma[m].i].state = "RESOLVED"

\* ... every PENDING entry has an owner ...
HasOwner(e) ==
    \/ \E t \in Threads : Reserving(t) /\ th[t].e = e
    \/ \E j \in DOMAIN queue : queue[j] = e
    \/ Busy /\ worker.e = e

PendingHasOwner == \A e \in Entries : cache[e].state = "PENDING" => HasOwner(e)

\* ... and no entry has two.
OneOwner ==
    /\ \A t, u \in Threads : Reserving(t) /\ Reserving(u) /\ th[t].e = th[u].e => t = u
    /\ \A j, l \in DOMAIN queue : queue[j] = queue[l] => j = l
    /\ \A t \in Threads : Reserving(t) => \A j \in DOMAIN queue : queue[j] # th[t].e
    /\ Busy => \A t \in Threads : Reserving(t) => th[t].e # worker.e
    /\ Busy => \A j \in DOMAIN queue : queue[j] # worker.e

OwnInv == OwnedPending /\ PendingHasOwner /\ OneOwner

\* No two teardowns are about to park the same entry: the sequence "test the
\* state, zero the pointers, store FREE" of nv_dbell_cache_invalidate_range is not
\* atomic, and nothing in it excludes a second one.  The kernel closes the VMAs of one
\* process one at a time, so it fails only for an entry that points into the mappings
\* of two processes.
SerialTeardown ==
    \A m, n \in Maps :
        vma[m].st = "hit" /\ vma[n].st = "hit" /\ vma[m].i = vma[n].i => m = n

\* A thread at work has a key, and an entry that was filled keeps one.
HasKey(e) == cache[e].key \in Keys

KeyInv ==
    /\ \A t \in Threads : th[t].pc \notin {"idle", "forward"} => th[t].key \in Keys
    /\ \A t \in Threads : th[t].pc = "enqueue" => HasKey(th[t].e)
    /\ \A j \in DOMAIN queue : HasKey(queue[j])
    /\ Busy => HasKey(worker.e)
    /\ \A e \in Entries : cache[e].state # "FREE" => HasKey(e) \/ Filling(e)

\* The pointer p may be followed, now and until the next teardown begins.
Safe(p) == p \in Maps => vma[p].st = "mapped"

\* Under Quiesced: what is tracked, or held by the resolver, is mapped; a
\* resolved entry points into a mapping that is not being torn down, or that the
\* teardown has not reached; and a handler excludes teardowns.
TrackedInv ==
    /\ \A j \in Rows : bar1[j] # NULL => vma[bar1[j]].st = "mapped"
    /\ \A m \in Maps : vma[m].st \in {"off", "mapped"} => vma[m].i = 1

ResolverInv ==
    /\ Safe(worker.userd) /\ Safe(worker.gpfifo)
    /\ worker.pc \in {"idle", "rm", "userd"} => worker.userd \notin Maps /\ worker.gpfifo \notin Maps

Unscanned(m, e) ==
    \/ vma[m].st = "mapped"
    \/ vma[m].st \in {"scan", "hit"} /\ vma[m].i <= e

EntryInv ==
    \A e \in Entries : cache[e].state = "RESOLVED" =>
        /\ cache[e].userd # NULL
        /\ cache[e].userd \in Maps => Unscanned(cache[e].userd, e)
        /\ cache[e].gpfifo \in Maps => Unscanned(cache[e].gpfifo, e)

HandlerInv ==
    /\ (\E t \in Threads : th[t].pc # "idle" /\ th[t].op = "db") => ~TearingDown
    /\ \A t \in Threads :
          /\ th[t].pc \in {"state", "load", "gpput", "ring", "forward"} => th[t].op = "db"
          /\ th[t].pc \in {"load", "gpput", "ring"} =>
                Safe(cache[th[t].e].userd) /\ Safe(cache[th[t].e].gpfifo)
          /\ th[t].pc \in {"gpput", "ring"} => th[t].ptr # NULL /\ Safe(th[t].ptr)

QuiescedInv == TrackedInv /\ ResolverInv /\ EntryInv /\ HandlerInv

\* A handler past the state test reads from an entry that is still RESOLVED, and past
\* the test of gpfifo_kva from one that has a ring.
ReaderInv ==
    \A t \in Threads :
        /\ th[t].pc \in {"load", "gpput", "ring"} => cache[th[t].e].state = "RESOLVED"
        /\ th[t].pc = "ring" => cache[th[t].e].gpfifo # NULL

\* What a thread's scans have established: among the entries find has passed, none
\* was reserved by this thread for the same (chid, runlist); none at all once find
\* has failed.
Held(e, t) == Settled(e) /\ cache[e].by = t /\ Id[cache[e].key] = Id[th[t].key]

SearchInv ==
    \A t \in Threads :
        /\ th[t].pc = "find" => \A e \in Entries : e < th[t].i => ~Held(e, t)
        /\ th[t].pc = "reserve" => \A e \in Entries : ~Held(e, t)
        /\ th[t].pc = "fill" => \A e \in Entries : e # th[t].e => ~Held(e, t)

\* The two addresses a channel's entry may get.
UserdOf(k, p) == IF Space[k] = "fb" THEN p \in Maps /\ Size[p] >= Need[k] ELSE p = Direct
RingOf(k, p) == p # NULL => <<p, k>> \in Covers

DescribesInv ==
    Busy => /\ worker.userd # NULL => UserdOf(cache[worker.e].key, worker.userd)
            /\ RingOf(cache[worker.e].key, worker.gpfifo)

\* "Exactly one big BAR1 mapping": the one with a channel's USERD is large enough for
\* its offset, and larger than any other.
HomeIsLargest ==
    \A k \in Keys : Space[k] = "fb" =>
        /\ Size[Home[k]] >= Need[k]
        /\ \A m \in Maps : m # Home[k] => Size[m] < Size[Home[k]]

\* A mapped mapping has a row; a mapping seen at a reservation was mapped before; and
\* the resolver past offset_kva holds it, if it held then and holds now.
HomeOf(e) == Home[cache[e].key]

HomeInv ==
    /\ \A m \in Maps : vma[m].st = "mapped" => \E j \in Rows : bar1[j] = m
    /\ \A e \in Entries : cache[e].homed => cache[e].key \in Keys /\ vma[HomeOf(e)].st # "off"
    /\ Busy /\ Space[cache[worker.e].key] = "fb" =>
          /\ worker.pc \in {"rm", "userd"} => worker.userd = NULL
          /\ cache[worker.e].homed /\ vma[HomeOf(worker.e)].st = "mapped" =>
                worker.userd \in {NULL, HomeOf(worker.e)}

\* The mapping m can hold the USERD or the ring of channel k as the look-ups see it.
Reaches(k, m) == (Space[k] = "fb" /\ Size[m] >= Need[k]) \/ <<m, k>> \in Covers

\* At most one of the mappings a channel can be reached through is ever torn down:
\* the USERD and the ring of a channel lie in the same one, say, or all but one
\* mapping stay for good.
OneTeardownEach ==
    \A k \in Keys : \A m, n \in Removable : Reaches(k, m) /\ Reaches(k, n) => m = n

\* Pointers lead where the look-ups can lead; an entry about to be parked points
\* into the mapping that is torn down.
ReachInv ==
    /\ \A m \in Maps : Busy /\ m \in {worker.userd, worker.gpfifo} =>
          Reaches(cache[worker.e].key, m)
    /\ \A e \in Entries, m \in Maps : cache[e].state = "RESOLVED" /\ PointsInto(e, m) =>
          Reaches(cache[e].key, m)
    /\ \A m \in Maps : vma[m].st \in {"scan", "hit"} => m \in Removable
    /\ \A m \in Maps : vma[m].st = "hit" => PointsInto(vma[m].i, m)

-----------------------------------------------------------------------------
(* The look-ups in the BAR1 table.                                             *)

\* Among finitely many rows there is a first of the largest ones, by induction
\* on the number n of rows looked at.
LEMMA FirstOfLargest ==
    ASSUME NEW N \in Nat, NEW F \in SUBSET (1 .. N), F # {}, NEW f \in [1 .. N -> Nat]
    PROVE  \E j \in F : \A l \in F : f[l] < f[j] \/ (f[l] = f[j] /\ j <= l)
  <1> DEFINE Best(j, n) == \A l \in F : l <= n => f[l] < f[j] \/ (f[l] = f[j] /\ j <= l)
             Good(n) == (\E j \in F : j <= n) => \E j \in F : j <= n /\ Best(j, n)
             Bad == {n \in 0 .. N : ~Good(n)}
  <1>1. \A n \in 0 .. N : Good(n)
    <2> SUFFICES ASSUME Bad # {} PROVE FALSE
      OBVIOUS
    <2>1. PICK n \in Bad : \A y \in Bad : n <= y
      <3>1. Bad \in SUBSET Nat
        OBVIOUS
      <3> HIDE DEF Bad
      <3> QED
        BY <3>1, LeastNatural
    <2>2. n \in 0 .. N /\ ~Good(n)
      OBVIOUS
    <2>3. n \in 1 .. N
      <3>1. Good(0)
        OBVIOUS
      <3> QED
        BY <2>2, <3>1
    <2>4. Good(n - 1)
      <3>1. n - 1 \in 0 .. N /\ ~(n <= n - 1)
        BY <2>3
      <3>2. n - 1 \notin Bad
        BY <2>1, <3>1
      <3> QED
        BY <3>1, <3>2
    <2> HIDE DEF Bad
    <2>5. \A l \in F : l <= n <=> l = n \/ l <= n - 1
      BY <2>3
    <2>6. \A l \in F : f[l] \in Nat
      OBVIOUS
    <2>7. CASE n \notin F
      BY <2>2, <2>4, <2>5, <2>7
    <2>8. CASE n \in F /\ ~\E j \in F : j <= n - 1
      <3>1. Best(n, n)
        BY <2>5, <2>8
      <3> QED
        BY <2>2, <2>5, <2>8, <3>1
    <2>9. CASE n \in F /\ \E j \in F : j <= n - 1
      <3>1. PICK j \in F : j <= n - 1 /\ Best(j, n - 1)
        BY <2>4, <2>9
      <3>2. j \in 1 .. N /\ f[j] \in Nat /\ f[n] \in Nat
        BY <2>6, <2>9
      <3>3. CASE f[n] <= f[j]
        <4>1. f[n] < f[j] \/ (f[n] = f[j] /\ j <= n)
          BY <2>3, <3>1, <3>2, <3>3
        <4>2. Best(j, n)
          BY <2>5, <3>1, <4>1
        <4> QED
          BY <2>2, <2>5, <3>1, <4>2
      <3>4. CASE ~(f[n] <= f[j])
        <4>1. ASSUME NEW l \in F, l <= n - 1 PROVE f[l] < f[n]
          <5>1. f[l] < f[j] \/ f[l] = f[j]
            BY <3>1, <4>1
          <5>2. f[l] \in Nat
            BY <2>6
          <5> HIDE DEF Best, Good
          <5> QED
            BY <3>2, <3>4, <5>1, <5>2
        <4>2. Best(n, n)
          BY <2>5, <4>1
        <4> QED
          BY <2>2, <2>5, <2>9, <4>2
      <3> QED
        BY <3>3, <3>4
    <2> QED
      BY <2>7, <2>8, <2>9
  <1>2. Good(N)
    <2>1. N \in 0 .. N
      OBVIOUS
    <2> HIDE DEF Good
    <2> QED
      BY <1>1, <2>1
  <1>3. \A l \in F : l <= N
    OBVIOUS
  <1> QED
    BY <1>2, <1>3

\* When some mapping fits, nv_dbell_bar1_offset_kva returns the first of the largest
\* ones that do.
LEMMA OffsetKva ==
    ASSUME TypeOK, NEW k, NEW p, p = nv_dbell_bar1_offset_kva(k)
    PROVE  p = NULL \/ \E j \in Rows : p = bar1[j] /\ Fits(j, k) /\ OffsetRow(j, k) /\ p \in Maps
  <1> DEFINE F == {j \in Rows : Fits(j, k)}
             f == [j \in Rows |-> IF j \in F THEN Size[bar1[j]] ELSE 0]
  <1>1. \A j \in F : bar1[j] \in Maps /\ Size[bar1[j]] \in Nat
    BY LayoutAssumption DEF Fits, TypeOK, Rows
  <1>2. CASE F # {}
    <2>1. Bar1Size \in Nat /\ F \in SUBSET (1 .. Bar1Size) /\ f \in [1 .. Bar1Size -> Nat]
      BY <1>1, SizesAssumption DEF Rows
    <2> HIDE DEF F, f
    <2>2. PICK j \in F : \A l \in F : f[l] < f[j] \/ (f[l] = f[j] /\ j <= l)
      BY <1>2, <2>1, FirstOfLargest
    <2> USE DEF F
    <2>3. \A l \in F : f[l] = Size[bar1[l]]
      BY DEF f
    <2>4. j \in Rows /\ OffsetRow(j, k)
      BY <2>2, <2>3 DEF OffsetRow
    <2> DEFINE c == CHOOSE i \in Rows : OffsetRow(i, k)
    <2>5. c \in Rows /\ OffsetRow(c, k)
      BY <2>4
    <2>6. p = bar1[c]
      BY <1>2 DEF nv_dbell_bar1_offset_kva
    <2> HIDE DEF c
    <2> QED
      BY <2>5, <2>6, <1>1 DEF OffsetRow
  <1>3. CASE F = {}
    BY <1>3 DEF nv_dbell_bar1_offset_kva
  <1> QED
    BY <1>2, <1>3

\* nv_dbell_bar1_gpu_va_to_kva returns a tracked mapping or nothing.
LEMMA RingKva ==
    ASSUME TypeOK, NEW k, NEW p, p = nv_dbell_bar1_gpu_va_to_kva(k)
    PROVE  p = NULL \/ \E j \in Rows : p = bar1[j] /\ p \in Maps /\ <<p, k>> \in Covers
  <1>1. CASE \E j \in Rows : RingRow(j, k)
    <2> DEFINE c == CHOOSE i \in Rows : RingRow(i, k)
    <2>1. c \in Rows /\ RingRow(c, k)
      BY <1>1
    <2>2. p = bar1[c]
      BY <1>1 DEF nv_dbell_bar1_gpu_va_to_kva
    <2> HIDE DEF c
    <2>3. bar1[c] \in Maps /\ <<bar1[c], k>> \in Covers
      BY <2>1, LayoutAssumption DEF RingRow
    <2> QED
      BY <2>1, <2>2, <2>3
  <1>2. CASE ~\E j \in Rows : RingRow(j, k)
    BY <1>2 DEF nv_dbell_bar1_gpu_va_to_kva
  <1> QED
    BY <1>1, <1>2

-----------------------------------------------------------------------------
(* Type correctness.                                                           *)

LEMMA IdleTypes ==
    /\ 1 \in Entries /\ 0 \in 0 .. MaxGen
    /\ IdleThread \in Thread /\ IdleWorker \in Resolver /\ FreeEntry \in Entry
  <1>1. 1 \in Entries /\ 0 \in 0 .. MaxGen
    BY SizesAssumption, LayoutAssumption DEF Entries
  <1> QED
    BY <1>1 DEF IdleThread, IdleWorker, FreeEntry, Thread, Resolver, Entry, Ptr, States

\* What giving an entry back does to its fields.
LEMMA FreedEntry ==
    ASSUME NEW r \in Entry
    PROVE  /\ Freed(r) \in Entry /\ Freed(r).state = "FREE" /\ Freed(r).homed = FALSE
           /\ Freed(r).key = r.key /\ Freed(r).userd = r.userd /\ Freed(r).gpfifo = r.gpfifo
  BY DEF Freed, Entry, States

LEMMA InitType == Init => TypeOK
  <1> SUFFICES ASSUME Init PROVE TypeOK
    OBVIOUS
  <1>1. [st |-> "off", i |-> 1] \in Mapping
    BY IdleTypes DEF Mapping
  <1>2. \A k \in Keys : [alive |-> k \notin Dynamic, reg |-> FALSE, gen |-> 0]
                           \in [alive : BOOLEAN, reg : BOOLEAN, gen : 0 .. MaxGen]
    BY IdleTypes
  <1>3. queue \in Seq(Entries)
    BY DEF Init
  <1> QED
    BY IdleTypes, <1>1, <1>2, <1>3 DEF Init, TypeOK

\* How a handler or a construction moves on: the updates of its own record.
LEMMA GoesOn ==
    ASSUME TypeOK, NEW t \in Threads, NEW pc \in {"find", "reserve", "enqueue", "load"},
           Leave(t) \/ Goto(t, pc) \/ Advance(t, pc)
    PROVE  /\ th' \in [Threads -> Thread] /\ gpuLock' \in Threads \cup {NULL}
           /\ \A u \in Threads : u # t => th'[u] = th[u]
  <1>1. th[t] \in Thread /\ th \in [Threads -> Thread]
    BY DEF TypeOK
  <1>2. CASE Leave(t)
    <2>1. [IdleThread EXCEPT !.pc = "forward"] \in Thread
      BY IdleTypes DEF Thread
    <2> QED
      BY <1>1, <1>2, <2>1, IdleTypes DEF Leave, TypeOK
  <1>3. CASE Goto(t, pc)
    <2>1. [th[t] EXCEPT !.pc = pc] \in Thread
      BY <1>1 DEF Thread
    <2> QED
      BY <1>1, <1>3, <2>1 DEF Goto, TypeOK
  <1>4. CASE Advance(t, pc)
    <2>1. th[t].i \in Entries /\ (th[t].i < CacheSize => th[t].i + 1 \in Entries)
      BY <1>1, SizesAssumption DEF Thread, Entries
    <2>2. CASE th[t].i < CacheSize
      <3> DEFINE r == [th[t] EXCEPT !.i = th[t].i + 1]
      <3>1. r \in Thread
        BY <1>1, <2>1, <2>2 DEF Thread
      <3>2. th' = [th EXCEPT ![t] = r] /\ gpuLock' = gpuLock
        BY <1>1, <1>4, <2>2 DEF Advance
      <3> HIDE DEF r
      <3> QED
        BY <1>1, <3>1, <3>2 DEF TypeOK
    <2>3. CASE ~(th[t].i < CacheSize)
      <3>1. [th[t] EXCEPT !.i = 1, !.pc = pc] \in Thread
        BY <1>1, IdleTypes DEF Thread
      <3> QED
        BY <1>1, <1>4, <2>3, <3>1 DEF Advance, TypeOK
    <2> QED
      BY <2>2, <2>3
  <1> QED
    BY <1>2, <1>3, <1>4

LEMMA ThreadType ==
    ASSUME TypeOK, NEW t \in Threads, ThreadStep(t)
    PROVE  TypeOK'
  <1>0. th[t] \in Thread /\ th \in [Threads -> Thread] /\ th[t].i \in Entries /\ th[t].e \in Entries
    BY DEF TypeOK, Thread
  <1>1. CASE FindHit(t)
    <2>1. th' \in [Threads -> Thread] /\ gpuLock' \in Threads \cup {NULL}
      <3>1. CASE th[t].op = "reg"
        BY <1>1, <3>1, GoesOn DEF FindHit
      <3>2. CASE th[t].op # "reg"
        <4> DEFINE r == [th[t] EXCEPT !.pc = "state", !.e = th[t].i, !.i = 1]
        <4>1. r \in Thread
          BY <1>0, IdleTypes DEF Thread
        <4>2. th' = [th EXCEPT ![t] = r] /\ gpuLock' = gpuLock
          BY <1>0, <1>1, <3>2 DEF FindHit
        <4> HIDE DEF r
        <4> QED
          BY <1>0, <4>1, <4>2 DEF TypeOK
      <3> QED
        BY <3>1, <3>2
    <2> QED
      BY <1>1, <2>1 DEF FindHit, TypeOK
  <1>2. CASE FindNext(t)
    BY <1>2, GoesOn DEF FindNext, TypeOK
  <1>3. CASE ReserveWon(t)
    <2>1. cache' \in [Entries -> Entry]
      <3> DEFINE old == cache[th[t].i]
                 r == [old EXCEPT !.state = "PENDING", !.by = t]
      <3>1. r \in Entry
        <4>1. old \in Entry
          BY <1>0 DEF TypeOK
        <4> HIDE DEF old
        <4> QED
          BY <4>1 DEF Entry, States
      <3>2. cache' = [cache EXCEPT ![th[t].i] = r]
        BY <1>0, <1>3 DEF ReserveWon, TypeOK
      <3> HIDE DEF r
      <3> QED
        BY <1>0, <3>1, <3>2 DEF TypeOK
    <2>2. th' \in [Threads -> Thread]
      BY <1>0, <1>3, IdleTypes DEF ReserveWon, Thread
    <2> QED
      BY <1>3, <2>1, <2>2 DEF ReserveWon, TypeOK
  <1>4. CASE ReserveNext(t)
    <2>1. Leave(t) \/ Advance(t, "reserve")
      BY <1>4 DEF ReserveNext
    <2> QED
      BY <1>4, <2>1, GoesOn DEF ReserveNext, TypeOK
  <1>5. CASE Fill(t)
    <2> DEFINE h == Space[th[t].key] = "fb" /\ vma[Home[th[t].key]].st = "mapped"
               r == [FreeEntry EXCEPT !.state = "PENDING", !.key = th[t].key, !.by = t, !.homed = h]
    <2>1. h \in BOOLEAN
      OBVIOUS
    <2>2. cache' = [cache EXCEPT ![th[t].e] = r]
      BY <1>5 DEF Fill
    <2> HIDE DEF h
    <2>3. r \in Entry
      BY <1>0, <2>1, IdleTypes DEF Entry, Thread, States
    <2> HIDE DEF r
    <2>4. cache' \in [Entries -> Entry]
      BY <2>2, <2>3 DEF TypeOK
    <2> QED
      BY <1>5, <2>4, GoesOn DEF Fill, TypeOK
  <1>6. CASE EnqueueOk(t)
    <2>1. queue' \in Seq(Entries)
      BY <1>0, <1>6 DEF EnqueueOk, TypeOK
    <2> QED
      BY <1>6, <2>1, GoesOn DEF EnqueueOk, TypeOK
  <1>7. CASE EnqueueFail(t)
    <2>1. cache[th[t].e] \in Entry
      BY <1>0 DEF TypeOK
    <2>2. cache' \in [Entries -> Entry]
      BY <1>0, <1>7, <2>1, FreedEntry DEF EnqueueFail, TypeOK
    <2> QED
      BY <1>7, <2>2, GoesOn DEF EnqueueFail, TypeOK
  <1>8. CASE CheckState(t)
    <2>1. Leave(t) \/ Goto(t, "load")
      BY <1>8 DEF CheckState
    <2> QED
      BY <1>8, <2>1, GoesOn DEF CheckState, TypeOK
  <1>9. CASE LoadUserd(t)
    <2>1. th' \in [Threads -> Thread] /\ gpuLock' \in Threads \cup {NULL}
      <3>1. CASE cache[th[t].e].userd = NULL
        BY <1>9, <3>1, GoesOn DEF LoadUserd
      <3>2. CASE cache[th[t].e].userd # NULL
        <4>1. cache[th[t].e].userd \in Ptr
          BY <1>0 DEF TypeOK, Entry
        <4> DEFINE r == [th[t] EXCEPT !.pc = "gpput", !.ptr = cache[th[t].e].userd]
        <4>2. r \in Thread
          BY <1>0, <4>1 DEF Thread
        <4>3. th' = [th EXCEPT ![t] = r] /\ gpuLock' = gpuLock
          BY <1>0, <1>9, <3>2 DEF LoadUserd
        <4> HIDE DEF r
        <4> QED
          BY <1>0, <4>2, <4>3 DEF TypeOK
      <3> QED
        BY <3>1, <3>2
    <2> QED
      BY <1>9, <2>1 DEF LoadUserd, TypeOK
  <1>10. CASE ReadGpPut(t)
    <2>1. th' \in [Threads -> Thread] /\ gpuLock' \in Threads \cup {NULL}
      <3>1. CASE cache[th[t].e].gpfifo = NULL
        BY <1>10, <3>1, GoesOn DEF ReadGpPut
      <3>2. CASE cache[th[t].e].gpfifo # NULL
        <4>1. cache[th[t].e].gpfifo \in Ptr
          BY <1>0 DEF TypeOK, Entry
        <4> DEFINE r == [th[t] EXCEPT !.pc = "ring", !.ptr = cache[th[t].e].gpfifo]
        <4>2. r \in Thread
          BY <1>0, <4>1 DEF Thread
        <4>3. th' = [th EXCEPT ![t] = r] /\ gpuLock' = gpuLock
          BY <1>0, <1>10, <3>2 DEF ReadGpPut
        <4> HIDE DEF r
        <4> QED
          BY <1>0, <4>2, <4>3 DEF TypeOK
      <3> QED
        BY <3>1, <3>2
    <2> QED
      BY <1>10, <2>1 DEF ReadGpPut, TypeOK
  <1>11. CASE ReadRing(t)
    BY <1>11, GoesOn DEF ReadRing, TypeOK
  <1>12. CASE Forward(t)
    BY <1>12, IdleTypes DEF Forward, TypeOK
  <1> QED
    BY <1>1, <1>2, <1>3, <1>4, <1>5, <1>6, <1>7, <1>8, <1>9, <1>10, <1>11, <1>12
    DEF ThreadStep, nv_dbell_cache_find, nv_dbell_cache_reserve, nv_dbell_try_enqueue_resolve

LEMMA RequestType ==
    ASSUME TypeOK, NEW t \in Threads, NEW k \in Keys, Ring(t, k) \/ Construct(t, k)
    PROVE  TypeOK'
  <1>1. [IdleThread EXCEPT !.pc = "find", !.key = k] \in Thread
    BY IdleTypes DEF Thread
  <1>2. CASE Ring(t, k)
    BY <1>1, <1>2 DEF Ring, TypeOK
  <1>3. CASE Construct(t, k)
    <2>1. [IdleThread EXCEPT !.pc = "find", !.op = "reg", !.key = k] \in Thread
      BY IdleTypes DEF Thread
    <2>2. th' \in [Threads -> Thread] /\ gpuLock' \in Threads \cup {NULL}
      BY <1>3, <2>1 DEF Construct, TypeOK
    <2>3. chan[k].gen \in 0 .. MaxGen /\ chan[k].gen + 1 \in 0 .. MaxGen
      BY <1>3, LayoutAssumption DEF Construct, TypeOK
    <2>4. chan' \in [Keys -> [alive : BOOLEAN, reg : BOOLEAN, gen : 0 .. MaxGen]]
      <3>1. PICK b \in BOOLEAN :
                chan' = [chan EXCEPT ![k] = [alive |-> TRUE, reg |-> b, gen |-> chan[k].gen + 1]]
        BY <1>3 DEF Construct, TypeOK
      <3>2. [alive |-> TRUE, reg |-> b, gen |-> chan[k].gen + 1]
                \in [alive : BOOLEAN, reg : BOOLEAN, gen : 0 .. MaxGen]
        BY <2>3
      <3> QED
        BY <3>1, <3>2 DEF TypeOK
    <2> QED
      BY <1>3, <2>2, <2>4 DEF Construct, TypeOK
  <1> QED
    BY <1>2, <1>3

LEMMA WorkerType ==
    ASSUME TypeOK, WorkerStep
    PROVE  TypeOK'
  <1>0. worker \in Resolver /\ worker.e \in Entries
    BY DEF TypeOK, Resolver
  <1>1. CASE Take
    <2>1. Head(queue) \in Entries /\ Tail(queue) \in Seq(Entries)
      BY <1>1 DEF Take, TypeOK
    <2>2. worker' \in Resolver
      BY <1>1, <2>1, IdleTypes DEF Take, Resolver
    <2> QED
      BY <1>1, <2>1, <2>2 DEF Take, TypeOK
  <1>2. CASE ResolveChannel
    <2> DEFINE k == cache[worker.e].key
    <2>1. CASE k \in Keys /\ chan[k].alive /\
               \E u \in UserdFromRm(k) :
                  worker' = [worker EXCEPT !.pc = "userd", !.ok = TRUE, !.reg = chan[k].reg,
                                           !.gen = chan[k].gen, !.userd = u]
      <3>1. PICK u \in UserdFromRm(k) :
                  worker' = [worker EXCEPT !.pc = "userd", !.ok = TRUE, !.reg = chan[k].reg,
                                           !.gen = chan[k].gen, !.userd = u]
        BY <2>1
      <3>2. u \in Ptr
        BY <2>1, LayoutAssumption DEF UserdFromRm, Ptr, Kva
      <3>3. chan[k].reg \in BOOLEAN /\ chan[k].gen \in 0 .. MaxGen
        BY <2>1 DEF TypeOK
      <3>4. worker' \in Resolver
        BY <1>0, <3>1, <3>2, <3>3 DEF Resolver
      <3> QED
        BY <1>2, <3>4 DEF ResolveChannel, TypeOK
    <2>2. CASE worker' = [worker EXCEPT !.pc = "publish", !.ok = FALSE]
      <3>1. worker' \in Resolver
        BY <1>0, <2>2 DEF Resolver
      <3> QED
        BY <1>2, <3>1 DEF ResolveChannel, TypeOK
    <2> QED
      BY <1>2, <2>1, <2>2 DEF ResolveChannel
  <1>3. CASE LookupUserd
    <2> DEFINE p == nv_dbell_bar1_offset_kva(cache[worker.e].key)
    <2>1. p \in Ptr
      BY OffsetKva DEF Ptr, Kva
    <2> HIDE DEF p
    <2>2. worker' = [worker EXCEPT !.pc = "gpfifo",
               !.userd = IF @ = NULL /\ Space[cache[worker.e].key] = "fb" THEN p ELSE @]
      BY <1>3 DEF LookupUserd, p
    <2>3. worker' \in Resolver
      BY <1>0, <2>1, <2>2 DEF Resolver
    <2> QED
      BY <1>3, <2>3 DEF LookupUserd, TypeOK
  <1>4. CASE LookupRing
    <2> DEFINE p == nv_dbell_bar1_gpu_va_to_kva(cache[worker.e].key)
    <2>1. p \in Ptr
      BY RingKva DEF Ptr, Kva
    <2> HIDE DEF p
    <2>2. worker' = [worker EXCEPT !.pc = "publish", !.gpfifo = IF worker.reg THEN p ELSE NULL]
      BY <1>4 DEF LookupRing, p
    <2>3. worker' \in Resolver
      BY <1>0, <2>1, <2>2 DEF Resolver, Ptr
    <2> QED
      BY <1>4, <2>3 DEF LookupRing, TypeOK
  <1>5. CASE Publish
    <2>1. cache' \in [Entries -> Entry]
      <3> DEFINE old == cache[worker.e]
                 r == IF worker.userd # NULL
                      THEN [old EXCEPT !.state = "RESOLVED", !.userd = worker.userd,
                                       !.gpfifo = worker.gpfifo, !.gen = worker.gen]
                      ELSE IF worker.ok THEN Freed(old) ELSE [old EXCEPT !.state = "FAILED"]
      <3>1. old \in Entry
        BY <1>0 DEF TypeOK
      <3>2. cache' = [cache EXCEPT ![worker.e] = r]
        BY <1>0, <1>5 DEF Publish, TypeOK
      <3> HIDE DEF old
      <3>3. r \in Entry
        <4>1. Freed(old) \in Entry /\ [old EXCEPT !.state = "FAILED"] \in Entry
          BY <3>1, FreedEntry DEF Entry, States
        <4>2. [old EXCEPT !.state = "RESOLVED", !.userd = worker.userd,
                          !.gpfifo = worker.gpfifo, !.gen = worker.gen] \in Entry
          BY <1>0, <3>1 DEF Entry, States, Resolver
        <4> QED
          BY <4>1, <4>2
      <3> HIDE DEF r
      <3> QED
        BY <1>0, <3>2, <3>3 DEF TypeOK
    <2> QED
      BY <1>5, <2>1, IdleTypes DEF Publish, TypeOK
  <1> QED
    BY <1>1, <1>2, <1>3, <1>4, <1>5 DEF WorkerStep

LEMMA NextEntryType ==
    ASSUME TypeOK, NEW m \in Maps, NextEntry(m)
    PROVE  vma' \in [Maps -> Mapping]
  <1>1. vma[m] \in Mapping /\ vma \in [Maps -> Mapping]
    BY DEF TypeOK
  <1>2. vma[m].i \in Entries /\ (vma[m].i < CacheSize => vma[m].i + 1 \in Entries)
    BY <1>1, SizesAssumption DEF Mapping, Entries
  <1>3. [st |-> "unmap", i |-> 1] \in Mapping
    BY IdleTypes DEF Mapping
  <1>4. vma[m].i < CacheSize => [st |-> "scan", i |-> vma[m].i + 1] \in Mapping
    BY <1>2 DEF Mapping
  <1> QED
    BY <1>1, <1>3, <1>4 DEF NextEntry

LEMMA MappingType ==
    ASSUME TypeOK, NEW m \in Maps, TrackAdd(m) \/ nv_dbell_bar1_track_remove(m)
    PROVE  TypeOK'
  <1>0. vma[m] \in Mapping /\ vma \in [Maps -> Mapping] /\ vma[m].i \in Entries
    BY DEF TypeOK, Mapping
  <1>1. CASE TrackAdd(m)
    <2>1. vma' \in [Maps -> Mapping]
      BY <1>0, <1>1 DEF TrackAdd, Mapping
    <2>2. bar1' \in [1 .. Bar1Size -> Maps \cup {NULL}]
      BY <1>1 DEF TrackAdd, TypeOK, Rows
    <2> QED
      BY <1>1, <2>1, <2>2 DEF TrackAdd, TypeOK
  <1>2. CASE Untrack(m)
    <2>1. vma' \in [Maps -> Mapping]
      BY <1>0, <1>2 DEF Untrack, Mapping
    <2>2. bar1' \in [1 .. Bar1Size -> Maps \cup {NULL}]
      BY <1>2 DEF Untrack, TypeOK, Rows
    <2> QED
      BY <1>2, <2>1, <2>2 DEF Untrack, TypeOK
  <1>3. CASE InvalidateTest(m)
    <2>1. vma' \in [Maps -> Mapping]
      <3>1. CASE NextEntry(m)
        BY <3>1, NextEntryType
      <3>2. CASE vma' = [vma EXCEPT ![m].st = "hit"]
        BY <1>0, <3>2 DEF Mapping
      <3> QED
        BY <1>3, <3>1, <3>2 DEF InvalidateTest
    <2> QED
      BY <1>3, <2>1 DEF InvalidateTest, TypeOK
  <1>4. CASE InvalidateStore(m)
    <2>1. vma' \in [Maps -> Mapping]
      BY <1>4, NextEntryType DEF InvalidateStore
    <2>2. cache' \in [Entries -> Entry]
      <3> DEFINE old == cache[vma[m].i]
                 r == [Freed(old) EXCEPT !.userd = NULL, !.gpfifo = NULL]
      <3>1. r \in Entry
        <4>1. old \in Entry
          BY <1>0 DEF TypeOK
        <4> HIDE DEF old
        <4> QED
          BY <4>1, FreedEntry DEF Entry, States, Ptr
      <3>2. cache' = [cache EXCEPT ![vma[m].i] = r]
        BY <1>0, <1>4 DEF InvalidateStore, TypeOK
      <3> HIDE DEF r
      <3> QED
        BY <1>0, <3>1, <3>2 DEF TypeOK
    <2> QED
      BY <1>4, <2>1, <2>2 DEF InvalidateStore, TypeOK
  <1>5. CASE Iounmap(m)
    <2>1. vma' \in [Maps -> Mapping]
      BY <1>0, <1>5 DEF Iounmap, Mapping
    <2> QED
      BY <1>5, <2>1 DEF Iounmap, TypeOK
  <1> QED
    BY <1>1, <1>2, <1>3, <1>4, <1>5 DEF nv_dbell_bar1_track_remove

LEMMA NextType == TypeOK /\ [Next]_vars => TypeOK'
  <1> SUFFICES ASSUME TypeOK, [Next]_vars PROVE TypeOK'
    OBVIOUS
  <1>1. CASE \E t \in Threads : ThreadStep(t)
    BY <1>1, ThreadType
  <1>2. CASE \E t \in Threads, k \in Keys : Ring(t, k) \/ Construct(t, k)
    BY <1>2, RequestType
  <1>3. CASE \E k \in Keys : Destruct(k)
    <2>1. PICK k \in Keys : Destruct(k)
      BY <1>3
    <2>2. chan' = [chan EXCEPT ![k] = [chan[k] EXCEPT !.alive = FALSE, !.reg = FALSE]]
      BY <2>1 DEF Destruct, TypeOK
    <2>3. chan' \in [Keys -> [alive : BOOLEAN, reg : BOOLEAN, gen : 0 .. MaxGen]]
      BY <2>2 DEF TypeOK
    <2> QED
      BY <2>1, <2>3 DEF Destruct, TypeOK
  <1>4. CASE WorkerStep
    BY <1>4, WorkerType
  <1>5. CASE \E m \in Maps : TrackAdd(m) \/ nv_dbell_bar1_track_remove(m)
    BY <1>5, MappingType
  <1>6. CASE UNCHANGED vars
    BY <1>6 DEF vars, TypeOK
  <1> QED
    BY <1>1, <1>2, <1>3, <1>4, <1>5, <1>6 DEF Next

\* The cache, the table, the queue and everyone's locals keep their types: no scan
\* of the cache runs past its last entry, no look-up returns a row that is not
\* there, no generation exceeds its bound.
THEOREM TypeCorrect == Spec => []TypeOK
  BY InitType, NextType, PTL DEF Spec

-----------------------------------------------------------------------------
(* How a step changes the record of the thread that takes it.                  *)

Stays(t) == \A u \in Threads : u # t => th'[u] = th[u]

\* t has left the cache code: its handler forwards, its construction is over.
Left(t) ==
    /\ Stays(t)
    /\ th'[t].op = "db"
    /\ th'[t].pc \in {"idle", "forward"}
    /\ th'[t].pc = "forward" => th[t].op = "db"

\* t has gone on with the same request, entry and pointer.
Kept(t) ==
    /\ Stays(t)
    /\ th'[t].op = th[t].op /\ th'[t].key = th[t].key

LEMMA Leaves ==
    ASSUME TypeOK, NEW t \in Threads, Leave(t)
    PROVE  Left(t)
  BY DEF Leave, Left, Stays, TypeOK, IdleThread

LEMMA Goes ==
    ASSUME TypeOK, NEW t \in Threads, NEW pc, Goto(t, pc)
    PROVE  /\ Kept(t) /\ th'[t].pc = pc
           /\ th'[t].i = th[t].i /\ th'[t].e = th[t].e /\ th'[t].ptr = th[t].ptr
  <1>1. th \in [Threads -> Thread] /\ th[t] \in Thread
    BY DEF TypeOK
  <1> QED
    BY <1>1 DEF Goto, Kept, Stays, Thread

LEMMA Advances ==
    ASSUME TypeOK, NEW t \in Threads, NEW pc, Advance(t, pc)
    PROVE  /\ Kept(t) /\ th'[t].e = th[t].e
           /\ \/ th[t].i < CacheSize /\ th'[t].i = th[t].i + 1 /\ th'[t].pc = th[t].pc
              \/ ~(th[t].i < CacheSize) /\ th'[t].i = 1 /\ th'[t].pc = pc
  <1>1. th \in [Threads -> Thread] /\ th[t] \in Thread
    BY DEF TypeOK
  <1>2. CASE th[t].i < CacheSize
    BY <1>1, <1>2 DEF Advance, Kept, Stays, Thread
  <1>3. CASE ~(th[t].i < CacheSize)
    BY <1>1, <1>3 DEF Advance, Kept, Stays, Thread
  <1> QED
    BY <1>2, <1>3

LEMMA FindHits ==
    ASSUME TypeOK, NEW t \in Threads, FindHit(t)
    PROVE  \/ Left(t)
           \/ /\ Kept(t) /\ th[t].op # "reg"
              /\ th'[t].pc = "state" /\ th'[t].e = th[t].i
  <1>1. th \in [Threads -> Thread] /\ th[t] \in Thread
    BY DEF TypeOK
  <1>2. CASE th[t].op = "reg"
    BY <1>2, Leaves DEF FindHit
  <1>3. CASE th[t].op # "reg"
    BY <1>1, <1>3 DEF FindHit, Kept, Stays, Thread
  <1> QED
    BY <1>2, <1>3

LEMMA Loads ==
    ASSUME TypeOK, NEW t \in Threads, LoadUserd(t)
    PROVE  \/ Left(t)
           \/ /\ Kept(t) /\ th'[t].pc = "gpput" /\ th'[t].e = th[t].e
              /\ th'[t].ptr = cache[th[t].e].userd /\ th'[t].ptr # NULL
  <1>1. th \in [Threads -> Thread] /\ th[t] \in Thread
    BY DEF TypeOK
  <1>2. CASE cache[th[t].e].userd = NULL
    BY <1>2, Leaves DEF LoadUserd
  <1>3. CASE cache[th[t].e].userd # NULL
    BY <1>1, <1>3 DEF LoadUserd, Kept, Stays, Thread
  <1> QED
    BY <1>2, <1>3

LEMMA Reads ==
    ASSUME TypeOK, NEW t \in Threads, ReadGpPut(t)
    PROVE  \/ Left(t)
           \/ /\ Kept(t) /\ th'[t].pc = "ring" /\ th'[t].e = th[t].e
              /\ th'[t].ptr = cache[th[t].e].gpfifo /\ th'[t].ptr # NULL
  <1>1. th \in [Threads -> Thread] /\ th[t] \in Thread
    BY DEF TypeOK
  <1>2. CASE cache[th[t].e].gpfifo = NULL
    BY <1>2, Leaves DEF ReadGpPut
  <1>3. CASE cache[th[t].e].gpfifo # NULL
    BY <1>1, <1>3 DEF ReadGpPut, Kept, Stays, Thread
  <1> QED
    BY <1>2, <1>3

\* A request begins: a trapped doorbell or a registration.
Begins(t) ==
    /\ Stays(t) /\ th[t].pc = "idle"
    /\ th'[t].pc = "find" /\ th'[t].key \in Keys /\ th'[t].i = 1
    /\ th'[t].op = "db" => (Quiesced => ~TearingDown)

LEMMA Rings ==
    ASSUME TypeOK, NEW t \in Threads, NEW k \in Keys, Ring(t, k)
    PROVE  Begins(t)
  BY DEF Ring, Begins, Stays, TypeOK, IdleThread

LEMMA Constructs ==
    ASSUME TypeOK, NEW t \in Threads, NEW k \in Keys, Construct(t, k)
    PROVE  Begins(t) \/ UNCHANGED th
  <1>1. th \in [Threads -> Thread] /\ th[t].pc = "idle"
    BY DEF Construct, TypeOK
  <1> DEFINE r == [IdleThread EXCEPT !.pc = "find", !.op = "reg", !.key = k]
  <1>2. r.pc = "find" /\ r.op = "reg" /\ r.key = k /\ r.i = 1
    BY DEF IdleThread
  <1>3. th' = [th EXCEPT ![t] = r] \/ UNCHANGED th
    BY DEF Construct
  <1> HIDE DEF r
  <1> QED
    BY <1>1, <1>2, <1>3 DEF Begins, Stays

\* The steps of a thread that change nothing but its own record.
LocalStep(t) ==
    \/ Begins(t)
    \/ FindHit(t) \/ FindNext(t) \/ ReserveNext(t)
    \/ CheckState(t) \/ LoadUserd(t) \/ ReadGpPut(t) \/ ReadRing(t) \/ Forward(t)

shared == <<cache, bar1, vma, queue, worker>>

\* Every step is one of: a local step of a thread, one of the four steps of a
\* thread that write the cache or the queue, a step of the resolver or of a
\* mapping; RM's own steps change nothing else.
LEMMA StepKinds ==
    ASSUME TypeOK, [Next]_vars
    PROVE  \/ UNCHANGED <<shared, th>>
           \/ \E t \in Threads : LocalStep(t) /\ UNCHANGED shared
           \/ \E t \in Threads : ReserveWon(t) \/ Fill(t) \/ EnqueueOk(t) \/ EnqueueFail(t)
           \/ WorkerStep /\ UNCHANGED th
           \/ \E m \in Maps : (TrackAdd(m) \/ nv_dbell_bar1_track_remove(m)) /\ UNCHANGED th
  <1>1. ASSUME NEW t \in Threads, NEW k \in Keys, Ring(t, k) \/ Construct(t, k)
        PROVE  UNCHANGED <<shared, th>> \/ (LocalStep(t) /\ UNCHANGED shared)
    BY <1>1, Rings, Constructs DEF LocalStep, shared, Ring, Construct
  <1>2. ASSUME NEW t \in Threads, ThreadStep(t)
        PROVE  \/ LocalStep(t) /\ UNCHANGED shared
               \/ ReserveWon(t) \/ Fill(t) \/ EnqueueOk(t) \/ EnqueueFail(t)
    BY <1>2 DEF ThreadStep, LocalStep, shared, nv_dbell_cache_find, nv_dbell_cache_reserve,
       nv_dbell_try_enqueue_resolve, FindHit, FindNext, ReserveNext, CheckState, LoadUserd,
       ReadGpPut, ReadRing, Forward
  <1>3. ASSUME NEW k \in Keys, Destruct(k) PROVE UNCHANGED <<shared, th>>
    BY <1>3 DEF Destruct, shared
  <1>4. WorkerStep => UNCHANGED th
    BY DEF WorkerStep, Take, ResolveChannel, LookupUserd, LookupRing, Publish
  <1>5. ASSUME NEW m \in Maps, TrackAdd(m) \/ nv_dbell_bar1_track_remove(m)
        PROVE  UNCHANGED th
    BY <1>5 DEF TrackAdd, nv_dbell_bar1_track_remove, Untrack, InvalidateTest,
       InvalidateStore, Iounmap
  <1>6. UNCHANGED vars => UNCHANGED <<shared, th>>
    BY DEF vars, shared
  <1> QED
    BY <1>1, <1>2, <1>3, <1>4, <1>5, <1>6 DEF Next

\* Where a local step takes its thread.
LEMMA LocalMoves ==
    ASSUME TypeOK, NEW t \in Threads, LocalStep(t)
    PROVE  /\ Stays(t)
           /\ ~Reserving(t)
           /\ th'[t].pc \notin {"fill", "enqueue"}
           /\ \/ Begins(t)
              \/ Left(t) /\ th[t].pc # "idle"
              \/ Kept(t) /\ th[t].pc \notin {"idle", "forward"}
  <1>1. CASE Begins(t)
    BY <1>1 DEF Begins, Reserving
  <1>2. CASE FindHit(t)
    BY <1>2, FindHits DEF FindHit, Left, Kept, Reserving
  <1>3. CASE FindNext(t)
    BY <1>3, Advances DEF FindNext, Kept, Reserving
  <1>4. CASE ReserveNext(t)
    <2>1. Leave(t) \/ Advance(t, "reserve")
      BY <1>4 DEF ReserveNext
    <2> QED
      BY <1>4, <2>1, Leaves, Advances DEF ReserveNext, Left, Kept, Reserving
  <1>5. CASE CheckState(t)
    <2>1. Leave(t) \/ Goto(t, "load")
      BY <1>5 DEF CheckState
    <2> QED
      BY <1>5, <2>1, Leaves, Goes DEF CheckState, Left, Kept, Reserving
  <1>6. CASE LoadUserd(t)
    BY <1>6, Loads DEF LoadUserd, Left, Kept, Reserving
  <1>7. CASE ReadGpPut(t)
    BY <1>7, Reads DEF ReadGpPut, Left, Kept, Reserving
  <1>8. CASE ReadRing(t)
    BY <1>8, Leaves DEF ReadRing, Left, Reserving
  <1>9. CASE Forward(t)
    BY <1>9 DEF Forward, Left, Stays, Reserving, TypeOK, IdleThread
  <1> QED
    BY <1>1, <1>2, <1>3, <1>4, <1>5, <1>6, <1>7, <1>8, <1>9 DEF LocalStep

\* The four steps that touch the cache or the queue.
LEMMA Reserves ==
    ASSUME TypeOK, NEW t \in Threads, ReserveWon(t)
    PROVE  /\ Kept(t) /\ th[t].pc = "reserve" /\ th'[t].pc = "fill" /\ th'[t].e = th[t].i
           /\ th[t].i \in Entries /\ cache[th[t].i].state = "FREE"
           /\ cache'[th[t].i].state = "PENDING" /\ cache'[th[t].i].key = cache[th[t].i].key
           /\ cache'[th[t].i].homed = cache[th[t].i].homed
           /\ cache'[th[t].i].userd = cache[th[t].i].userd
           /\ cache'[th[t].i].gpfifo = cache[th[t].i].gpfifo
           /\ \A e \in Entries : e # th[t].i => cache'[e] = cache[e]
           /\ UNCHANGED <<bar1, vma, queue, worker>>
  <1>1. th \in [Threads -> Thread] /\ th[t] \in Thread /\ th[t].i \in Entries
    BY DEF TypeOK, Thread
  <1>2. Kept(t) /\ th'[t].pc = "fill" /\ th'[t].e = th[t].i
    BY <1>1 DEF ReserveWon, Kept, Stays, Thread
  <1>3. cache[th[t].i] \in Entry
    BY <1>1 DEF TypeOK
  <1>4. /\ cache'[th[t].i].state = "PENDING" /\ cache'[th[t].i].key = cache[th[t].i].key
        /\ cache'[th[t].i].homed = cache[th[t].i].homed
        /\ cache'[th[t].i].userd = cache[th[t].i].userd
        /\ cache'[th[t].i].gpfifo = cache[th[t].i].gpfifo
    BY <1>1, <1>3 DEF ReserveWon, TypeOK, Entry
  <1> QED
    BY <1>1, <1>2, <1>4 DEF ReserveWon, TypeOK

LEMMA Fills ==
    ASSUME TypeOK, NEW t \in Threads, Fill(t)
    PROVE  /\ Kept(t) /\ th[t].pc = "fill" /\ th'[t].pc = "enqueue" /\ th'[t].e = th[t].e
           /\ th[t].e \in Entries
           /\ cache'[th[t].e].state = "PENDING" /\ cache'[th[t].e].key = th[t].key
           /\ cache'[th[t].e].userd = NULL /\ cache'[th[t].e].gpfifo = NULL
           /\ cache'[th[t].e].by = t
           /\ cache'[th[t].e].homed =>
                 Space[th[t].key] = "fb" /\ vma[Home[th[t].key]].st = "mapped"
           /\ \A e \in Entries : e # th[t].e => cache'[e] = cache[e]
           /\ UNCHANGED <<bar1, vma, queue, worker>>
  <1>1. th[t].e \in Entries /\ Goto(t, "enqueue") /\ th[t].pc = "fill"
    BY DEF Fill, TypeOK, Thread
  <1> DEFINE h == Space[th[t].key] = "fb" /\ vma[Home[th[t].key]].st = "mapped"
             r == [FreeEntry EXCEPT !.state = "PENDING", !.key = th[t].key, !.by = t, !.homed = h]
  <1>3. cache' = [cache EXCEPT ![th[t].e] = r]
    BY DEF Fill
  <1>4. r.homed = h
    BY DEF FreeEntry
  <1>5. /\ r.state = "PENDING" /\ r.key = th[t].key /\ r.userd = NULL /\ r.gpfifo = NULL
        /\ r.by = t
    <2> HIDE DEF h
    <2> QED
      BY DEF FreeEntry
  <1>6. r.homed => Space[th[t].key] = "fb" /\ vma[Home[th[t].key]].st = "mapped"
    BY <1>4
  <1> HIDE DEF r
  <1>7. cache'[th[t].e] = r /\ \A e \in Entries : e # th[t].e => cache'[e] = cache[e]
    BY <1>1, <1>3 DEF TypeOK
  <1> QED
    BY <1>1, <1>5, <1>6, <1>7, Goes DEF Fill

LEMMA Rollbacks ==
    ASSUME TypeOK, NEW t \in Threads, EnqueueFail(t)
    PROVE  /\ Left(t) /\ th[t].pc = "enqueue" /\ th[t].e \in Entries
           /\ cache'[th[t].e].state = "FREE" /\ cache'[th[t].e].key = cache[th[t].e].key
           /\ cache'[th[t].e].homed = FALSE
           /\ cache'[th[t].e].userd = cache[th[t].e].userd
           /\ cache'[th[t].e].gpfifo = cache[th[t].e].gpfifo
           /\ \A e \in Entries : e # th[t].e => cache'[e] = cache[e]
           /\ UNCHANGED <<bar1, vma, queue, worker>>
  <1>1. th[t].e \in Entries /\ Leave(t) /\ th[t].pc = "enqueue"
    BY DEF EnqueueFail, TypeOK, Thread
  <1>2. cache[th[t].e] \in Entry
    BY <1>1 DEF TypeOK
  <1>3. /\ cache'[th[t].e].state = "FREE" /\ cache'[th[t].e].key = cache[th[t].e].key
        /\ cache'[th[t].e].homed = FALSE
        /\ cache'[th[t].e].userd = cache[th[t].e].userd
        /\ cache'[th[t].e].gpfifo = cache[th[t].e].gpfifo
    BY <1>1, <1>2, FreedEntry DEF EnqueueFail, TypeOK
  <1> QED
    BY <1>1, <1>3, Leaves DEF EnqueueFail, TypeOK

\* The queue after a work item is scheduled and after one is taken.
LEMMA Schedules ==
    ASSUME TypeOK, NEW t \in Threads, EnqueueOk(t)
    PROVE  /\ Left(t) /\ th[t].pc = "enqueue" /\ th[t].e \in Entries
           /\ Len(queue) \in Nat /\ DOMAIN queue = 1 .. Len(queue)
           /\ DOMAIN queue' = 1 .. Len(queue) + 1
           /\ queue'[Len(queue) + 1] = th[t].e
           /\ \A j \in DOMAIN queue : queue'[j] = queue[j] /\ queue[j] \in Entries
           /\ UNCHANGED <<cache, bar1, vma, worker>>
  <1>1. th[t].e \in Entries /\ Leave(t) /\ th[t].pc = "enqueue" /\ queue \in Seq(Entries)
    BY DEF EnqueueOk, TypeOK, Thread
  <1>2. queue' = Append(queue, th[t].e)
    BY DEF EnqueueOk
  <1>3. /\ Len(queue) \in Nat /\ DOMAIN queue = 1 .. Len(queue)
        /\ DOMAIN queue' = 1 .. Len(queue) + 1
        /\ queue'[Len(queue) + 1] = th[t].e
        /\ \A j \in DOMAIN queue : queue'[j] = queue[j] /\ queue[j] \in Entries
    BY <1>1, <1>2
  <1> QED
    BY <1>1, <1>3, Leaves DEF EnqueueOk

LEMMA Takes ==
    ASSUME TypeOK, Take
    PROVE  /\ ~Busy /\ worker'.pc = "rm" /\ worker'.e = queue[1] /\ worker'.userd = NULL
           /\ worker'.gpfifo = NULL
           /\ Len(queue) \in Nat \ {0} /\ DOMAIN queue = 1 .. Len(queue)
           /\ DOMAIN queue' = 1 .. Len(queue) - 1
           /\ \A j \in DOMAIN queue' : queue'[j] = queue[j + 1]
           /\ \A j \in DOMAIN queue : queue[j] \in Entries
           /\ UNCHANGED <<cache, bar1, vma>>
  <1>1. queue \in Seq(Entries) /\ queue # << >> /\ queue' = Tail(queue)
    BY DEF Take, TypeOK
  <1>2. /\ Len(queue) \in Nat \ {0} /\ DOMAIN queue = 1 .. Len(queue)
        /\ DOMAIN queue' = 1 .. Len(queue) - 1
        /\ \A j \in DOMAIN queue' : queue'[j] = queue[j + 1]
        /\ \A j \in DOMAIN queue : queue[j] \in Entries
    BY <1>1
  <1>3. Head(queue) = queue[1]
    BY <1>1
  <1> QED
    BY <1>2, <1>3 DEF Take, Busy, IdleWorker

\* The resolver between two entries of the queue.
LEMMA Works ==
    ASSUME TypeOK, ResolveChannel \/ LookupUserd \/ LookupRing
    PROVE  /\ Busy /\ Busy' /\ worker'.e = worker.e /\ worker.e \in Entries
           /\ UNCHANGED <<cache, bar1, vma, queue>>
  <1>1. worker \in Resolver
    BY DEF TypeOK
  <1>2. CASE ResolveChannel
    BY <1>1, <1>2 DEF ResolveChannel, Busy, Resolver
  <1>3. CASE LookupUserd
    BY <1>1, <1>3 DEF LookupUserd, Busy, Resolver
  <1>4. CASE LookupRing
    BY <1>1, <1>4 DEF LookupRing, Busy, Resolver
  <1> QED
    BY <1>2, <1>3, <1>4

LEMMA Publishes ==
    ASSUME TypeOK, Publish
    PROVE  /\ worker.pc = "publish" /\ ~Busy' /\ worker.e \in Entries
           /\ worker'.userd = NULL /\ worker'.gpfifo = NULL
           /\ cache'[worker.e].key = cache[worker.e].key
           /\ \/ /\ cache'[worker.e].state = "RESOLVED" /\ worker.userd # NULL
                 /\ cache'[worker.e].userd = worker.userd
                 /\ cache'[worker.e].gpfifo = worker.gpfifo
                 /\ cache'[worker.e].by = cache[worker.e].by
                 /\ cache'[worker.e].homed = cache[worker.e].homed
              \/ /\ cache'[worker.e].state \in {"FREE", "FAILED"}
                 /\ cache'[worker.e].state = "FAILED" => cache'[worker.e].by = cache[worker.e].by
                 /\ cache'[worker.e].homed \in {FALSE, cache[worker.e].homed}
                 /\ cache'[worker.e].userd = cache[worker.e].userd
                 /\ cache'[worker.e].gpfifo = cache[worker.e].gpfifo
           /\ \A e \in Entries : e # worker.e => cache'[e] = cache[e]
           /\ UNCHANGED <<bar1, vma, queue>>
  <1>1. worker.e \in Entries /\ cache[worker.e] \in Entry /\ cache \in [Entries -> Entry]
    BY DEF TypeOK, Resolver
  <1>2. CASE worker.userd # NULL
    BY <1>1, <1>2 DEF Publish, Entry, Busy, IdleWorker
  <1>3. CASE worker.userd = NULL /\ worker.ok
    BY <1>1, <1>3, FreedEntry DEF Publish, Busy, IdleWorker
  <1>4. CASE worker.userd = NULL /\ ~worker.ok
    BY <1>1, <1>4 DEF Publish, Entry, Busy, IdleWorker
  <1> QED
    BY <1>2, <1>3, <1>4

\* The mappings.
OtherMaps(m) == \A n \in Maps : n # m => vma'[n] = vma[n]

LEMMA NextEntries ==
    ASSUME TypeOK, NEW m \in Maps, NextEntry(m)
    PROVE  /\ OtherMaps(m) /\ vma[m].i \in Entries /\ CacheSize \in Nat
           /\ \/ vma[m].i < CacheSize /\ vma'[m].st = "scan" /\ vma'[m].i = vma[m].i + 1
              \/ ~(vma[m].i < CacheSize) /\ vma'[m].st = "unmap"
  <1>1. vma \in [Maps -> Mapping] /\ vma[m].i \in Entries /\ CacheSize \in Nat
    BY SizesAssumption DEF TypeOK, Mapping
  <1> QED
    BY <1>1 DEF NextEntry, OtherMaps

LEMMA Parks ==
    ASSUME TypeOK, NEW m \in Maps, InvalidateStore(m)
    PROVE  /\ vma[m].st = "hit" /\ vma[m].i \in Entries /\ NextEntry(m)
           /\ cache'[vma[m].i].state = "FREE" /\ cache'[vma[m].i].userd = NULL
           /\ cache'[vma[m].i].gpfifo = NULL /\ cache'[vma[m].i].homed = FALSE
           /\ cache'[vma[m].i].key = cache[vma[m].i].key
           /\ \A e \in Entries : e # vma[m].i => cache'[e] = cache[e]
           /\ UNCHANGED <<bar1, queue, worker>>
  <1>1. vma[m].i \in Entries /\ cache \in [Entries -> Entry] /\ cache[vma[m].i] \in Entry
    BY DEF TypeOK, Mapping
  <1> DEFINE q == Freed(cache[vma[m].i])
             r == [q EXCEPT !.userd = NULL, !.gpfifo = NULL]
  <1>2. q \in Entry /\ q.state = "FREE" /\ q.homed = FALSE /\ q.key = cache[vma[m].i].key
    BY <1>1, FreedEntry
  <1>3. cache' = [cache EXCEPT ![vma[m].i] = r]
    BY DEF InvalidateStore
  <1> HIDE DEF q
  <1>4. /\ r.state = "FREE" /\ r.homed = FALSE /\ r.key = cache[vma[m].i].key
        /\ r.userd = NULL /\ r.gpfifo = NULL
    BY <1>2 DEF Entry
  <1> HIDE DEF r
  <1> QED
    BY <1>1, <1>3, <1>4 DEF InvalidateStore

\* A step of a mapping other than the two of invalidate_range.
LEMMA Remaps ==
    ASSUME TypeOK, NEW m \in Maps, TrackAdd(m) \/ Untrack(m) \/ Iounmap(m)
    PROVE  /\ OtherMaps(m) /\ vma'[m].i = vma[m].i
           /\ \/ vma[m].st = "off" /\ vma'[m].st \in {"mapped", "dead"}
              \/ vma[m].st = "mapped" /\ vma'[m].st = "scan"
              \/ vma[m].st = "unmap" /\ vma'[m].st = "dead"
           /\ UNCHANGED <<cache, queue, worker>>
  <1>1. vma \in [Maps -> Mapping] /\ vma[m] \in Mapping
    BY DEF TypeOK
  <1>2. CASE TrackAdd(m)
    BY <1>1, <1>2 DEF TrackAdd, OtherMaps, Mapping
  <1>3. CASE Untrack(m)
    BY <1>1, <1>3 DEF Untrack, OtherMaps, Mapping
  <1>4. CASE Iounmap(m)
    BY <1>1, <1>4 DEF Iounmap, OtherMaps, Mapping
  <1> QED
    BY <1>2, <1>3, <1>4

LEMMA Tests ==
    ASSUME TypeOK, NEW m \in Maps, InvalidateTest(m)
    PROVE  /\ OtherMaps(m) /\ vma[m].st = "scan" /\ vma[m].i \in Entries
           /\ UNCHANGED <<cache, bar1, queue, worker>>
           /\ \/ /\ vma'[m].st = "hit" /\ vma'[m].i = vma[m].i
                 /\ cache[vma[m].i].state = "RESOLVED" /\ PointsInto(vma[m].i, m)
              \/ /\ NextEntry(m)
                 /\ ~(cache[vma[m].i].state = "RESOLVED" /\ PointsInto(vma[m].i, m))
  <1>1. vma \in [Maps -> Mapping] /\ vma[m] \in Mapping /\ vma[m].i \in Entries
    BY DEF TypeOK, Mapping
  <1>2. CASE cache[vma[m].i].state = "RESOLVED" /\ PointsInto(vma[m].i, m)
    BY <1>1, <1>2 DEF InvalidateTest, OtherMaps, Mapping
  <1>3. CASE ~(cache[vma[m].i].state = "RESOLVED" /\ PointsInto(vma[m].i, m))
    BY <1>1, <1>3, NextEntries DEF InvalidateTest
  <1> QED
    BY <1>2, <1>3

-----------------------------------------------------------------------------
(* Ownership of the PENDING entries.                                           *)

\* A thread writes no RESOLVED entry.
LEMMA WritesOwn ==
    ASSUME TypeOK, OwnInv, NEW t \in Threads,
           ReserveWon(t) \/ Fill(t) \/ EnqueueOk(t) \/ EnqueueFail(t)
    PROVE  \A e \in Entries : cache[e].state = "RESOLVED" => cache'[e] = cache[e]
  <1>1. CASE ReserveWon(t)
    BY <1>1, Reserves
  <1>2. CASE Fill(t)
    BY <1>2, Fills DEF OwnInv, OwnedPending, Reserving
  <1>3. CASE EnqueueOk(t)
    BY <1>3, Schedules
  <1>4. CASE EnqueueFail(t)
    BY <1>4, Rollbacks DEF OwnInv, OwnedPending, Reserving
  <1> QED
    BY <1>1, <1>2, <1>3, <1>4

LEMMA InitOwn == Init => OwnInv
  BY IdleTypes DEF Init, OwnInv, OwnedPending, PendingHasOwner, OneOwner, Reserving, Busy,
     IdleThread, IdleWorker, FreeEntry

\* A step that leaves the cache, the queue, the resolver and the mappings alone,
\* and in which no thread becomes or ceases to be a reserver.
LEMMA LocalOwn ==
    ASSUME TypeOK, OwnInv, NEW t \in Threads, LocalStep(t), UNCHANGED shared
    PROVE  OwnInv'
  <1>1. Stays(t) /\ ~Reserving(t) /\ th'[t].pc \notin {"fill", "enqueue"}
    BY LocalMoves
  <1>2. \A u \in Threads : (Reserving(u)' <=> Reserving(u)) /\ (Reserving(u) => th'[u] = th[u])
    BY <1>1 DEF Stays, Reserving
  <1>3. UNCHANGED <<cache, vma, queue, worker, Busy>>
    BY DEF shared, Busy
  <1>4. OwnedPending'
    BY <1>2, <1>3 DEF OwnInv, OwnedPending
  <1>5. PendingHasOwner'
    BY <1>2, <1>3 DEF OwnInv, PendingHasOwner, HasOwner
  <1>6. OneOwner'
    BY <1>2, <1>3 DEF OwnInv, OneOwner
  <1> QED
    BY <1>4, <1>5, <1>6 DEF OwnInv

LEMMA ReserveOwn ==
    ASSUME TypeOK, OwnInv, NEW t \in Threads, ReserveWon(t)
    PROVE  OwnInv'
  <1> DEFINE x == th[t].i
  <1>1. /\ Stays(t) /\ ~Reserving(t) /\ Reserving(t)' /\ th'[t].e = x
        /\ x \in Entries /\ cache[x].state = "FREE" /\ cache'[x].state = "PENDING"
        /\ \A e \in Entries : e # x => cache'[e] = cache[e]
        /\ UNCHANGED <<vma, queue, worker, Busy>>
    BY Reserves DEF Reserving, Kept, Busy
  <1>2. \A u \in Threads : u # t => th'[u] = th[u] /\ (Reserving(u)' <=> Reserving(u))
    BY <1>1 DEF Stays, Reserving
  <1>3. /\ \A u \in Threads : th[u].e \in Entries
        /\ \A j \in DOMAIN queue : queue[j] \in Entries
        /\ worker.e \in Entries
        /\ \A m \in Maps : vma[m].i \in Entries
    BY DEF TypeOK, Thread, Resolver, Mapping
  <1> HIDE DEF x
  <1>4. OwnedPending'
    BY <1>1, <1>2, <1>3 DEF OwnInv, OwnedPending
  <1>5. PendingHasOwner'
    BY <1>1, <1>2, <1>3 DEF OwnInv, PendingHasOwner, HasOwner
  <1>6. OneOwner'
    BY <1>1, <1>2, <1>3 DEF OwnInv, OneOwner, OwnedPending
  <1> QED
    BY <1>4, <1>5, <1>6 DEF OwnInv

LEMMA FillOwn ==
    ASSUME TypeOK, OwnInv, NEW t \in Threads, Fill(t)
    PROVE  OwnInv'
  <1> DEFINE x == th[t].e
  <1>1. /\ Stays(t) /\ Reserving(t) /\ Reserving(t)' /\ th'[t].e = x
        /\ x \in Entries /\ cache'[x].state = "PENDING"
        /\ \A e \in Entries : e # x => cache'[e] = cache[e]
        /\ UNCHANGED <<vma, queue, worker, Busy>>
    BY Fills DEF Reserving, Kept, Busy
  <1>2. \A u \in Threads : th'[u].e = th[u].e /\ (Reserving(u)' <=> Reserving(u))
    BY <1>1 DEF Stays, Reserving
  <1>3. /\ \A u \in Threads : th[u].e \in Entries
        /\ \A j \in DOMAIN queue : queue[j] \in Entries
        /\ worker.e \in Entries
        /\ \A m \in Maps : vma[m].i \in Entries
    BY DEF TypeOK, Thread, Resolver, Mapping
  <1>4. cache[x].state = "PENDING"
    BY <1>1 DEF OwnInv, OwnedPending
  <1> HIDE DEF x
  <1>5. OwnedPending'
    BY <1>1, <1>2, <1>3, <1>4 DEF OwnInv, OwnedPending
  <1>6. PendingHasOwner'
    BY <1>1, <1>2, <1>3, <1>4 DEF OwnInv, PendingHasOwner, HasOwner
  <1>7. OneOwner'
    BY <1>1, <1>2 DEF OwnInv, OneOwner
  <1> QED
    BY <1>5, <1>6, <1>7 DEF OwnInv

LEMMA ScheduleOwn ==
    ASSUME TypeOK, OwnInv, NEW t \in Threads, EnqueueOk(t)
    PROVE  OwnInv'
  <1> DEFINE x == th[t].e
             n == Len(queue) + 1
  <1>1. /\ Stays(t) /\ Reserving(t) /\ ~Reserving(t)' /\ x \in Entries
        /\ UNCHANGED <<cache, vma, worker, Busy>>
    BY Schedules DEF Reserving, Left, Busy
  <1>2. /\ queue'[n] = x /\ n \in DOMAIN queue' /\ n \notin DOMAIN queue
        /\ \A j \in DOMAIN queue' : j = n \/ j \in DOMAIN queue
        /\ \A j \in DOMAIN queue : j \in DOMAIN queue' /\ queue'[j] = queue[j]
    BY Schedules
  <1>3. \A u \in Threads : u # t => th'[u] = th[u] /\ (Reserving(u)' <=> Reserving(u))
    BY <1>1 DEF Stays, Reserving
  <1>4. cache[x].state = "PENDING"
    BY <1>1 DEF OwnInv, OwnedPending
  <1> HIDE DEF n
  <1>5. OwnedPending'
    BY <1>1, <1>2, <1>3, <1>4 DEF OwnInv, OwnedPending
  <1>6. PendingHasOwner'
    BY <1>1, <1>2, <1>3 DEF OwnInv, PendingHasOwner, HasOwner
  <1>7. OneOwner'
    BY <1>1, <1>2, <1>3 DEF OwnInv, OneOwner
  <1> QED
    BY <1>5, <1>6, <1>7 DEF OwnInv

LEMMA RollbackOwn ==
    ASSUME TypeOK, OwnInv, NEW t \in Threads, EnqueueFail(t)
    PROVE  OwnInv'
  <1> DEFINE x == th[t].e
  <1>1. /\ Stays(t) /\ Reserving(t) /\ ~Reserving(t)' /\ x \in Entries
        /\ cache'[x].state = "FREE"
        /\ \A e \in Entries : e # x => cache'[e] = cache[e]
        /\ UNCHANGED <<vma, queue, worker, Busy>>
    BY Rollbacks DEF Reserving, Left, Busy
  <1>2. \A u \in Threads : u # t => th'[u] = th[u] /\ (Reserving(u)' <=> Reserving(u))
    BY <1>1 DEF Stays, Reserving
  <1>3. /\ \A u \in Threads : th[u].e \in Entries
        /\ \A j \in DOMAIN queue : queue[j] \in Entries
        /\ worker.e \in Entries
        /\ \A m \in Maps : vma[m].i \in Entries
    BY DEF TypeOK, Thread, Resolver, Mapping
  <1>4. /\ cache[x].state = "PENDING"
        /\ \A u \in Threads : u # t /\ Reserving(u) => th[u].e # x
        /\ \A j \in DOMAIN queue : queue[j] # x
        /\ Busy => worker.e # x
    BY <1>1 DEF OwnInv, OwnedPending, OneOwner
  <1>5. OwnedPending'
    BY <1>1, <1>2, <1>3, <1>4 DEF OwnInv, OwnedPending
  <1>6. PendingHasOwner'
    <2> SUFFICES ASSUME NEW e \in Entries, cache'[e].state = "PENDING" PROVE HasOwner(e)'
      BY DEF PendingHasOwner
    <2>1. e # x /\ HasOwner(e)
      BY <1>1 DEF OwnInv, PendingHasOwner
    <2> QED
      BY <1>1, <1>2, <2>1 DEF HasOwner
  <1>7. OneOwner'
    BY <1>1, <1>2 DEF OwnInv, OneOwner
  <1> QED
    BY <1>5, <1>6, <1>7 DEF OwnInv

LEMMA WorkerOwn ==
    ASSUME TypeOK, OwnInv, WorkerStep, UNCHANGED th
    PROVE  OwnInv'
  <1>0. /\ \A u \in Threads : th[u].e \in Entries
        /\ \A j \in DOMAIN queue : queue[j] \in Entries
        /\ worker.e \in Entries
        /\ \A m \in Maps : vma[m].i \in Entries
    BY DEF TypeOK, Thread, Resolver, Mapping
  <1>1. \A u \in Threads : th'[u] = th[u] /\ (Reserving(u)' <=> Reserving(u))
    BY DEF Reserving
  <1>2. CASE Take
    <2>1. /\ ~Busy /\ Busy' /\ worker'.e = queue[1] /\ 1 \in DOMAIN queue
          /\ UNCHANGED <<cache, vma>>
      BY <1>2, Takes DEF Busy
    <2>2. \A j \in DOMAIN queue' : j + 1 \in DOMAIN queue /\ j + 1 # 1 /\ queue'[j] = queue[j + 1]
      BY <1>2, Takes
    <2>3. \A j \in DOMAIN queue : j # 1 => \E l \in DOMAIN queue' : j = l + 1
      <3> SUFFICES ASSUME NEW j \in DOMAIN queue, j # 1
                   PROVE  j - 1 \in DOMAIN queue' /\ j = (j - 1) + 1
        OBVIOUS
      <3> QED
        BY <1>2, Takes
    <2>4. OwnedPending'
      BY <1>1, <2>1, <2>2 DEF OwnInv, OwnedPending
    <2>5. PendingHasOwner'
      <3> SUFFICES ASSUME NEW e \in Entries, cache'[e].state = "PENDING" PROVE HasOwner(e)'
        BY DEF PendingHasOwner
      <3>1. HasOwner(e)
        BY <2>1 DEF OwnInv, PendingHasOwner
      <3>2. CASE \E u \in Threads : Reserving(u) /\ th[u].e = e
        BY <1>1, <3>2 DEF HasOwner
      <3>3. CASE \E j \in DOMAIN queue : queue[j] = e
        BY <2>1, <2>2, <2>3, <3>3 DEF HasOwner
      <3> QED
        BY <2>1, <3>1, <3>2, <3>3 DEF HasOwner
    <2>6. OneOwner'
      <3>1. \A j, l \in DOMAIN queue' : queue'[j] = queue'[l] => j = l
        <4> SUFFICES ASSUME NEW j \in DOMAIN queue', NEW l \in DOMAIN queue', queue'[j] = queue'[l]
                     PROVE  j = l
          OBVIOUS
        <4>1. j + 1 = l + 1
          BY <2>2 DEF OwnInv, OneOwner
        <4>2. j \in Nat /\ l \in Nat
          BY <1>2, Takes
        <4> QED
          BY <4>1, <4>2
      <3>2. \A j \in DOMAIN queue' : queue'[j] # worker'.e
        BY <2>1, <2>2 DEF OwnInv, OneOwner
      <3> QED
        BY <1>1, <2>1, <2>2, <3>1, <3>2 DEF OwnInv, OneOwner
    <2> QED
      BY <2>4, <2>5, <2>6 DEF OwnInv
  <1>3. CASE ResolveChannel \/ LookupUserd \/ LookupRing
    <2>1. Busy /\ Busy' /\ worker'.e = worker.e /\ UNCHANGED <<cache, vma, queue>>
      BY <1>3, Works
    <2>2. OwnedPending'
      BY <1>1, <2>1 DEF OwnInv, OwnedPending
    <2>3. PendingHasOwner'
      BY <1>1, <2>1 DEF OwnInv, PendingHasOwner, HasOwner
    <2>4. OneOwner'
      BY <1>1, <2>1 DEF OwnInv, OneOwner
    <2> QED
      BY <2>2, <2>3, <2>4 DEF OwnInv
  <1>4. CASE Publish
    <2>1. /\ Busy /\ ~Busy' /\ cache'[worker.e].state # "PENDING"
          /\ \A e \in Entries : e # worker.e => cache'[e] = cache[e]
          /\ UNCHANGED <<vma, queue>>
      BY <1>4, Publishes DEF Busy
    <2>2. /\ cache[worker.e].state = "PENDING"
          /\ \A u \in Threads : Reserving(u) => th[u].e # worker.e
          /\ \A j \in DOMAIN queue : queue[j] # worker.e
      BY <2>1 DEF OwnInv, OwnedPending, OneOwner
    <2>3. OwnedPending'
      BY <1>0, <1>1, <2>1, <2>2 DEF OwnInv, OwnedPending
    <2>4. PendingHasOwner'
      <3> SUFFICES ASSUME NEW e \in Entries, cache'[e].state = "PENDING" PROVE HasOwner(e)'
        BY DEF PendingHasOwner
      <3>1. e # worker.e /\ HasOwner(e)
        BY <2>1 DEF OwnInv, PendingHasOwner
      <3> QED
        BY <1>1, <2>1, <3>1 DEF HasOwner
    <2>5. OneOwner'
      BY <1>1, <2>1 DEF OwnInv, OneOwner
    <2> QED
      BY <2>3, <2>4, <2>5 DEF OwnInv
  <1> QED
    BY <1>2, <1>3, <1>4 DEF WorkerStep

LEMMA MappingOwn ==
    ASSUME TypeOK, OwnInv, SerialTeardown, UNCHANGED th,
           NEW m \in Maps, TrackAdd(m) \/ nv_dbell_bar1_track_remove(m)
    PROVE  OwnInv'
  <1>0. /\ \A u \in Threads : th[u].e \in Entries
        /\ \A j \in DOMAIN queue : queue[j] \in Entries
        /\ worker.e \in Entries
        /\ \A n \in Maps : vma[n].i \in Entries
    BY DEF TypeOK, Thread, Resolver, Mapping
  <1>1. \A u \in Threads : th'[u] = th[u] /\ (Reserving(u)' <=> Reserving(u))
    BY DEF Reserving
  <1>2. OneOwner'
    <2>1. UNCHANGED <<queue, worker, Busy>>
      BY Remaps, Tests, Parks DEF nv_dbell_bar1_track_remove, Busy
    <2> QED
      BY <1>1, <2>1 DEF OwnInv, OneOwner
  <1>3. CASE TrackAdd(m) \/ Untrack(m) \/ Iounmap(m)
    <2>1. /\ OtherMaps(m) /\ vma'[m].st # "hit"
          /\ UNCHANGED <<cache, queue, worker, Busy>>
      BY <1>3, Remaps DEF Busy
    <2>2. OwnedPending'
      BY <1>1, <2>1 DEF OwnInv, OwnedPending, OtherMaps
    <2>3. PendingHasOwner'
      BY <1>1, <2>1 DEF OwnInv, PendingHasOwner, HasOwner
    <2> QED
      BY <1>2, <2>2, <2>3 DEF OwnInv
  <1>4. CASE InvalidateTest(m)
    <2>1. /\ OtherMaps(m)
          /\ vma'[m].st = "hit" => cache[vma'[m].i].state = "RESOLVED"
          /\ UNCHANGED <<cache, queue, worker, Busy>>
      BY <1>4, Tests, NextEntries DEF Busy
    <2>2. OwnedPending'
      BY <1>1, <2>1 DEF OwnInv, OwnedPending, OtherMaps
    <2>3. PendingHasOwner'
      BY <1>1, <2>1 DEF OwnInv, PendingHasOwner, HasOwner
    <2> QED
      BY <1>2, <2>2, <2>3 DEF OwnInv
  <1>5. CASE InvalidateStore(m)
    <2> DEFINE x == vma[m].i
    <2>1. /\ OtherMaps(m) /\ vma[m].st = "hit" /\ vma'[m].st # "hit" /\ x \in Entries
          /\ cache'[x].state = "FREE"
          /\ \A e \in Entries : e # x => cache'[e] = cache[e]
          /\ UNCHANGED <<queue, worker, Busy>>
      BY <1>5, Parks, NextEntries DEF Busy
    <2>2. cache[x].state = "RESOLVED"
      BY <2>1 DEF OwnInv, OwnedPending
    <2>3. \A n \in Maps : n # m /\ vma[n].st = "hit" => vma[n].i # x
      BY <2>1 DEF SerialTeardown
    <2>4. OwnedPending'
      <3>1. \A u \in Threads : Reserving(u)' => cache'[th'[u].e].state = "PENDING"
        BY <1>0, <1>1, <2>1, <2>2 DEF OwnInv, OwnedPending
      <3>2. \A j \in DOMAIN queue' : cache'[queue'[j]].state = "PENDING"
        BY <1>0, <2>1, <2>2 DEF OwnInv, OwnedPending
      <3>3. Busy' => cache'[worker'.e].state = "PENDING"
        BY <1>0, <2>1, <2>2 DEF OwnInv, OwnedPending
      <3>4. \A n \in Maps : vma'[n].st = "hit" => cache'[vma'[n].i].state = "RESOLVED"
        BY <1>0, <2>1, <2>3 DEF OwnInv, OwnedPending, OtherMaps
      <3> QED
        BY <3>1, <3>2, <3>3, <3>4 DEF OwnedPending
    <2>5. PendingHasOwner'
      <3> SUFFICES ASSUME NEW e \in Entries, cache'[e].state = "PENDING" PROVE HasOwner(e)'
        BY DEF PendingHasOwner
      <3>1. e # x /\ HasOwner(e)
        BY <2>1 DEF OwnInv, PendingHasOwner
      <3> QED
        BY <1>1, <2>1, <3>1 DEF HasOwner
    <2> QED
      BY <1>2, <2>4, <2>5 DEF OwnInv
  <1> QED
    BY <1>3, <1>4, <1>5 DEF nv_dbell_bar1_track_remove

LEMMA NextOwn == TypeOK /\ OwnInv /\ SerialTeardown /\ [Next]_vars => OwnInv'
  <1> SUFFICES ASSUME TypeOK, OwnInv, SerialTeardown, [Next]_vars PROVE OwnInv'
    OBVIOUS
  <1>1. CASE UNCHANGED <<shared, th>>
    BY <1>1 DEF shared, OwnInv, OwnedPending, PendingHasOwner, HasOwner, OneOwner, Reserving, Busy
  <1> QED
    BY <1>1, StepKinds, LocalOwn, ReserveOwn, FillOwn, ScheduleOwn, RollbackOwn, WorkerOwn,
       MappingOwn

\* As long as no two teardowns park the same entry at once, every PENDING entry has
\* exactly one owner, and only PENDING entries have one.
THEOREM Ownership == Spec /\ []SerialTeardown => []OwnInv
  BY TypeCorrect, InitOwn, NextOwn, PTL DEF Spec

LEMMA OwnersCount ==
    ASSUME TypeOK, OwnInv
    PROVE  PendingOwned
  <1> SUFFICES ASSUME NEW e \in Entries
               PROVE  Owners(e) = IF cache[e].state = "PENDING" THEN 1 ELSE 0
    BY DEF PendingOwned
  <1> DEFINE R == {t \in Threads : th[t].pc \in {"fill", "enqueue"} /\ th[t].e = e}
             Q == {j \in DOMAIN queue : queue[j] = e}
             W == IF worker.pc # "idle" /\ worker.e = e THEN 1 ELSE 0
  <1>1. /\ \A t \in R : cache[e].state = "PENDING" /\ R = {t} /\ Q = {} /\ W = 0
        /\ \A j \in Q : cache[e].state = "PENDING" /\ R = {} /\ Q = {j} /\ W = 0
        /\ W = 1 => cache[e].state = "PENDING" /\ R = {} /\ Q = {}
    BY DEF OwnInv, OwnedPending, OneOwner, Reserving, Busy
  <1>2. cache[e].state = "PENDING" => R # {} \/ Q # {} \/ W = 1
    BY DEF OwnInv, PendingHasOwner, HasOwner, Reserving, Busy
  <1>3. W \in {0, 1} /\ Owners(e) = Cardinality(R) + Cardinality(Q) + W
    BY DEF Owners
  <1> HIDE DEF R, Q, W
  <1>4. Cardinality({}) = 0 /\ \A x : Cardinality({x}) = 1
    BY FS_EmptySet, FS_Singleton
  <1>5. CASE R # {}
    <2>1. PICK t : t \in R
      BY <1>5
    <2>2. Cardinality(R) = 1 /\ Cardinality(Q) = 0 /\ W = 0 /\ cache[e].state = "PENDING"
      BY <1>1, <1>4, <2>1
    <2> QED
      BY <1>3, <2>2
  <1>6. CASE Q # {}
    <2>1. PICK j : j \in Q
      BY <1>6
    <2>2. Cardinality(R) = 0 /\ Cardinality(Q) = 1 /\ W = 0 /\ cache[e].state = "PENDING"
      BY <1>1, <1>4, <2>1
    <2> QED
      BY <1>3, <2>2
  <1>7. CASE R = {} /\ Q = {}
    <2>1. Cardinality(R) = 0 /\ Cardinality(Q) = 0
      BY <1>4, <1>7
    <2>2. W = IF cache[e].state = "PENDING" THEN 1 ELSE 0
      BY <1>1, <1>2, <1>3, <1>7
    <2> QED
      BY <1>3, <2>1, <2>2
  <1> QED
    BY <1>5, <1>6, <1>7

-----------------------------------------------------------------------------
(* The keys of the entries.                                                    *)

\* The resolver and the teardowns never write a key, and take no FREE entry.
LEMMA KeysKept ==
    ASSUME TypeOK,
           WorkerStep \/ \E m \in Maps : TrackAdd(m) \/ nv_dbell_bar1_track_remove(m)
    PROVE  /\ \A e \in Entries : cache'[e].key = cache[e].key
           /\ \A e \in Entries : cache'[e].state # "FREE" =>
                 cache[e].state # "FREE" \/ (Busy /\ worker.e = e)
  <1>1. CASE Take \/ ResolveChannel \/ LookupUserd \/ LookupRing
    BY <1>1, Takes, Works
  <1>2. CASE Publish
    BY <1>2, Publishes DEF Busy
  <1>3. ASSUME NEW m \in Maps, TrackAdd(m) \/ Untrack(m) \/ Iounmap(m) \/ InvalidateTest(m)
        PROVE  UNCHANGED cache
    BY <1>3, Remaps, Tests
  <1>4. ASSUME NEW m \in Maps, InvalidateStore(m)
        PROVE  \A e \in Entries : /\ cache'[e].key = cache[e].key
                                  /\ cache'[e].state # "FREE" => cache[e].state # "FREE"
    BY <1>4, Parks
  <1> QED
    BY <1>1, <1>2, <1>3, <1>4 DEF WorkerStep, nv_dbell_bar1_track_remove

LEMMA InitKey == Init => KeyInv
  BY IdleTypes DEF Init, KeyInv, Busy, HasKey, IdleThread, IdleWorker, FreeEntry

LEMMA NextKey == TypeOK /\ KeyInv /\ [Next]_vars => KeyInv'
  <1> SUFFICES ASSUME TypeOK, KeyInv, [Next]_vars PROVE KeyInv'
    OBVIOUS
  <1>0. /\ \A u \in Threads : th[u].e \in Entries
        /\ \A j \in DOMAIN queue : queue[j] \in Entries
        /\ worker.e \in Entries
    BY DEF TypeOK, Thread, Resolver
  <1>1. CASE UNCHANGED <<shared, th>>
    BY <1>1 DEF shared, KeyInv, HasKey, Filling, Busy
  <1>2. ASSUME NEW t \in Threads, LocalStep(t), UNCHANGED shared PROVE KeyInv'
    <2>1. /\ Stays(t) /\ ~Reserving(t) /\ th'[t].pc \notin {"fill", "enqueue"}
          /\ Begins(t) \/ Left(t) \/ (Kept(t) /\ th[t].pc \notin {"idle", "forward"})
      BY <1>2, LocalMoves
    <2>2. \A u \in Threads : th'[u].pc \notin {"idle", "forward"} => th'[u].key \in Keys
      BY <2>1 DEF KeyInv, Stays, Begins, Left, Kept
    <2>3. \A u \in Threads : th'[u].pc = "enqueue" => th[u].pc = "enqueue" /\ th'[u].e = th[u].e
      BY <2>1 DEF Stays
    <2>4. \A e \in Entries : Filling(e) => Filling(e)'
      BY <2>1 DEF Filling, Stays, Reserving
    <2>5. UNCHANGED <<cache, queue, worker, Busy>> /\ \A e \in Entries : HasKey(e)' <=> HasKey(e)
      BY <1>2 DEF shared, Busy, HasKey
    <2> QED
      BY <1>0, <2>2, <2>3, <2>4, <2>5 DEF KeyInv
  <1>3. ASSUME NEW t \in Threads, ReserveWon(t) PROVE KeyInv'
    <2>1. /\ Stays(t) /\ th[t].pc = "reserve" /\ th'[t].pc = "fill" /\ th'[t].key = th[t].key
          /\ th'[t].e = th[t].i
          /\ \A e \in Entries : cache'[e].key = cache[e].key
          /\ \A e \in Entries : e # th[t].i => cache'[e] = cache[e]
          /\ UNCHANGED <<queue, worker, Busy>>
      BY <1>3, Reserves DEF Kept, Busy
    <2>2. \A u \in Threads : th'[u].pc \notin {"idle", "forward"} => th'[u].key \in Keys
      BY <2>1 DEF KeyInv, Stays
    <2>3. \A u \in Threads : th'[u].pc = "enqueue" => th[u].pc = "enqueue" /\ th'[u].e = th[u].e
      BY <2>1 DEF Stays
    <2>4. \A e \in Entries : Filling(e) \/ e = th[t].i => Filling(e)'
      BY <2>1 DEF Filling, Stays
    <2>5. \A e \in Entries : HasKey(e)' <=> HasKey(e)
      BY <2>1 DEF HasKey
    <2> QED
      BY <1>0, <2>1, <2>2, <2>3, <2>4, <2>5 DEF KeyInv
  <1>4. ASSUME NEW t \in Threads, Fill(t) PROVE KeyInv'
    <2>1. /\ Stays(t) /\ th[t].pc = "fill" /\ th'[t].pc = "enqueue" /\ th'[t].key = th[t].key
          /\ th'[t].e = th[t].e /\ th[t].e \in Entries
          /\ cache'[th[t].e].key = th[t].key
          /\ \A e \in Entries : e # th[t].e => cache'[e] = cache[e]
          /\ UNCHANGED <<queue, worker, Busy>>
      BY <1>4, Fills DEF Kept, Busy
    <2>2. \A u \in Threads : th'[u].pc \notin {"idle", "forward"} => th'[u].key \in Keys
      BY <2>1 DEF KeyInv, Stays
    <2>3. /\ cache'[th[t].e].key \in Keys
          /\ \A e \in Entries : cache[e].key \in Keys => cache'[e].key \in Keys
      <3>1. th[t].key \in Keys
        BY <2>1 DEF KeyInv
      <3> QED
        BY <2>1, <3>1
    <2>4. \A u \in Threads : u # t => th'[u] = th[u]
      BY <2>1 DEF Stays
    <2>5. \A u \in Threads : th'[u].pc = "enqueue" => cache'[th'[u].e].key \in Keys
      <3> SUFFICES ASSUME NEW u \in Threads, u # t, th'[u].pc = "enqueue"
                   PROVE  cache'[th[u].e].key \in Keys
        BY <2>1, <2>3, <2>4
      <3> QED
        BY <1>0, <2>3, <2>4 DEF KeyInv, HasKey
    <2>6. \A e \in Entries : cache'[e].state # "FREE" => cache'[e].key \in Keys \/ Filling(e)'
      <3> SUFFICES ASSUME NEW e \in Entries, cache'[e].state # "FREE", cache'[e].key \notin Keys
                   PROVE  Filling(e)'
        OBVIOUS
      <3>1. e # th[t].e
        BY <2>3
      <3>2. cache[e].state # "FREE" /\ cache[e].key \notin Keys
        BY <2>1, <2>3, <3>1
      <3>3. Filling(e)
        BY <3>2 DEF KeyInv, HasKey
      <3> QED
        BY <2>4, <3>1, <3>3 DEF Filling
    <2>7. \A j \in DOMAIN queue' : cache'[queue'[j]].key \in Keys
      BY <1>0, <2>1, <2>3 DEF KeyInv, HasKey
    <2>8. Busy' => cache'[worker'.e].key \in Keys
      BY <1>0, <2>1, <2>3 DEF KeyInv, HasKey
    <2> QED
      BY <2>2, <2>5, <2>6, <2>7, <2>8 DEF KeyInv, HasKey
  <1>5. ASSUME NEW t \in Threads, EnqueueOk(t) PROVE KeyInv'
    <2>1. /\ Stays(t) /\ th[t].pc = "enqueue" /\ th'[t].pc \in {"idle", "forward"}
          /\ UNCHANGED <<cache, worker, Busy>>
      BY <1>5, Schedules DEF Left, Busy
    <2>2. \A j \in DOMAIN queue' : queue'[j] = th[t].e \/ (j \in DOMAIN queue /\ queue'[j] = queue[j])
      BY <1>5, Schedules
    <2>3. \A u \in Threads : u # t => th'[u] = th[u]
      BY <2>1 DEF Stays
    <2>4. \A e \in Entries : Filling(e) => Filling(e)'
      BY <2>1, <2>3 DEF Filling
    <2> QED
      BY <1>0, <2>1, <2>2, <2>3, <2>4 DEF KeyInv, HasKey
  <1>6. ASSUME NEW t \in Threads, EnqueueFail(t) PROVE KeyInv'
    <2>1. /\ Stays(t) /\ th[t].pc = "enqueue" /\ th'[t].pc \in {"idle", "forward"}
          /\ \A e \in Entries : cache'[e].key = cache[e].key
          /\ \A e \in Entries : cache'[e].state # "FREE" => cache'[e] = cache[e]
          /\ UNCHANGED <<queue, worker, Busy>>
      BY <1>6, Rollbacks DEF Left, Busy
    <2>2. \A u \in Threads : u # t => th'[u] = th[u]
      BY <2>1 DEF Stays
    <2>3. \A e \in Entries : Filling(e) => Filling(e)'
      BY <2>1, <2>2 DEF Filling
    <2> QED
      BY <1>0, <2>1, <2>2, <2>3 DEF KeyInv, HasKey
  <1>7. ASSUME WorkerStep, UNCHANGED th PROVE KeyInv'
    <2>1. /\ \A e \in Entries : cache'[e].key = cache[e].key
          /\ \A e \in Entries : cache'[e].state # "FREE" =>
                 cache[e].state # "FREE" \/ (Busy /\ worker.e = e)
      BY <1>7, KeysKept
    <2>2. \A e \in Entries : (HasKey(e)' <=> HasKey(e)) /\ (Filling(e)' <=> Filling(e))
      BY <1>7, <2>1 DEF HasKey, Filling
    <2>3. \A j \in DOMAIN queue' : \E l \in DOMAIN queue : queue'[j] = queue[l]
      <3>1. CASE Take
        <4>1. \A j \in DOMAIN queue' : j + 1 \in DOMAIN queue /\ queue'[j] = queue[j + 1]
          BY <3>1, Takes
        <4> QED
          BY <4>1
      <3>2. CASE ResolveChannel \/ LookupUserd \/ LookupRing \/ Publish
        <4>1. UNCHANGED queue
          BY <3>2, Works, Publishes
        <4> QED
          BY <4>1
      <3> QED
        BY <1>7, <3>1, <3>2 DEF WorkerStep
    <2>4. Busy' => (Busy /\ worker'.e = worker.e) \/ \E l \in DOMAIN queue : worker'.e = queue[l]
      <3>1. CASE Take
        <4>1. 1 \in DOMAIN queue /\ worker'.e = queue[1]
          BY <3>1, Takes
        <4> QED
          BY <4>1
      <3>2. CASE ResolveChannel \/ LookupUserd \/ LookupRing \/ Publish
        BY <3>2, Works, Publishes
      <3> QED
        BY <1>7, <3>1, <3>2 DEF WorkerStep
    <2>5. \A j \in DOMAIN queue' : cache'[queue'[j]].key \in Keys
      BY <1>0, <2>1, <2>3 DEF KeyInv, HasKey
    <2>6. Busy' => cache'[worker'.e].key \in Keys
      BY <1>0, <2>1, <2>4 DEF KeyInv, HasKey
    <2>7. \A u \in Threads : th'[u].pc = "enqueue" => cache'[th'[u].e].key \in Keys
      BY <1>0, <1>7, <2>1 DEF KeyInv, HasKey
    <2>8. \A e \in Entries : cache'[e].state # "FREE" => HasKey(e)' \/ Filling(e)'
      BY <2>1, <2>2 DEF KeyInv
    <2> QED
      BY <1>7, <2>5, <2>6, <2>7, <2>8 DEF KeyInv, HasKey
  <1>8. ASSUME NEW m \in Maps, TrackAdd(m) \/ nv_dbell_bar1_track_remove(m), UNCHANGED th
        PROVE  KeyInv'
    <2>1. /\ \A e \in Entries : cache'[e].key = cache[e].key
          /\ \A e \in Entries : cache'[e].state # "FREE" =>
                 cache[e].state # "FREE" \/ (Busy /\ worker.e = e)
      BY <1>8, KeysKept
    <2>2. \A e \in Entries : (HasKey(e)' <=> HasKey(e)) /\ (Filling(e)' <=> Filling(e))
      BY <1>8, <2>1 DEF HasKey, Filling
    <2>3. UNCHANGED <<queue, worker, Busy>>
      BY <1>8, Remaps, Tests, Parks DEF nv_dbell_bar1_track_remove, Busy
    <2>4. \A j \in DOMAIN queue' : cache'[queue'[j]].key \in Keys
      BY <1>0, <2>1, <2>3 DEF KeyInv, HasKey
    <2>5. Busy' => cache'[worker'.e].key \in Keys
      BY <1>0, <2>1, <2>3 DEF KeyInv, HasKey
    <2>6. \A u \in Threads : th'[u].pc = "enqueue" => cache'[th'[u].e].key \in Keys
      BY <1>0, <1>8, <2>1 DEF KeyInv, HasKey
    <2>7. \A e \in Entries : cache'[e].state # "FREE" => HasKey(e)' \/ Filling(e)'
      BY <2>1, <2>2 DEF KeyInv
    <2> QED
      BY <1>8, <2>4, <2>5, <2>6, <2>7 DEF KeyInv, HasKey
  <1> QED
    BY <1>1, <1>2, <1>3, <1>4, <1>5, <1>6, <1>7, <1>8, StepKinds

\* Whoever is at work on an entry finds a channel in it: nv_dbell_cache_reserve and
\* invalidation never leave an entry without a key in the hands of the resolver.
THEOREM KeysSettled == Spec => []KeyInv
  BY TypeCorrect, InitKey, NextKey, PTL DEF Spec

-----------------------------------------------------------------------------
(* Teardown while no doorbell is handled.                                      *)

LEMMA InitQuiesced == Init => QuiescedInv
  <1> SUFFICES ASSUME Init PROVE QuiescedInv
    OBVIOUS
  <1>1. NULL \notin Maps
    BY NullAssumption DEF Kva
  <1>2. TrackedInv
    BY DEF Init, TrackedInv, Rows
  <1>3. ResolverInv
    BY <1>1 DEF Init, ResolverInv, Safe, IdleWorker
  <1>4. EntryInv
    BY DEF Init, EntryInv, FreeEntry
  <1>5. HandlerInv
    BY DEF Init, HandlerInv, IdleThread
  <1> QED
    BY <1>2, <1>3, <1>4, <1>5 DEF QuiescedInv

LEMMA LocalQuiesced ==
    ASSUME Quiesced, TypeOK, QuiescedInv, NEW t \in Threads, LocalStep(t), UNCHANGED shared
    PROVE  QuiescedInv'
  <1>1. UNCHANGED <<cache, bar1, vma, worker>> /\ (TearingDown' <=> TearingDown)
    BY DEF shared, TearingDown
  <1>2. \A p : Safe(p)' <=> Safe(p)
    BY <1>1 DEF Safe
  <1>3. TrackedInv' /\ ResolverInv' /\ EntryInv'
    BY <1>1 DEF QuiescedInv, TrackedInv, ResolverInv, EntryInv, Safe, Unscanned
  <1>4. /\ Stays(t)
        /\ \/ Begins(t)
           \/ Left(t) /\ th[t].pc # "idle"
           \/ Kept(t) /\ th[t].pc \notin {"idle", "forward"}
    BY LocalMoves
  <1>5. th[t].op \in {"db", "reg"} /\ th[t].e \in Entries
    BY DEF TypeOK, Thread
  <1>6. (\E u \in Threads : th'[u].pc # "idle" /\ th'[u].op = "db") => ~TearingDown'
    <2> SUFFICES ASSUME NEW u \in Threads, th'[u].pc # "idle", th'[u].op = "db"
                 PROVE  ~TearingDown
      BY <1>1
    <2>1. CASE u # t
      BY <1>4, <2>1 DEF Stays, QuiescedInv, HandlerInv
    <2>2. CASE u = t /\ Begins(t)
      BY <2>2 DEF Begins
    <2>3. CASE u = t /\ ~Begins(t)
      <3>1. th[t].pc # "idle" /\ th[t].op = "db"
        BY <1>4, <2>3 DEF Left, Kept
      <3> QED
        BY <3>1 DEF QuiescedInv, HandlerInv
    <2> QED
      BY <2>1, <2>2, <2>3
  <1> DEFINE OK(u) ==
          /\ th[u].pc \in {"state", "load", "gpput", "ring", "forward"} => th[u].op = "db"
          /\ th[u].pc \in {"load", "gpput", "ring"} =>
                Safe(cache[th[u].e].userd) /\ Safe(cache[th[u].e].gpfifo)
          /\ th[u].pc \in {"gpput", "ring"} => th[u].ptr # NULL /\ Safe(th[u].ptr)
  <1>7. \A u \in Threads : OK(u)
    BY DEF QuiescedInv, HandlerInv
  <1>8. Left(t) \/ Begins(t) => OK(t)'
    BY DEF Left, Begins
  <1>9. OK(t)'
    <2>1. CASE FindHit(t)
      BY <1>5, <1>8, <2>1, FindHits DEF Kept
    <2>2. CASE FindNext(t)
      <3>1. th'[t].pc \in {"find", "reserve"}
        BY <2>2, Advances DEF FindNext
      <3> QED
        BY <3>1
    <2>3. CASE ReserveNext(t)
      <3>1. Leave(t) \/ Advance(t, "reserve")
        BY <2>3 DEF ReserveNext
      <3>2. CASE Leave(t)
        BY <1>8, <3>2, Leaves
      <3>3. CASE Advance(t, "reserve")
        <4>1. th'[t].pc = "reserve"
          BY <2>3, <3>3, Advances DEF ReserveNext
        <4> QED
          BY <4>1
      <3> QED
        BY <3>1, <3>2, <3>3
    <2>4. CASE CheckState(t)
      <3>1. CASE Leave(t)
        BY <1>8, <3>1, Leaves
      <3>2. CASE ~Leave(t)
        <4>1. cache[th[t].e].state = "RESOLVED" /\ Goto(t, "load") /\ th[t].pc = "state"
          BY <2>4, <3>2 DEF CheckState
        <4>2. th'[t].pc = "load" /\ th'[t].e = th[t].e /\ th'[t].op = th[t].op
          BY <4>1, Goes DEF Kept
        <4>3. th[t].op = "db"
          BY <1>7, <4>1
        <4>4. ~TearingDown
          BY <4>1, <4>3 DEF QuiescedInv, HandlerInv
        <4>5. Safe(cache[th[t].e].userd) /\ Safe(cache[th[t].e].gpfifo)
          BY <1>5, <4>1, <4>4 DEF QuiescedInv, EntryInv, Unscanned, Safe, TearingDown
        <4> QED
          BY <1>1, <4>2, <4>3, <4>5 DEF Safe
      <3> QED
        BY <3>1, <3>2
    <2>5. CASE LoadUserd(t)
      <3>1. CASE Left(t)
        BY <1>8, <3>1
      <3>2. CASE ~Left(t)
        <4>1. /\ th[t].pc = "load" /\ th'[t].pc = "gpput" /\ th'[t].op = th[t].op
              /\ th'[t].e = th[t].e
              /\ th'[t].ptr = cache[th[t].e].userd /\ th'[t].ptr # NULL
          BY <2>5, <3>2, Loads DEF LoadUserd, Kept
        <4> QED
          BY <1>1, <1>7, <4>1 DEF Safe
      <3> QED
        BY <3>1, <3>2
    <2>6. CASE ReadGpPut(t)
      <3>1. CASE Left(t)
        BY <1>8, <3>1
      <3>2. CASE ~Left(t)
        <4>1. /\ th[t].pc = "gpput" /\ th'[t].pc = "ring" /\ th'[t].op = th[t].op
              /\ th'[t].e = th[t].e
              /\ th'[t].ptr = cache[th[t].e].gpfifo /\ th'[t].ptr # NULL
          BY <2>6, <3>2, Reads DEF ReadGpPut, Kept
        <4> QED
          BY <1>1, <1>7, <4>1 DEF Safe
      <3> QED
        BY <3>1, <3>2
    <2>7. CASE ReadRing(t)
      BY <1>8, <2>7, Leaves DEF ReadRing
    <2>8. CASE Forward(t)
      <3>1. th'[t].pc = "idle"
        BY <2>8 DEF Forward, TypeOK, IdleThread
      <3> QED
        BY <3>1
    <2> QED
      BY <1>8, <2>1, <2>2, <2>3, <2>4, <2>5, <2>6, <2>7, <2>8 DEF LocalStep
  <1>10. \A u \in Threads : u # t => OK(u)'
    BY <1>1, <1>4, <1>7 DEF Stays, Safe
  <1>11. \A u \in Threads : OK(u)'
    BY <1>9, <1>10
  <1>12. HandlerInv'
    BY <1>6, <1>11 DEF HandlerInv
  <1> QED
    BY <1>3, <1>12 DEF QuiescedInv

\* The writes of a thread: no pointer is stored, no entry becomes RESOLVED.
LEMMA WriteQuiesced ==
    ASSUME TypeOK, QuiescedInv,
           NEW t \in Threads, ReserveWon(t) \/ Fill(t) \/ EnqueueOk(t) \/ EnqueueFail(t)
    PROVE  QuiescedInv'
  <1>0. NULL \notin Maps /\ \A u \in Threads : th[u].e \in Entries
    BY NullAssumption DEF Kva, TypeOK, Thread
  <1>1. /\ UNCHANGED <<bar1, vma, worker>> /\ Stays(t) /\ th[t].pc # "idle"
        /\ \/ Left(t)
           \/ th'[t].pc \in {"fill", "enqueue"} /\ th'[t].op = th[t].op
    BY Reserves, Fills, Schedules, Rollbacks DEF Left, Kept
  <1>2. \A e \in Entries :
            /\ cache'[e].state = "RESOLVED" => cache'[e] = cache[e]
            /\ cache'[e].userd = cache[e].userd \/ cache'[e].userd = NULL
            /\ cache'[e].gpfifo = cache[e].gpfifo \/ cache'[e].gpfifo = NULL
    <2>1. CASE ReserveWon(t)
      BY <2>1, Reserves
    <2>2. CASE Fill(t)
      BY <2>2, Fills
    <2>3. CASE EnqueueOk(t)
      BY <2>3, Schedules
    <2>4. CASE EnqueueFail(t)
      BY <2>4, Rollbacks
    <2> QED
      BY <2>1, <2>2, <2>3, <2>4
  <1>3. TrackedInv' /\ ResolverInv'
    BY <1>1 DEF QuiescedInv, TrackedInv, ResolverInv, Safe
  <1>4. EntryInv'
    <2> SUFFICES ASSUME NEW e \in Entries, cache'[e].state = "RESOLVED"
                 PROVE  /\ cache'[e].userd # NULL
                        /\ cache'[e].userd \in Maps => Unscanned(cache'[e].userd, e)
                        /\ cache'[e].gpfifo \in Maps => Unscanned(cache'[e].gpfifo, e)
      BY <1>1 DEF EntryInv, Unscanned
    <2> QED
      BY <1>2 DEF QuiescedInv, EntryInv
  <1>5. (\E u \in Threads : th'[u].pc # "idle" /\ th'[u].op = "db") => ~TearingDown'
    <2> SUFFICES ASSUME NEW u \in Threads, th'[u].pc # "idle", th'[u].op = "db"
                 PROVE  ~TearingDown
      BY <1>1 DEF TearingDown
    <2>1. th[u].pc # "idle" /\ th[u].op = "db"
      BY <1>1 DEF Stays, Left
    <2> QED
      BY <2>1 DEF QuiescedInv, HandlerInv
  <1>6. ASSUME NEW u \in Threads
        PROVE  /\ th'[u].pc \in {"state", "load", "gpput", "ring", "forward"} => th'[u].op = "db"
               /\ th'[u].pc \in {"load", "gpput", "ring"} =>
                     Safe(cache'[th'[u].e].userd) /\ Safe(cache'[th'[u].e].gpfifo)
               /\ th'[u].pc \in {"gpput", "ring"} => th'[u].ptr # NULL /\ Safe(th'[u].ptr)
    <2>1. CASE u = t
      BY <1>1, <2>1 DEF Left
    <2>2. CASE u # t
      <3>1. th'[u] = th[u]
        BY <1>1, <2>2 DEF Stays
      <3>2. \A e \in Entries : /\ Safe(cache[e].userd) => Safe(cache'[e].userd)
                               /\ Safe(cache[e].gpfifo) => Safe(cache'[e].gpfifo)
        BY <1>0, <1>2 DEF Safe
      <3> QED
        BY <1>0, <3>1, <3>2 DEF QuiescedInv, HandlerInv
    <2> QED
      BY <2>1, <2>2
  <1>7. HandlerInv'
    BY <1>1, <1>5, <1>6 DEF HandlerInv, Safe
  <1> QED
    BY <1>3, <1>4, <1>7 DEF QuiescedInv

\* The resolver: what it looks up is tracked, so it is mapped.
LEMMA WorkerQuiesced ==
    ASSUME TypeOK, QuiescedInv, WorkerStep, UNCHANGED th
    PROVE  QuiescedInv'
  <1>0. /\ NULL \notin Maps /\ Direct \notin Maps /\ worker \in Resolver
        /\ \A u \in Threads : th[u].e \in Entries
    BY NullAssumption DEF Kva, TypeOK, Thread
  <1>1. CASE Take \/ ResolveChannel \/ LookupUserd \/ LookupRing
    <2>1. UNCHANGED <<cache, bar1, vma, th>>
      BY <1>1, Takes, Works
    <2>2. TrackedInv' /\ EntryInv' /\ HandlerInv'
      BY <2>1 DEF QuiescedInv, TrackedInv, EntryInv, HandlerInv, Safe, Unscanned, TearingDown
    <2>3. \A j \in Rows : Safe(bar1[j])
      BY <1>0 DEF QuiescedInv, TrackedInv, Safe
    <2>4. ASSUME NEW p, p = NULL \/ \E j \in Rows : p = bar1[j] PROVE Safe(p)
      BY <1>0, <2>3, <2>4 DEF Safe
    <2>5. ResolverInv'
      <3>1. CASE Take
        BY <1>0, <3>1, Takes DEF ResolverInv, Safe
      <3>2. CASE ResolveChannel
        <4> DEFINE k == cache[worker.e].key
        <4>1. worker.userd \notin Maps /\ worker.gpfifo \notin Maps
          BY <3>2 DEF ResolveChannel, QuiescedInv, ResolverInv
        <4>2. worker'.gpfifo = worker.gpfifo
          BY <1>0, <3>2 DEF ResolveChannel, Resolver
        <4>3. worker'.userd = worker.userd \/ worker'.userd \in {Direct, NULL}
          <5>1. k \in Keys => UserdFromRm(k) \subseteq {Direct, NULL}
            BY LayoutAssumption DEF UserdFromRm
          <5> QED
            BY <1>0, <3>2, <5>1 DEF ResolveChannel, Resolver
        <4> QED
          BY <1>0, <4>1, <4>2, <4>3 DEF ResolverInv, Safe
      <3>3. CASE LookupUserd
        <4>1. worker.gpfifo \notin Maps /\ worker.userd \notin Maps
          BY <3>3 DEF LookupUserd, QuiescedInv, ResolverInv
        <4> DEFINE p == nv_dbell_bar1_offset_kva(cache[worker.e].key)
        <4>2. Safe(p)
          BY <2>4, OffsetKva
        <4> HIDE DEF p
        <4>3. /\ worker'.pc = "gpfifo" /\ worker'.gpfifo = worker.gpfifo
              /\ worker'.userd = p \/ worker'.userd = worker.userd
          BY <1>0, <3>3 DEF LookupUserd, Resolver, p
        <4> QED
          BY <2>1, <4>1, <4>2, <4>3 DEF ResolverInv, Safe
      <3>4. CASE LookupRing
        <4>1. Safe(worker.userd)
          BY DEF QuiescedInv, ResolverInv
        <4> DEFINE p == nv_dbell_bar1_gpu_va_to_kva(cache[worker.e].key)
        <4>2. Safe(p)
          BY <2>4, RingKva
        <4> HIDE DEF p
        <4>3. /\ worker'.pc = "publish" /\ worker'.userd = worker.userd
              /\ worker'.gpfifo = p \/ worker'.gpfifo = NULL
          BY <1>0, <3>4 DEF LookupRing, Resolver, p
        <4> QED
          BY <1>0, <2>1, <4>1, <4>2, <4>3 DEF ResolverInv, Safe
      <3> QED
        BY <1>1, <3>1, <3>2, <3>3, <3>4
    <2> QED
      BY <2>2, <2>5 DEF QuiescedInv
  <1>2. CASE Publish
    <2> DEFINE x == worker.e
    <2>1. /\ UNCHANGED <<bar1, vma, th>> /\ x \in Entries
          /\ worker'.userd = NULL /\ worker'.gpfifo = NULL
          /\ \A e \in Entries : e # x => cache'[e] = cache[e]
          /\ \/ /\ cache'[x].state = "RESOLVED" /\ worker.userd # NULL
                /\ cache'[x].userd = worker.userd /\ cache'[x].gpfifo = worker.gpfifo
             \/ /\ cache'[x].state # "RESOLVED"
                /\ cache'[x].userd = cache[x].userd /\ cache'[x].gpfifo = cache[x].gpfifo
      BY <1>2, Publishes
    <2>2. Safe(worker.userd) /\ Safe(worker.gpfifo)
      BY DEF QuiescedInv, ResolverInv
    <2> HIDE DEF x
    <2>3. TrackedInv' /\ ResolverInv'
      BY <1>0, <2>1 DEF QuiescedInv, TrackedInv, ResolverInv, Safe
    <2>4. EntryInv'
      <3> SUFFICES ASSUME NEW e \in Entries, cache'[e].state = "RESOLVED"
                   PROVE  /\ cache'[e].userd # NULL
                          /\ cache'[e].userd \in Maps => Unscanned(cache'[e].userd, e)
                          /\ cache'[e].gpfifo \in Maps => Unscanned(cache'[e].gpfifo, e)
        BY <2>1 DEF EntryInv, Unscanned
      <3>1. CASE e = x
        BY <2>1, <2>2, <3>1 DEF Safe, Unscanned
      <3>2. CASE e # x
        BY <2>1, <3>2 DEF QuiescedInv, EntryInv
      <3> QED
        BY <3>1, <3>2
    <2>5. \A e \in Entries : /\ Safe(cache[e].userd) => Safe(cache'[e].userd)
                             /\ Safe(cache[e].gpfifo) => Safe(cache'[e].gpfifo)
      BY <2>1, <2>2
    <2>6. HandlerInv'
      BY <1>0, <2>1, <2>5 DEF QuiescedInv, HandlerInv, Safe, TearingDown
    <2> QED
      BY <2>3, <2>4, <2>6 DEF QuiescedInv
  <1> QED
    BY <1>1, <1>2 DEF WorkerStep

\* While a mapping is torn down nobody is decoding.
LEMMA TeardownAlone ==
    ASSUME HandlerInv, UNCHANGED th,
           TearingDown \/ \A t \in Threads : th[t].pc = "idle" \/ th[t].op = "reg",
           \A t \in Threads : th[t].op \in {"db", "reg"}
    PROVE  HandlerInv'
  <1>1. \A t \in Threads : th[t].pc = "idle" \/ th[t].op = "reg"
    BY DEF HandlerInv
  <1> QED
    BY <1>1 DEF HandlerInv

\* A teardown moves on from entry x of its scan, which does not point into m or
\* has just been parked.
LEMMA ScanGoesOn ==
    ASSUME TypeOK, QuiescedInv, NEW m \in Maps, NextEntry(m), vma[m].st \in {"scan", "hit"},
           \A e \in Entries : cache'[e].state = "RESOLVED" =>
               cache'[e] = cache[e] /\ ~(e = vma[m].i /\ PointsInto(e, m))
    PROVE  EntryInv'
  <1>1. /\ OtherMaps(m) /\ vma[m].i \in Entries /\ CacheSize \in Nat
        /\ \/ vma[m].i < CacheSize /\ vma'[m].st = "scan" /\ vma'[m].i = vma[m].i + 1
           \/ ~(vma[m].i < CacheSize) /\ vma'[m].st = "unmap"
    BY NextEntries
  <1> SUFFICES ASSUME NEW e \in Entries, cache'[e].state = "RESOLVED"
               PROVE  /\ cache'[e].userd # NULL
                      /\ cache'[e].userd \in Maps => Unscanned(cache[e].userd, e)'
                      /\ cache'[e].gpfifo \in Maps => Unscanned(cache[e].gpfifo, e)'
    BY DEF EntryInv, Unscanned
  <1>2. cache'[e] = cache[e] /\ cache[e].state = "RESOLVED"
    OBVIOUS
  <1>3. ASSUME NEW n \in Maps, Unscanned(n, e), PointsInto(e, n) PROVE Unscanned(n, e)'
    <2>1. CASE n # m
      BY <1>1, <1>3, <2>1 DEF OtherMaps, Unscanned
    <2>2. CASE n = m
      <3>1. e # vma[m].i /\ vma[m].i <= e
        BY <1>3, <2>2 DEF Unscanned
      <3>2. vma[m].i < CacheSize /\ vma[m].i + 1 <= e
        BY <1>1, <3>1 DEF Entries
      <3> QED
        BY <1>1, <2>2, <3>2 DEF Unscanned
    <2> QED
      BY <2>1, <2>2
  <1>4. /\ cache[e].userd # NULL
        /\ cache[e].userd \in Maps => Unscanned(cache[e].userd, e)
        /\ cache[e].gpfifo \in Maps => Unscanned(cache[e].gpfifo, e)
    BY <1>2 DEF QuiescedInv, EntryInv
  <1>5. ASSUME NEW n \in Maps, Unscanned(n, e), PointsInto(e, n)
        PROVE  \/ vma'[n].st = "mapped"
               \/ vma'[n].st \in {"scan", "hit"} /\ vma'[n].i <= e
    BY <1>3, <1>5 DEF Unscanned
  <1>6. cache[e].userd \in Maps => PointsInto(e, cache[e].userd)
    BY DEF PointsInto
  <1>7. cache[e].gpfifo \in Maps => PointsInto(e, cache[e].gpfifo)
    BY DEF PointsInto
  <1> QED
    BY <1>2, <1>4, <1>5, <1>6, <1>7 DEF Unscanned

LEMMA MappingQuiesced ==
    ASSUME Quiesced, TypeOK, QuiescedInv, UNCHANGED th,
           NEW m \in Maps, TrackAdd(m) \/ nv_dbell_bar1_track_remove(m)
    PROVE  QuiescedInv'
  <1>0. /\ NULL \notin Maps /\ \A t \in Threads : th[t].op \in {"db", "reg"} /\ th[t].e \in Entries
        /\ \A j \in Rows : bar1[j] \in Maps \cup {NULL}
        /\ vma[m].i \in Entries
    BY NullAssumption DEF Kva, TypeOK, Thread, Rows, Mapping
  <1>1. CASE TrackAdd(m)
    <2>1. /\ OtherMaps(m) /\ vma[m].st = "off" /\ vma'[m].st \in {"mapped", "dead"}
          /\ vma'[m].i = vma[m].i /\ UNCHANGED <<cache, worker>>
      BY <1>1, Remaps DEF TrackAdd
    <2>2. \A j \in Rows : bar1'[j] = bar1[j] \/ (bar1'[j] = m /\ vma'[m].st = "mapped")
      BY <1>1 DEF TrackAdd, TypeOK, Rows, Mapping
    <2>3. TrackedInv'
      BY <1>0, <2>1, <2>2 DEF QuiescedInv, TrackedInv, OtherMaps
    <2>4. \A n \in Maps : /\ vma[n].st = "mapped" => vma'[n].st = "mapped"
                          /\ \A e \in Entries : Unscanned(n, e) => Unscanned(n, e)'
      BY <2>1 DEF OtherMaps, Unscanned
    <2>5. ResolverInv' /\ EntryInv'
      <3>1. ResolverInv'
        BY <2>1, <2>4 DEF QuiescedInv, ResolverInv, Safe
      <3>2. EntryInv'
        BY <2>1, <2>4 DEF QuiescedInv, EntryInv, Unscanned
      <3> QED
        BY <3>1, <3>2
    <2>6. TearingDown' => TearingDown
      BY <2>1 DEF TearingDown, OtherMaps
    <2>7. HandlerInv'
      BY <2>1, <2>4, <2>6 DEF QuiescedInv, HandlerInv, Safe
    <2> QED
      BY <2>3, <2>5, <2>7 DEF QuiescedInv
  <1>2. CASE Untrack(m)
    <2>1. /\ OtherMaps(m) /\ vma[m].st = "mapped" /\ vma'[m].st = "scan"
          /\ vma'[m].i = vma[m].i /\ UNCHANGED <<cache, worker>> /\ DoorbellsStopped
      BY <1>2, Remaps DEF Untrack
    <2>2. \A j \in Rows : bar1'[j] = NULL \/ (bar1'[j] = bar1[j] /\ bar1[j] # m)
      BY <1>2 DEF Untrack
    <2>3. TrackedInv'
      BY <1>0, <2>1, <2>2 DEF QuiescedInv, TrackedInv, OtherMaps
    <2>4. ResolverInv'
      BY <2>1 DEF QuiescedInv, ResolverInv, DoorbellsStopped, Safe
    <2>5. vma[m].i = 1 /\ \A e \in Entries : 1 <= e
      BY <2>1 DEF QuiescedInv, TrackedInv, Entries
    <2>6. \A n \in Maps, e \in Entries : Unscanned(n, e) => Unscanned(n, e)'
      BY <2>1, <2>5 DEF Unscanned, OtherMaps
    <2>7. EntryInv'
      BY <2>1, <2>6 DEF QuiescedInv, EntryInv, Unscanned
    <2>8. HandlerInv'
      BY <1>0, <2>1, TeardownAlone DEF QuiescedInv, DoorbellsStopped
    <2> QED
      BY <2>3, <2>4, <2>7, <2>8 DEF QuiescedInv
  <1>3. CASE InvalidateTest(m) \/ InvalidateStore(m) \/ Iounmap(m)
    <2>1. /\ OtherMaps(m) /\ vma[m].st \in {"scan", "hit", "unmap"}
          /\ vma'[m].st \in {"scan", "hit", "unmap", "dead"}
          /\ UNCHANGED <<bar1, worker>>
      BY <1>3, Remaps, Tests, Parks, NextEntries DEF Iounmap
    <2>2. TearingDown
      BY <2>1 DEF TearingDown
    <2>3. \A n \in Maps : vma[n].st = "mapped" => vma'[n].st = "mapped"
      BY <2>1 DEF OtherMaps
    <2>4. TrackedInv'
      BY <1>0, <2>1, <2>3 DEF QuiescedInv, TrackedInv, OtherMaps
    <2>5. ResolverInv'
      BY <2>1, <2>3 DEF QuiescedInv, ResolverInv, Safe
    <2>6. HandlerInv'
      BY <1>0, <2>2, TeardownAlone DEF QuiescedInv
    <2>7. EntryInv'
      <3>1. CASE InvalidateStore(m)
        <4>1. /\ NextEntry(m) /\ vma[m].st = "hit"
              /\ \A e \in Entries : cache'[e].state = "RESOLVED" =>
                     cache'[e] = cache[e] /\ e # vma[m].i
          BY <3>1, Parks
        <4> QED
          BY <4>1, ScanGoesOn
      <3>2. CASE InvalidateTest(m) /\ NextEntry(m)
        <4>1. CASE vma'[m].st = "hit" /\ vma'[m].i = vma[m].i
          BY <3>2, <4>1, NextEntries
        <4>2. CASE ~(cache[vma[m].i].state = "RESOLVED" /\ PointsInto(vma[m].i, m))
          <5>1. vma[m].st = "scan" /\ UNCHANGED cache
            BY <3>2, Tests
          <5> QED
            BY <3>2, <4>2, <5>1, ScanGoesOn
        <4> QED
          BY <3>2, <4>1, <4>2, Tests
      <3>3. CASE InvalidateTest(m) /\ ~NextEntry(m)
        <4>1. vma[m].st = "scan" /\ vma'[m].st = "hit" /\ vma'[m].i = vma[m].i /\ UNCHANGED cache
          BY <3>3, Tests
        <4>2. \A n \in Maps, e \in Entries : Unscanned(n, e) => Unscanned(n, e)'
          BY <2>1, <4>1 DEF Unscanned, OtherMaps
        <4> QED
          BY <4>1, <4>2 DEF QuiescedInv, EntryInv, Unscanned
      <3>4. CASE Iounmap(m)
        <4>1. vma[m].st = "unmap" /\ UNCHANGED cache
          BY <3>4 DEF Iounmap
        <4>2. \A n \in Maps, e \in Entries : Unscanned(n, e) => Unscanned(n, e)'
          BY <2>1, <4>1 DEF Unscanned, OtherMaps
        <4> QED
          BY <4>1, <4>2 DEF QuiescedInv, EntryInv, Unscanned
      <3> QED
        BY <1>3, <3>1, <3>2, <3>3, <3>4
    <2> QED
      BY <2>4, <2>5, <2>6, <2>7 DEF QuiescedInv
  <1> QED
    BY <1>1, <1>2, <1>3 DEF nv_dbell_bar1_track_remove

LEMMA NextQuiesced ==
    ASSUME Quiesced
    PROVE  TypeOK /\ QuiescedInv /\ [Next]_vars => QuiescedInv'
  <1> SUFFICES ASSUME TypeOK, QuiescedInv, [Next]_vars PROVE QuiescedInv'
    OBVIOUS
  <1>1. CASE UNCHANGED <<shared, th>>
    BY <1>1 DEF shared, QuiescedInv, TrackedInv, ResolverInv, EntryInv, HandlerInv, Safe,
       Unscanned, TearingDown
  <1> QED
    BY <1>1, StepKinds, LocalQuiesced, WriteQuiesced, WorkerQuiesced, MappingQuiesced

\* When teardowns wait for the doorbells, QuiescedInv holds in every reachable state:
\* rows, the resolver's locals, entries not yet walked and a handler's pointers lead
\* into mappings that are mapped (nv_dbell_bar1_track_remove against the handler).
THEOREM QuiescedInvariance ==
    ASSUME Quiesced
    PROVE  Spec => []QuiescedInv
  <1>1. TypeOK /\ QuiescedInv /\ [Next]_vars => QuiescedInv'
    BY NextQuiesced
  <1> QED
    BY TypeCorrect, InitQuiesced, <1>1, PTL DEF Spec

\* When mappings are torn down only after the doorbells have stopped, no RESOLVED
\* entry ever points into an unmapped one: the walk of
\* nv_dbell_cache_invalidate_range misses no entry, and the resolver publishes no
\* pointer behind its back.
THEOREM NoDanglingEntryHolds ==
    ASSUME Quiesced
    PROVE  Spec => []NoDanglingEntry
  <1>1. TypeOK /\ QuiescedInv => NoDanglingEntry
    <2> SUFFICES ASSUME TypeOK, QuiescedInv, NEW e \in Entries, cache[e].state = "RESOLVED"
                 PROVE  /\ cache[e].userd # NULL /\ Live(cache[e].userd)
                        /\ cache[e].gpfifo # NULL => Live(cache[e].gpfifo)
      BY DEF NoDanglingEntry
    <2>1. cache[e].userd \in Maps \cup {Direct, NULL} /\ cache[e].gpfifo \in Maps \cup {Direct, NULL}
      BY DEF TypeOK, Entry, Ptr, Kva
    <2>2. \A n \in Maps : Unscanned(n, e) => Live(n)
      BY DEF Unscanned, Live
    <2>3. Live(Direct)
      BY DEF Live
    <2> QED
      BY <2>1, <2>2, <2>3 DEF QuiescedInv, EntryInv
  <1>2. Spec => []QuiescedInv
    BY QuiescedInvariance
  <1> QED
    BY TypeCorrect, <1>1, <1>2, PTL

-----------------------------------------------------------------------------
(* Teardowns that do not meet.                                                 *)

LEMMA InitReach == Init => ReachInv
  BY DEF Init, ReachInv, Busy, IdleWorker, FreeEntry, PointsInto

\* Two teardowns about to park one entry are both of mappings its channel reaches.
LEMMA ReachSerial ==
    ASSUME OneTeardownEach, TypeOK, OwnInv, KeyInv, ReachInv
    PROVE  SerialTeardown
  <1> SUFFICES ASSUME NEW m \in Maps, NEW n \in Maps, vma[m].st = "hit", vma[n].st = "hit",
                      vma[m].i = vma[n].i
               PROVE  m = n
    BY DEF SerialTeardown
  <1> DEFINE e == vma[m].i
  <1>1. e \in Entries /\ cache[e].state = "RESOLVED"
    BY DEF OwnInv, OwnedPending, TypeOK, Mapping
  <1>2. cache[e].key \in Keys
    <2>1. ~Filling(e)
      BY <1>1 DEF OwnInv, OwnedPending, Filling, Reserving
    <2> QED
      BY <1>1, <2>1 DEF KeyInv, HasKey
  <1>3. m \in Removable /\ n \in Removable /\ PointsInto(e, m) /\ PointsInto(e, n)
    BY DEF ReachInv
  <1>4. Reaches(cache[e].key, m) /\ Reaches(cache[e].key, n)
    BY <1>1, <1>3 DEF ReachInv
  <1> QED
    BY <1>2, <1>3, <1>4 DEF OneTeardownEach

\* A step that leaves the resolver's pointers and key alone, resolves no entry, and
\* touches no entry that a teardown is about to park.
LEMMA ReachKept ==
    ASSUME TypeOK, OwnInv, ReachInv, UNCHANGED worker,
           Busy => cache'[worker.e].key = cache[worker.e].key,
           \A e \in Entries : cache'[e].state = "RESOLVED" => cache'[e] = cache[e],
           \A m \in Maps : vma'[m].st \in {"scan", "hit"} => m \in Removable,
           \A m \in Maps : vma'[m].st = "hit" =>
              /\ cache'[vma'[m].i] = cache[vma'[m].i] /\ PointsInto(vma'[m].i, m)
    PROVE  ReachInv'
  <1>1. \A m \in Maps : Busy' /\ m \in {worker'.userd, worker'.gpfifo} =>
           Reaches(cache'[worker'.e].key, m)
    BY DEF ReachInv, Busy
  <1>2. \A e \in Entries, m \in Maps : cache'[e].state = "RESOLVED" /\ PointsInto(e, m)' =>
           Reaches(cache'[e].key, m)
    BY DEF ReachInv, PointsInto
  <1>3. \A m \in Maps : vma'[m].st = "hit" => PointsInto(vma[m].i, m)'
    BY DEF PointsInto
  <1> QED
    BY <1>1, <1>2, <1>3 DEF ReachInv, Reaches

LEMMA WorkerReach ==
    ASSUME TypeOK, OwnInv, KeyInv, ReachInv, WorkerStep
    PROVE  ReachInv'
  <1>0. worker \in Resolver /\ worker.e \in Entries /\ UNCHANGED vma
    BY Takes, Works, Publishes DEF TypeOK, Resolver, WorkerStep
  <1> DEFINE k == cache[worker.e].key
  \* The entries, and what the teardowns are about to park.
  <1>1. ASSUME UNCHANGED cache,
               \A m \in Maps : Busy' /\ m \in {worker'.userd, worker'.gpfifo} =>
                  Reaches(cache[worker'.e].key, m)
        PROVE  ReachInv'
    BY <1>0, <1>1 DEF ReachInv, PointsInto, Reaches
  <1>2. CASE Take
    <2>1. UNCHANGED cache /\ worker'.userd = NULL /\ worker'.gpfifo = NULL
      BY <1>2, Takes
    <2>2. NULL \notin Maps
      BY NullAssumption DEF Kva
    <2> QED
      BY <1>1, <2>1, <2>2
  <1>3. CASE ResolveChannel \/ LookupUserd \/ LookupRing
    <2>1. Busy /\ worker'.e = worker.e /\ UNCHANGED cache
      BY <1>3, Works
    <2>2. k \in Keys
      BY <2>1 DEF KeyInv, HasKey
    <2>3. \A m \in Maps : m \in {worker.userd, worker.gpfifo} => Reaches(k, m)
      BY <2>1 DEF ReachInv
    <2>4. CASE ResolveChannel
      <3>1. worker'.gpfifo = worker.gpfifo
            /\ (worker'.userd = worker.userd \/ worker'.userd \in UserdFromRm(k))
        BY <1>0, <2>4 DEF ResolveChannel, Resolver
      <3>2. UserdFromRm(k) \subseteq {Direct, NULL}
        <4>1. Space[k] \in {"fb", "pool", "sys"}
          BY <2>2, LayoutAssumption
        <4> QED
          BY <4>1 DEF UserdFromRm
      <3>3. Direct \notin Maps /\ NULL \notin Maps
        BY NullAssumption DEF Kva
      <3> HIDE DEF k
      <3>4. \A m \in Maps : m \in {worker'.userd, worker'.gpfifo} => Reaches(k, m)
        BY <2>3, <3>1, <3>2, <3>3
      <3> QED
        BY <1>1, <2>1, <3>4 DEF k
    <2>5. CASE LookupUserd
      <3> DEFINE p == nv_dbell_bar1_offset_kva(k)
      <3>1. p = NULL \/ \E j \in Rows : p = bar1[j] /\ Fits(j, k) /\ p \in Maps
        BY OffsetKva
      <3>2. /\ worker'.gpfifo = worker.gpfifo
            /\ worker'.userd = worker.userd \/ (worker'.userd = p /\ Space[k] = "fb")
        BY <1>0, <2>5 DEF LookupUserd, Resolver
      <3> HIDE DEF p
      <3>3. NULL \notin Maps
        BY NullAssumption DEF Kva
      <3>4. \A m \in Maps : m \in {worker'.userd, worker'.gpfifo} => Reaches(k, m)
        BY <2>3, <3>1, <3>2, <3>3 DEF Reaches, Fits
      <3> QED
        BY <1>1, <2>1, <3>4
    <2>6. CASE LookupRing
      <3> DEFINE p == nv_dbell_bar1_gpu_va_to_kva(k)
      <3>1. p = NULL \/ <<p, k>> \in Covers
        BY RingKva
      <3>2. worker'.userd = worker.userd /\ worker'.gpfifo \in {p, NULL}
        BY <1>0, <2>6 DEF LookupRing, Resolver
      <3> HIDE DEF p
      <3>3. NULL \notin Maps
        BY NullAssumption DEF Kva
      <3>4. \A m \in Maps : m \in {worker'.userd, worker'.gpfifo} => Reaches(k, m)
        BY <2>3, <3>1, <3>2, <3>3 DEF Reaches
      <3> QED
        BY <1>1, <2>1, <3>4
    <2> QED
      BY <1>3, <2>4, <2>5, <2>6
  <1>4. CASE Publish
    <2>1. Busy /\ ~Busy'
      BY <1>4, Publishes DEF Busy
    <2>2. cache[worker.e].state = "PENDING"
      BY <2>1 DEF OwnInv, OwnedPending
    <2>3. ASSUME NEW e \in Entries, NEW m \in Maps, cache'[e].state = "RESOLVED", PointsInto(e, m)'
          PROVE  Reaches(cache'[e].key, m)
      <3>1. CASE e = worker.e
        <4>1. /\ cache'[e].userd = worker.userd /\ cache'[e].gpfifo = worker.gpfifo
              /\ cache'[e].key = k
          BY <1>4, <2>3, <3>1, Publishes
        <4>2. m \in {worker.userd, worker.gpfifo}
          BY <2>3, <4>1 DEF PointsInto
        <4> QED
          BY <2>1, <4>1, <4>2 DEF ReachInv
      <3>2. CASE e # worker.e
        <4>1. cache'[e] = cache[e]
          BY <1>4, <3>2, Publishes
        <4> QED
          BY <2>3, <4>1 DEF ReachInv, PointsInto
      <3> QED
        BY <3>1, <3>2
    <2>4. ASSUME NEW m \in Maps, vma[m].st = "hit" PROVE PointsInto(vma[m].i, m)'
      <3>1. vma[m].i \in Entries /\ vma[m].i # worker.e
        BY <2>2, <2>4 DEF OwnInv, OwnedPending, TypeOK, Mapping
      <3>2. cache'[vma[m].i] = cache[vma[m].i]
        BY <1>4, <3>1, Publishes
      <3> QED
        BY <1>0, <2>4, <3>2 DEF ReachInv, PointsInto
    <2> QED
      BY <1>0, <2>1, <2>3, <2>4 DEF ReachInv, Reaches
  <1> QED
    BY <1>2, <1>3, <1>4 DEF WorkerStep

LEMMA MappingReach ==
    ASSUME TypeOK, OwnInv, SerialTeardown, ReachInv,
           NEW m \in Maps, TrackAdd(m) \/ nv_dbell_bar1_track_remove(m)
    PROVE  ReachInv'
  <1>0. worker.e \in Entries /\ \A n \in Maps : vma[n].i \in Entries
    BY DEF TypeOK, Resolver, Mapping
  <1>1. /\ UNCHANGED worker /\ cache'[worker.e].key = cache[worker.e].key
        /\ \A e \in Entries : cache'[e].state = "RESOLVED" => cache'[e] = cache[e]
        /\ OtherMaps(m)
    BY <1>0, Remaps, Tests, Parks, NextEntries, KeysKept DEF nv_dbell_bar1_track_remove
  <1>2. \A n \in Maps : vma'[n].st \in {"scan", "hit"} => n \in Removable
    <2>1. vma'[m].st \in {"scan", "hit"} => m \in Removable
      BY Remaps, Tests, Parks, NextEntries
         DEF nv_dbell_bar1_track_remove, Untrack, TrackAdd, Iounmap, ReachInv
    <2> QED
      BY <1>1, <2>1 DEF OtherMaps, ReachInv
  <1>3. ASSUME NEW n \in Maps, vma'[n].st = "hit"
        PROVE  cache'[vma'[n].i] = cache[vma'[n].i] /\ PointsInto(vma'[n].i, n)
    <2>1. CASE TrackAdd(m) \/ Untrack(m) \/ Iounmap(m)
      <3>1. UNCHANGED cache /\ n # m
        BY <1>3, <2>1, Remaps
      <3> QED
        BY <1>1, <1>3, <3>1 DEF OtherMaps, ReachInv
    <2>2. CASE InvalidateTest(m)
      <3>1. UNCHANGED cache
        BY <2>2, Tests
      <3>2. CASE n = m
        BY <1>3, <2>2, <3>1, <3>2, Tests, NextEntries
      <3>3. CASE n # m
        BY <1>1, <1>3, <3>1, <3>3 DEF OtherMaps, ReachInv
      <3> QED
        BY <3>2, <3>3
    <2>3. CASE InvalidateStore(m)
      <3>1. n # m
        BY <1>3, <2>3, Parks, NextEntries
      <3>2. vma'[n] = vma[n] /\ vma[m].st = "hit"
        BY <1>1, <2>3, <3>1, Parks DEF OtherMaps
      <3>3. vma[n].i # vma[m].i
        BY <1>3, <3>1, <3>2 DEF SerialTeardown
      <3>4. cache'[vma[n].i] = cache[vma[n].i]
        BY <1>0, <2>3, <3>3, Parks
      <3> QED
        BY <1>3, <3>2, <3>4 DEF ReachInv
    <2> QED
      BY <2>1, <2>2, <2>3 DEF nv_dbell_bar1_track_remove
  <1> QED
    BY <1>1, <1>2, <1>3, ReachKept

LEMMA NextReach ==
    ASSUME OneTeardownEach
    PROVE  TypeOK /\ OwnInv /\ KeyInv /\ ReachInv /\ [Next]_vars => ReachInv'
  <1> SUFFICES ASSUME TypeOK, OwnInv, KeyInv, ReachInv, [Next]_vars PROVE ReachInv'
    OBVIOUS
  <1>0. worker.e \in Entries /\ \A n \in Maps : vma[n].i \in Entries
    BY DEF TypeOK, Resolver, Mapping
  <1>1. CASE UNCHANGED shared
    BY <1>1, ReachKept DEF shared, ReachInv
  <1>2. ASSUME NEW t \in Threads, ReserveWon(t) \/ Fill(t) \/ EnqueueOk(t) \/ EnqueueFail(t)
        PROVE  ReachInv'
    <2>1. /\ UNCHANGED <<worker, vma>>
          /\ \A e \in Entries : cache'[e].state = "RESOLVED" => cache'[e] = cache[e]
      BY <1>2, Reserves, Fills, Schedules, Rollbacks
    <2>2. \A e \in Entries : cache[e].state = "RESOLVED" => cache'[e] = cache[e]
      BY <1>2, WritesOwn
    <2>3. Busy => cache'[worker.e].key = cache[worker.e].key
      <3>1. CASE Fill(t)
        BY <1>0, <3>1, Fills DEF OwnInv, OneOwner, Reserving
      <3>2. CASE ReserveWon(t) \/ EnqueueOk(t) \/ EnqueueFail(t)
        BY <1>0, <3>2, Reserves, Schedules, Rollbacks
      <3> QED
        BY <1>2, <3>1, <3>2
    <2>4. \A m \in Maps : vma'[m].st = "hit" =>
             /\ cache'[vma'[m].i] = cache[vma'[m].i] /\ PointsInto(vma'[m].i, m)
      BY <1>0, <2>1, <2>2 DEF OwnInv, OwnedPending, ReachInv
    <2>5. \A m \in Maps : vma'[m].st \in {"scan", "hit"} => m \in Removable
      BY <2>1 DEF ReachInv
    <2> QED
      BY <2>1, <2>3, <2>4, <2>5, ReachKept
  <1>3. CASE WorkerStep
    BY <1>3, WorkerReach
  <1>4. ASSUME NEW m \in Maps, TrackAdd(m) \/ nv_dbell_bar1_track_remove(m) PROVE ReachInv'
    BY <1>4, ReachSerial, MappingReach
  <1> QED
    BY <1>1, <1>2, <1>3, <1>4, StepKinds

\* When at most one of the mappings that lead to a channel is ever torn down, no two
\* walks of nv_dbell_cache_invalidate_range are about to park the same entry: the
\* condition of Ownership and of the theorems that rest on it is met.
THEOREM TeardownsSerial ==
    ASSUME OneTeardownEach
    PROVE  Spec => []SerialTeardown
  <1> DEFINE Joint == TypeOK /\ OwnInv /\ KeyInv /\ ReachInv
  <1>1. Init => Joint
    BY InitType, InitOwn, InitKey, InitReach
  <1>2. Joint /\ [Next]_vars => Joint'
    <2> SUFFICES ASSUME Joint, [Next]_vars PROVE Joint'
      OBVIOUS
    <2>1. SerialTeardown
      BY ReachSerial
    <2> QED
      BY <2>1, NextType, NextOwn, NextKey, NextReach
  <1>3. Joint => SerialTeardown
    BY ReachSerial
  <1> HIDE DEF Joint
  <1> QED
    BY <1>1, <1>2, <1>3, PTL DEF Spec

\* No work item is lost, queued twice, or left to overwrite an entry that another
\* channel has taken, for any number of CPUs: an entry is PENDING exactly while one
\* reserver, one work item or the resolver owns it.
THEOREM PendingOwnedHolds ==
    ASSUME OneTeardownEach
    PROVE  Spec => []PendingOwned
  BY TypeCorrect, TeardownsSerial, Ownership, OwnersCount, PTL

-----------------------------------------------------------------------------
(* The handler's reads.                                                        *)

\* The resolver and the teardowns, like the threads, leave the entry somebody else
\* is working on alone.
LEMMA WorkKept ==
    ASSUME TypeOK, OwnInv,
           \/ \E t \in Threads : ReserveWon(t) \/ Fill(t) \/ EnqueueOk(t) \/ EnqueueFail(t)
           \/ \E m \in Maps : TrackAdd(m) \/ nv_dbell_bar1_track_remove(m)
    PROVE  UNCHANGED worker /\ (Busy => cache'[worker.e] = cache[worker.e])
  <1>0. worker.e \in Entries /\ (Busy => cache[worker.e].state = "PENDING")
    BY DEF TypeOK, Resolver, OwnInv, OwnedPending
  <1>1. ASSUME NEW t \in Threads, ReserveWon(t)
        PROVE  UNCHANGED worker /\ (Busy => cache'[worker.e] = cache[worker.e])
    BY <1>0, <1>1, Reserves
  <1>2. ASSUME NEW t \in Threads, Fill(t)
        PROVE  UNCHANGED worker /\ (Busy => cache'[worker.e] = cache[worker.e])
    BY <1>0, <1>2, Fills DEF OwnInv, OneOwner, Reserving
  <1>3. ASSUME NEW t \in Threads, EnqueueOk(t)
        PROVE  UNCHANGED worker /\ (Busy => cache'[worker.e] = cache[worker.e])
    BY <1>3, Schedules
  <1>4. ASSUME NEW t \in Threads, EnqueueFail(t)
        PROVE  UNCHANGED worker /\ (Busy => cache'[worker.e] = cache[worker.e])
    BY <1>0, <1>4, Rollbacks DEF OwnInv, OneOwner, Reserving
  <1>5. ASSUME NEW m \in Maps, InvalidateStore(m)
        PROVE  UNCHANGED worker /\ (Busy => cache'[worker.e] = cache[worker.e])
    BY <1>0, <1>5, Parks DEF OwnInv, OwnedPending
  <1>6. ASSUME NEW m \in Maps, TrackAdd(m) \/ Untrack(m) \/ InvalidateTest(m) \/ Iounmap(m)
        PROVE  UNCHANGED <<worker, cache>>
    BY <1>6, Remaps, Tests
  <1> QED
    BY <1>1, <1>2, <1>3, <1>4, <1>5, <1>6 DEF nv_dbell_bar1_track_remove

LEMMA InitReader == Init => ReaderInv
  BY DEF Init, ReaderInv, IdleThread

LEMMA NextReader ==
    ASSUME Quiesced
    PROVE  TypeOK /\ OwnInv /\ QuiescedInv /\ ReaderInv /\ [Next]_vars => ReaderInv'
  <1> SUFFICES ASSUME TypeOK, OwnInv, QuiescedInv, ReaderInv, [Next]_vars PROVE ReaderInv'
    OBVIOUS
  <1>0. \A u \in Threads : th[u].e \in Entries /\ th[u].i \in Entries
    BY DEF TypeOK, Thread
  <1>1. CASE UNCHANGED <<shared, th>>
    BY <1>1 DEF shared, ReaderInv
  <1>2. ASSUME NEW t \in Threads, LocalStep(t), UNCHANGED shared PROVE ReaderInv'
    <2>1. Stays(t) /\ UNCHANGED cache
      BY <1>2, LocalMoves DEF shared
    <2>2. /\ th'[t].pc \in {"load", "gpput", "ring"} => cache[th'[t].e].state = "RESOLVED"
          /\ th'[t].pc = "ring" => cache[th'[t].e].gpfifo # NULL
      <3>1. CASE Begins(t)
        BY <3>1 DEF Begins
      <3>2. CASE FindHit(t)
        BY <3>2, FindHits DEF Left
      <3>3. CASE FindNext(t)
        BY <3>3, Advances DEF FindNext
      <3>4. CASE ReserveNext(t)
        <4>1. Leave(t) \/ Advance(t, "reserve")
          BY <3>4 DEF ReserveNext
        <4> QED
          BY <3>4, <4>1, Leaves, Advances DEF ReserveNext, Left
      <3>5. CASE CheckState(t)
        <4>1. Leave(t) \/ (Goto(t, "load") /\ cache[th[t].e].state = "RESOLVED")
          BY <3>5 DEF CheckState
        <4> QED
          BY <4>1, Leaves, Goes DEF Left
      <3>6. CASE LoadUserd(t)
        <4>1. cache[th[t].e].state = "RESOLVED"
          BY <3>6 DEF LoadUserd, ReaderInv
        <4> QED
          BY <3>6, <4>1, Loads DEF Left
      <3>7. CASE ReadGpPut(t)
        <4>1. cache[th[t].e].state = "RESOLVED"
          BY <3>7 DEF ReadGpPut, ReaderInv
        <4> QED
          BY <3>7, <4>1, Reads DEF Left
      <3>8. CASE ReadRing(t)
        BY <3>8, Leaves DEF ReadRing, Left
      <3>9. CASE Forward(t)
        BY <3>9 DEF Forward, TypeOK, IdleThread
      <3> QED
        BY <1>2, <3>1, <3>2, <3>3, <3>4, <3>5, <3>6, <3>7, <3>8, <3>9 DEF LocalStep
    <2> QED
      BY <2>1, <2>2 DEF ReaderInv, Stays
  <1>3. ASSUME NEW t \in Threads, ReserveWon(t) \/ Fill(t) \/ EnqueueOk(t) \/ EnqueueFail(t)
        PROVE  ReaderInv'
    <2>1. \A e \in Entries : cache[e].state = "RESOLVED" => cache'[e] = cache[e]
      BY <1>3, WritesOwn
    <2>2. Stays(t) /\ th'[t].pc \in {"fill", "enqueue", "idle", "forward"}
      BY <1>3, Reserves, Fills, Schedules, Rollbacks DEF Left, Kept
    <2> QED
      BY <1>0, <2>1, <2>2 DEF ReaderInv, Stays
  <1>4. CASE WorkerStep /\ UNCHANGED th
    <2>1. \A e \in Entries : cache[e].state = "RESOLVED" => cache'[e] = cache[e]
      <3>1. CASE Publish
        BY <3>1, Publishes DEF OwnInv, OwnedPending, Busy
      <3>2. CASE ~Publish
        BY <1>4, <3>2, Takes, Works DEF WorkerStep
      <3> QED
        BY <3>1, <3>2
    <2> QED
      BY <1>0, <1>4, <2>1 DEF ReaderInv
  <1>5. ASSUME NEW m \in Maps, TrackAdd(m) \/ nv_dbell_bar1_track_remove(m), UNCHANGED th
        PROVE  ReaderInv'
    <2>1. CASE InvalidateStore(m)
      <3>1. TearingDown
        BY <2>1, Parks DEF TearingDown
      <3>2. \A u \in Threads : th[u].pc \notin {"load", "gpput", "ring"}
        BY <3>1 DEF QuiescedInv, HandlerInv
      <3> QED
        BY <1>5, <3>2 DEF ReaderInv
    <2>2. CASE ~InvalidateStore(m)
      <3>1. UNCHANGED cache
        BY <1>5, <2>2, Remaps, Tests DEF nv_dbell_bar1_track_remove
      <3> QED
        BY <1>5, <3>1 DEF ReaderInv
    <2> QED
      BY <2>1, <2>2
  <1> QED
    BY <1>1, <1>2, <1>3, <1>4, <1>5, StepKinds

\* When teardowns wait for the doorbells, the handler never reads GP_PUT or the ring
\* through an unmapped address or through NULL, whether the compiler loads the entry's
\* pointer once or again after the test, and however many CPUs, resolutions and
\* registrations go on meanwhile.
THEOREM NoUseAfterUnmapHolds ==
    ASSUME Quiesced
    PROVE  Spec /\ []SerialTeardown => []NoUseAfterUnmap
  <1>1. TypeOK /\ QuiescedInv /\ ReaderInv => NoUseAfterUnmap
    <2> SUFFICES ASSUME TypeOK, QuiescedInv, ReaderInv, NEW t \in Threads, NEW p \in Derefs(t)
                 PROVE  Live(p)
      BY DEF NoUseAfterUnmap
    <2> DEFINE e == th[t].e
    <2>1. th[t].pc \in {"gpput", "ring"}
      BY DEF Derefs
    <2>2. e \in Entries /\ cache[e].state = "RESOLVED"
      BY <2>1 DEF ReaderInv, TypeOK, Thread
    <2>3. /\ th[t].ptr \in Maps \cup {Direct, NULL}
          /\ cache[e].userd \in Maps \cup {Direct, NULL}
          /\ cache[e].gpfifo \in Maps \cup {Direct, NULL}
      BY <2>2 DEF TypeOK, Thread, Entry, Ptr, Kva
    <2>4. th[t].ptr # NULL /\ Safe(th[t].ptr) /\ Safe(cache[e].userd) /\ Safe(cache[e].gpfifo)
      BY <2>1 DEF QuiescedInv, HandlerInv
    <2>5. cache[e].userd # NULL
      BY <2>2 DEF QuiescedInv, EntryInv
    <2>6. th[t].pc = "ring" => cache[e].gpfifo # NULL
      BY DEF ReaderInv
    <2>7. \A q \in Maps \cup {Direct} : Safe(q) => Live(q)
      BY DEF Safe, Live
    <2>8. p \in Maps \cup {Direct} /\ Safe(p)
      BY <2>1, <2>3, <2>4, <2>5, <2>6 DEF Derefs
    <2> QED
      BY <2>7, <2>8
  <1>2. TypeOK /\ OwnInv /\ QuiescedInv /\ ReaderInv /\ [Next]_vars => ReaderInv'
    BY NextReader
  <1>3. Spec => []QuiescedInv
    BY QuiescedInvariance
  <1> QED
    BY TypeCorrect, Ownership, InitReader, <1>1, <1>2, <1>3, PTL DEF Spec

-----------------------------------------------------------------------------
(* One entry per thread.                                                       *)

LEMMA InitSearch == Init => SearchInv /\ OneEntryPerThread
  BY DEF Init, SearchInv, OneEntryPerThread, Settled, IdleThread, FreeEntry

\* A step after which every settled entry was settled before, by the same thread and
\* with the same key, and in which no scan moves.
LEMMA SearchShrinks ==
    ASSUME \A e \in Entries : Settled(e)' =>
              /\ Settled(e)
              /\ cache'[e].key = cache[e].key /\ cache'[e].by = cache[e].by
    PROVE  /\ OneEntryPerThread => OneEntryPerThread'
           /\ \A u \in Threads, e \in Entries :
                 th'[u] = th[u] /\ Held(e, u)' => Held(e, u)
  BY DEF OneEntryPerThread, Held

\* Being filled or not, when nobody starts or ends filling.
LEMMA SettledKept ==
    ASSUME NEW t \in Threads, Stays(t), th[t].pc # "fill", th'[t].pc # "fill",
           NEW e \in Entries, Settled(e)', cache[e].state # "FREE"
    PROVE  Settled(e)
  BY DEF Settled, Stays

LEMMA LocalSearch ==
    ASSUME TypeOK, SearchInv, OneEntryPerThread, NEW t \in Threads, LocalStep(t), UNCHANGED shared
    PROVE  SearchInv' /\ OneEntryPerThread'
  <1>0. /\ \A u \in Threads : th[u].e \in Entries /\ th[u].i \in Entries
        /\ CacheSize \in Nat /\ Entries = 1 .. CacheSize
    BY SizesAssumption DEF TypeOK, Thread, Entries
  <1>1. th[t].pc # "fill" /\ th'[t].pc # "fill" /\ Stays(t) /\ UNCHANGED cache
    BY LocalMoves DEF Reserving, shared
  <1>2. \A e \in Entries : Settled(e)' => Settled(e)
    BY <1>1, SettledKept DEF Settled
  <1>3. OneEntryPerThread' /\ \A u \in Threads, e \in Entries :
           th'[u] = th[u] /\ Held(e, u)' => Held(e, u)
    BY <1>1, <1>2, SearchShrinks
  <1>4. \A e \in Entries : th'[t].key = th[t].key /\ Held(e, t)' => Held(e, t)
    BY <1>1, <1>2 DEF Held
  <1>5. /\ th'[t].pc = "find" => \A e \in Entries : e < th'[t].i => ~Held(e, t)'
        /\ th'[t].pc = "reserve" => \A e \in Entries : ~Held(e, t)'
    <2>1. CASE Begins(t)
      BY <1>0, <2>1 DEF Begins
    <2>2. CASE FindNext(t)
      <3>1. /\ th'[t].key = th[t].key /\ th[t].pc = "find"
            /\ \/ th'[t].i = th[t].i + 1 /\ th'[t].pc = "find"
               \/ ~(th[t].i < CacheSize) /\ th'[t].pc = "reserve"
        BY <2>2, Advances DEF FindNext, Kept
      <3>2. \A e \in Entries : e < th[t].i => ~Held(e, t)
        BY <3>1 DEF SearchInv
      <3>3. ~Held(th[t].i, t)
        BY <2>2 DEF FindNext, Matches, Held, Settled
      <3>4. \A e \in Entries : e <= th[t].i => e < th[t].i \/ e = th[t].i
        BY <1>0
      <3>5. \A e \in Entries : e <= th[t].i => ~Held(e, t)'
        BY <1>4, <3>1, <3>2, <3>3, <3>4
      <3>6. CASE th'[t].pc = "find"
        <4>1. \A e \in Entries : e < th'[t].i => e <= th[t].i
          BY <1>0, <3>1, <3>6
        <4> QED
          BY <3>5, <3>6, <4>1
      <3>7. CASE th'[t].pc = "reserve"
        <4>1. \A e \in Entries : e <= th[t].i
          BY <1>0, <3>1, <3>7
        <4> QED
          BY <3>5, <3>7, <4>1
      <3> QED
        BY <3>1, <3>6, <3>7
    <2>3. CASE ReserveNext(t)
      <3>1. Left(t) \/ (th[t].pc = "reserve" /\ th'[t].pc = "reserve" /\ th'[t].key = th[t].key)
        BY <2>3, Leaves, Advances DEF ReserveNext, Kept
      <3>2. th[t].pc = "reserve" => \A e \in Entries : ~Held(e, t)
        BY DEF SearchInv
      <3> QED
        BY <1>4, <3>1, <3>2 DEF Left
    <2>4. CASE FindHit(t)
      BY <2>4, FindHits DEF Left
    <2>5. CASE CheckState(t)
      <3>1. Leave(t) \/ Goto(t, "load")
        BY <2>5 DEF CheckState
      <3> QED
        BY <3>1, Leaves, Goes DEF Left
    <2>6. CASE LoadUserd(t) \/ ReadGpPut(t)
      BY <2>6, Loads, Reads DEF Left
    <2>7. CASE ReadRing(t)
      BY <2>7, Leaves DEF ReadRing, Left
    <2>8. CASE Forward(t)
      BY <2>8 DEF Forward, TypeOK, IdleThread
    <2> QED
      BY <2>1, <2>2, <2>3, <2>4, <2>5, <2>6, <2>7, <2>8 DEF LocalStep
  <1>6. SearchInv'
    BY <1>1, <1>3, <1>5 DEF SearchInv, Stays
  <1> QED
    BY <1>3, <1>6

LEMMA WriteSearch ==
    ASSUME TypeOK, SearchInv, OneEntryPerThread, NEW t \in Threads,
           ReserveWon(t) \/ Fill(t) \/ EnqueueOk(t) \/ EnqueueFail(t)
    PROVE  SearchInv' /\ OneEntryPerThread'
  <1>1. CASE ReserveWon(t)
    <2> DEFINE x == th[t].i
    <2>1. /\ th[t].pc = "reserve" /\ th'[t].pc = "fill" /\ th'[t].e = x /\ Stays(t)
          /\ th'[t].key = th[t].key /\ x \in Entries
          /\ \A e \in Entries : e # x => cache'[e] = cache[e]
      BY <1>1, Reserves DEF Kept
    <2> HIDE DEF x
    <2>2. \A e \in Entries : Settled(e)' => e # x /\ Settled(e)
      BY <2>1 DEF Settled, Stays
    <2>3. OneEntryPerThread' /\ \A u \in Threads, e \in Entries :
             th'[u] = th[u] /\ Held(e, u)' => Held(e, u)
      BY <2>1, <2>2, SearchShrinks
    <2>4. \A e \in Entries : Held(e, t)' => Held(e, t)
      BY <2>1, <2>2 DEF Held
    <2>5. \A e \in Entries : ~Held(e, t)
      BY <2>1 DEF SearchInv
    <2>6. SearchInv'
      BY <2>1, <2>3, <2>4, <2>5 DEF SearchInv, Stays
    <2> QED
      BY <2>3, <2>6
  <1>2. CASE Fill(t)
    <2> DEFINE x == th[t].e
    <2>1. /\ th[t].pc = "fill" /\ th'[t].pc = "enqueue" /\ x \in Entries /\ Stays(t)
          /\ cache'[x].key = th[t].key /\ cache'[x].by = t
          /\ \A e \in Entries : e # x => cache'[e] = cache[e]
      BY <1>2, Fills DEF Kept
    <2>2. \A e \in Entries : e # x => ~Held(e, t)
      BY <2>1 DEF SearchInv
    <2>3. ASSUME NEW e \in Entries, Settled(e)', e # x
          PROVE  Settled(e) /\ cache'[e] = cache[e]
      BY <2>1, <2>3 DEF Settled, Stays
    <2> HIDE DEF x
    <2>4. OneEntryPerThread'
      <3> SUFFICES ASSUME NEW e \in Entries, NEW f \in Entries, Settled(e)', Settled(f)',
                          cache'[e].by = cache'[f].by, Id[cache'[e].key] = Id[cache'[f].key]
                   PROVE  e = f
        BY DEF OneEntryPerThread
      <3>1. CASE e # x /\ f # x
        BY <2>3, <3>1 DEF OneEntryPerThread
      <3>2. CASE e = x /\ f # x
        BY <2>1, <2>2, <2>3, <3>2 DEF Held
      <3>3. CASE e # x /\ f = x
        BY <2>1, <2>2, <2>3, <3>3 DEF Held
      <3> QED
        BY <3>1, <3>2, <3>3
    <2>5. \A u \in Threads, e \in Entries : u # t /\ Held(e, u)' => Held(e, u)
      BY <2>1, <2>3 DEF Held, Stays
    <2>6. SearchInv'
      BY <2>1, <2>5 DEF SearchInv, Stays
    <2> QED
      BY <2>4, <2>6
  <1>3. CASE EnqueueOk(t) \/ EnqueueFail(t)
    <2>1. /\ th[t].pc = "enqueue" /\ th'[t].pc \in {"idle", "forward"} /\ Stays(t)
          /\ \A e \in Entries : cache'[e].state # "FREE" => cache'[e] = cache[e]
      BY <1>3, Schedules, Rollbacks DEF Left
    <2>2. \A e \in Entries : Settled(e)' => Settled(e) /\ cache'[e] = cache[e]
      BY <2>1 DEF Settled, Stays
    <2>3. OneEntryPerThread' /\ \A u \in Threads, e \in Entries :
             th'[u] = th[u] /\ Held(e, u)' => Held(e, u)
      BY <2>2, SearchShrinks
    <2>4. SearchInv'
      BY <2>1, <2>3 DEF SearchInv, Stays
    <2> QED
      BY <2>3, <2>4
  <1> QED
    BY <1>1, <1>2, <1>3

LEMMA NextSearch ==
    TypeOK /\ OwnInv /\ SearchInv /\ OneEntryPerThread /\ [Next]_vars
        => SearchInv' /\ OneEntryPerThread'
  <1> SUFFICES ASSUME TypeOK, OwnInv, SearchInv, OneEntryPerThread, [Next]_vars
               PROVE  SearchInv' /\ OneEntryPerThread'
    OBVIOUS
  <1>1. CASE UNCHANGED <<shared, th>>
    BY <1>1 DEF shared, SearchInv, OneEntryPerThread, Settled, Held
  <1>2. ASSUME WorkerStep \/ \E m \in Maps : TrackAdd(m) \/ nv_dbell_bar1_track_remove(m),
               UNCHANGED th
        PROVE  SearchInv' /\ OneEntryPerThread'
    <2>1. \A e \in Entries : cache'[e].state # "FREE" =>
              /\ cache[e].state # "FREE"
              /\ cache'[e].key = cache[e].key /\ cache'[e].by = cache[e].by
      <3>1. CASE Publish
        BY <3>1, Publishes DEF OwnInv, OwnedPending, Busy
      <3>2. CASE WorkerStep /\ ~Publish
        BY <3>2, Takes, Works DEF WorkerStep
      <3>3. ASSUME NEW m \in Maps, InvalidateStore(m)
            PROVE  \A e \in Entries : cache'[e].state # "FREE" => cache'[e] = cache[e]
        BY <3>3, Parks
      <3>4. ASSUME NEW m \in Maps, TrackAdd(m) \/ Untrack(m) \/ InvalidateTest(m) \/ Iounmap(m)
            PROVE  UNCHANGED cache
        BY <3>4, Remaps, Tests
      <3> QED
        BY <1>2, <3>1, <3>2, <3>3, <3>4 DEF nv_dbell_bar1_track_remove
    <2>2. \A e \in Entries : Settled(e)' =>
              Settled(e) /\ cache'[e].key = cache[e].key /\ cache'[e].by = cache[e].by
      BY <1>2, <2>1 DEF Settled
    <2>3. OneEntryPerThread' /\ \A u \in Threads, e \in Entries :
             th'[u] = th[u] /\ Held(e, u)' => Held(e, u)
      BY <2>2, SearchShrinks
    <2>4. SearchInv'
      BY <1>2, <2>3 DEF SearchInv
    <2> QED
      BY <2>3, <2>4
  <1> QED
    BY <1>1, <1>2, StepKinds, LocalSearch, WriteSearch

\* For any number of CPUs in find and reserve at once, a channel takes at most one
\* entry per thread that rings it: the resolver's publications and roll-backs, the
\* teardowns and the other threads never make a thread's own entry invisible to its
\* next find, nor bring one back to life behind its scan.
THEOREM OneEntryPerThreadHolds == Spec /\ []SerialTeardown => []OneEntryPerThread
  BY TypeCorrect, Ownership, InitSearch, NextSearch, PTL DEF Spec

-----------------------------------------------------------------------------
(* What a resolved entry points to.                                            *)

LEMMA InitDescribes == Init => DescribesInv /\ EntryDescribesKey
  BY DEF Init, DescribesInv, EntryDescribesKey, Busy, IdleWorker, FreeEntry

\* A RESOLVED entry that a step leaves alone.
LEMMA DescribesKept ==
    ASSUME EntryDescribesKey, NEW e \in Entries, cache'[e].state = "RESOLVED", cache'[e] = cache[e]
    PROVE  /\ cache'[e].key \in Keys
           /\ UserdOf(cache'[e].key, cache'[e].userd)
           /\ RingOf(cache'[e].key, cache'[e].gpfifo)
  BY DEF EntryDescribesKey, UserdOf, RingOf

LEMMA WorkerDescribes ==
    ASSUME TypeOK, OwnInv, KeyInv, DescribesInv, EntryDescribesKey, WorkerStep
    PROVE  DescribesInv' /\ EntryDescribesKey'
  <1>0. worker \in Resolver /\ worker.e \in Entries
    BY DEF TypeOK, Resolver
  <1> DEFINE k == cache[worker.e].key
  <1>1. ASSUME UNCHANGED cache PROVE EntryDescribesKey'
    BY <1>1 DEF EntryDescribesKey
  <1>2. CASE Take
    BY <1>1, <1>2, Takes DEF DescribesInv, RingOf
  <1>3. CASE ResolveChannel \/ LookupUserd \/ LookupRing
    <2>1. Busy /\ worker'.e = worker.e /\ UNCHANGED cache
      BY <1>3, Works
    <2>2. k \in Keys
      BY <2>1 DEF KeyInv, HasKey
    <2>3. (worker.userd # NULL => UserdOf(k, worker.userd)) /\ RingOf(k, worker.gpfifo)
      BY <2>1 DEF DescribesInv
    <2>4. SUFFICES (worker'.userd # NULL => UserdOf(k, worker'.userd)) /\ RingOf(k, worker'.gpfifo)
      BY <1>1, <2>1 DEF DescribesInv, UserdOf, RingOf
    <2>5. CASE ResolveChannel
      <3>1. worker'.gpfifo = worker.gpfifo
            /\ (worker'.userd = worker.userd \/ worker'.userd \in UserdFromRm(k))
        BY <1>0, <2>5 DEF ResolveChannel, Resolver
      <3>2. \A u \in UserdFromRm(k) : u # NULL => UserdOf(k, u)
        <4>1. Space[k] \in {"fb", "pool", "sys"}
          BY <2>2, LayoutAssumption
        <4> QED
          BY <4>1 DEF UserdFromRm, UserdOf
      <3> HIDE DEF k
      <3> QED
        BY <2>3, <3>1, <3>2
    <2>6. CASE LookupUserd
      <3> DEFINE p == nv_dbell_bar1_offset_kva(k)
      <3>1. p = NULL \/ \E j \in Rows : p = bar1[j] /\ Fits(j, k) /\ p \in Maps
        BY OffsetKva
      <3>2. /\ worker'.gpfifo = worker.gpfifo
            /\ worker'.userd = worker.userd \/ (worker'.userd = p /\ Space[k] = "fb")
        BY <1>0, <2>6 DEF LookupUserd, Resolver
      <3> HIDE DEF p, k
      <3> QED
        BY <2>3, <3>1, <3>2 DEF UserdOf, Fits
    <2>7. CASE LookupRing
      <3> DEFINE p == nv_dbell_bar1_gpu_va_to_kva(k)
      <3>1. p = NULL \/ <<p, k>> \in Covers
        BY RingKva
      <3>2. worker'.userd = worker.userd /\ worker'.gpfifo \in {p, NULL}
        BY <1>0, <2>7 DEF LookupRing, Resolver
      <3> HIDE DEF p, k
      <3> QED
        BY <2>3, <3>1, <3>2 DEF RingOf
    <2> QED
      BY <1>3, <2>5, <2>6, <2>7
  <1>4. CASE Publish
    <2>1. Busy /\ ~Busy' /\ k \in Keys
      BY <1>4, Publishes DEF Busy, KeyInv, HasKey
    <2>2. (worker.userd # NULL => UserdOf(k, worker.userd)) /\ RingOf(k, worker.gpfifo)
      BY <2>1 DEF DescribesInv
    <2>3. ASSUME NEW e \in Entries, cache'[e].state = "RESOLVED"
          PROVE  /\ cache'[e].key \in Keys
                 /\ UserdOf(cache'[e].key, cache'[e].userd)
                 /\ RingOf(cache'[e].key, cache'[e].gpfifo)
      <3>1. CASE e = worker.e
        <4>1. /\ cache'[e].userd = worker.userd /\ cache'[e].gpfifo = worker.gpfifo
              /\ worker.userd # NULL /\ cache'[e].key = k
          BY <1>4, <2>3, <3>1, Publishes
        <4> QED
          BY <2>1, <2>2, <4>1
      <3>2. CASE e # worker.e
        <4>1. cache'[e] = cache[e]
          BY <1>4, <3>2, Publishes
        <4> QED
          BY <2>3, <4>1, DescribesKept
      <3> QED
        BY <3>1, <3>2
    <2> QED
      BY <2>1, <2>3 DEF DescribesInv, EntryDescribesKey, UserdOf, RingOf
  <1> QED
    BY <1>2, <1>3, <1>4 DEF WorkerStep

\* No step of a thread or of a mapping makes an entry RESOLVED.
LEMMA ResolvedKept ==
    ASSUME TypeOK,
           \/ \E t \in Threads : ReserveWon(t) \/ Fill(t) \/ EnqueueOk(t) \/ EnqueueFail(t)
           \/ \E m \in Maps : TrackAdd(m) \/ nv_dbell_bar1_track_remove(m)
    PROVE  \A e \in Entries : cache'[e].state = "RESOLVED" => cache'[e] = cache[e]
  <1>1. ASSUME NEW t \in Threads, ReserveWon(t) \/ Fill(t) \/ EnqueueOk(t) \/ EnqueueFail(t)
        PROVE  \A e \in Entries : cache'[e].state = "RESOLVED" => cache'[e] = cache[e]
    BY <1>1, Reserves, Fills, Schedules, Rollbacks
  <1>2. ASSUME NEW m \in Maps, TrackAdd(m) \/ nv_dbell_bar1_track_remove(m)
        PROVE  \A e \in Entries : cache'[e].state = "RESOLVED" => cache'[e] = cache[e]
    BY <1>2, Remaps, Tests, Parks DEF nv_dbell_bar1_track_remove
  <1> QED
    BY <1>1, <1>2

LEMMA NextDescribes ==
    TypeOK /\ OwnInv /\ KeyInv /\ DescribesInv /\ EntryDescribesKey /\ [Next]_vars
        => DescribesInv' /\ EntryDescribesKey'
  <1> SUFFICES ASSUME TypeOK, OwnInv, KeyInv, DescribesInv, EntryDescribesKey, [Next]_vars
               PROVE  DescribesInv' /\ EntryDescribesKey'
    OBVIOUS
  <1>1. ASSUME UNCHANGED worker, Busy => cache'[worker.e] = cache[worker.e],
               \A e \in Entries : cache'[e].state = "RESOLVED" => cache'[e] = cache[e]
        PROVE  DescribesInv' /\ EntryDescribesKey'
    <2>1. DescribesInv'
      BY <1>1 DEF DescribesInv, Busy, UserdOf, RingOf
    <2>2. EntryDescribesKey'
      BY <1>1, DescribesKept DEF EntryDescribesKey, UserdOf, RingOf
    <2> QED
      BY <2>1, <2>2
  <1>2. CASE UNCHANGED shared
    BY <1>1, <1>2 DEF shared
  <1>3. CASE \/ \E t \in Threads : ReserveWon(t) \/ Fill(t) \/ EnqueueOk(t) \/ EnqueueFail(t)
             \/ \E m \in Maps : TrackAdd(m) \/ nv_dbell_bar1_track_remove(m)
    BY <1>1, <1>3, WorkKept, ResolvedKept
  <1> QED
    BY <1>2, <1>3, StepKinds, WorkerDescribes

\* For any number of CPUs, what a RESOLVED entry points to belongs to the channel in
\* its key and holds the USERD's offset: nobody re-keys an entry under the resolver,
\* although nv_dbell_resolve_fn reads the key and writes the entry without a lock.
THEOREM EntryDescribesKeyHolds == Spec /\ []SerialTeardown => []EntryDescribesKey
  BY TypeCorrect, Ownership, KeysSettled, InitDescribes, NextDescribes, PTL DEF Spec

-----------------------------------------------------------------------------
(* The mapping that holds a channel's USERD.                                   *)

LEMMA InitHome == Init => HomeInv /\ UserdAtHome
  BY DEF Init, HomeInv, UserdAtHome, Busy, IdleWorker, FreeEntry

\* The offset lies inside the channel's own mapping, which is larger than the others:
\* when it has a row, nv_dbell_bar1_offset_kva returns it.
LEMMA OffsetHome ==
    ASSUME HomeIsLargest, TypeOK, NEW k \in Keys, Space[k] = "fb",
           NEW h \in Rows, bar1[h] = Home[k], NEW p, p = nv_dbell_bar1_offset_kva(k)
    PROVE  p \in {NULL, Home[k]}
  <1>1. CASE p = NULL
    BY <1>1
  <1>2. ASSUME NEW j \in Rows, p = bar1[j], OffsetRow(j, k), p \in Maps PROVE p = Home[k]
    <2>1. Home[k] \in Maps /\ Home[k] # NULL /\ Size[Home[k]] \in Nat /\ Size[p] \in Nat
      BY <1>2, LayoutAssumption, NullAssumption DEF Kva
    <2>2. Fits(h, k)
      BY <2>1 DEF Fits, HomeIsLargest
    <2>3. Size[Home[k]] < Size[p] \/ Size[Home[k]] = Size[p]
      BY <1>2, <2>2 DEF OffsetRow
    <2>4. p # Home[k] => Size[p] < Size[Home[k]]
      BY <1>2 DEF HomeIsLargest
    <2> QED
      BY <2>1, <2>3, <2>4
  <1> QED
    BY <1>1, <1>2, OffsetKva

LEMMA WorkerHome ==
    ASSUME HomeIsLargest, TypeOK, OwnInv, KeyInv, HomeInv, UserdAtHome, WorkerStep
    PROVE  HomeInv' /\ UserdAtHome'
  <1>0. worker \in Resolver /\ worker.e \in Entries /\ UNCHANGED <<bar1, vma>>
    BY Takes, Works, Publishes DEF TypeOK, Resolver, WorkerStep
  <1> DEFINE k == cache[worker.e].key
             held == cache[worker.e].homed /\ vma[Home[k]].st = "mapped"
  <1>1. ASSUME UNCHANGED cache PROVE UserdAtHome'
    BY <1>0, <1>1 DEF UserdAtHome
  <1>2. \A m \in Maps : vma'[m].st = "mapped" => \E j \in Rows : bar1'[j] = m
    BY <1>0 DEF HomeInv
  <1>3. ASSUME UNCHANGED cache
        PROVE  \A e \in Entries : cache'[e].homed => cache'[e].key \in Keys /\ vma'[HomeOf(e)'].st # "off"
    BY <1>0, <1>3 DEF HomeInv, HomeOf
  <1>4. CASE Take
    <2>1. UNCHANGED cache /\ worker'.userd = NULL
      BY <1>4, Takes
    <2> QED
      BY <1>1, <1>2, <1>3, <2>1 DEF HomeInv
  <1>5. CASE ResolveChannel \/ LookupUserd \/ LookupRing
    <2>1. Busy /\ worker'.e = worker.e /\ UNCHANGED cache
      BY <1>5, Works
    <2>2. k \in Keys
      BY <2>1 DEF KeyInv, HasKey
    <2>3. SUFFICES ASSUME Space[k] = "fb"
                   PROVE  /\ worker'.pc \in {"rm", "userd"} => worker'.userd = NULL
                          /\ held => worker'.userd \in {NULL, Home[k]}
      BY <1>0, <1>1, <1>2, <1>3, <2>1 DEF HomeInv, HomeOf
    <2>4. /\ worker.pc \in {"rm", "userd"} => worker.userd = NULL
          /\ held => worker.userd \in {NULL, Home[k]}
      BY <2>1, <2>3 DEF HomeInv, HomeOf
    <2>5. CASE ResolveChannel
      <3>1. UserdFromRm(k) = {NULL}
        BY <2>3 DEF UserdFromRm
      <3>2. worker.userd = NULL
        BY <2>4, <2>5 DEF ResolveChannel
      <3>3. worker'.userd = NULL
        BY <1>0, <2>5, <3>1, <3>2 DEF ResolveChannel, Resolver
      <3> QED
        BY <3>3
    <2>6. CASE LookupUserd
      <3> DEFINE p == nv_dbell_bar1_offset_kva(k)
      <3>1. held => p \in {NULL, Home[k]}
        <4> SUFFICES ASSUME held PROVE p \in {NULL, Home[k]}
          OBVIOUS
        <4>1. Home[k] \in Maps
          BY <2>2, LayoutAssumption
        <4>2. PICK h \in Rows : bar1[h] = Home[k]
          BY <4>1 DEF HomeInv
        <4> HIDE DEF k
        <4> QED
          BY <2>2, <2>3, <4>2, OffsetHome
      <3> HIDE DEF p
      <3>2. worker'.pc = "gpfifo" /\ (worker'.userd = p \/ worker'.userd = worker.userd)
        BY <1>0, <2>6 DEF LookupUserd, Resolver, p
      <3> HIDE DEF held
      <3> QED
        BY <2>4, <3>1, <3>2
    <2>7. CASE LookupRing
      <3>1. worker'.pc = "publish" /\ worker'.userd = worker.userd
        BY <1>0, <2>7 DEF LookupRing, Resolver
      <3> HIDE DEF held
      <3> QED
        BY <2>4, <3>1
    <2> QED
      BY <1>5, <2>5, <2>6, <2>7
  <1>6. CASE Publish
    <2>1. Busy /\ ~Busy'
      BY <1>6, Publishes DEF Busy
    <2>2. \A e \in Entries : cache'[e].key = cache[e].key /\ cache'[e].homed \in {FALSE, cache[e].homed}
      BY <1>6, Publishes
    <2>3. HomeInv'
      <3>1. \A e \in Entries : cache'[e].homed => cache'[e].key \in Keys /\ vma'[HomeOf(e)'].st # "off"
        BY <1>0, <2>2 DEF HomeInv, HomeOf
      <3> QED
        BY <1>2, <2>1, <3>1 DEF HomeInv
    <2>4. UserdAtHome'
      <3> SUFFICES ASSUME NEW e \in Entries, cache'[e].state = "RESOLVED",
                          Space[cache'[e].key] = "fb", cache'[e].homed,
                          vma'[Home[cache'[e].key]].st = "mapped"
                   PROVE  cache'[e].userd = Home[cache'[e].key]
        BY DEF UserdAtHome
      <3>1. CASE e = worker.e
        <4>1. /\ worker.userd # NULL /\ cache'[e].userd = worker.userd /\ cache'[e].key = k
              /\ cache'[e].homed = cache[e].homed
          BY <1>6, <3>1, Publishes
        <4>2. worker.userd \in {NULL, Home[k]}
          BY <1>0, <2>1, <3>1, <4>1 DEF HomeInv, HomeOf
        <4> QED
          BY <4>1, <4>2
      <3>2. CASE e # worker.e
        <4>1. cache'[e] = cache[e]
          BY <1>6, <3>2, Publishes
        <4> QED
          BY <1>0, <4>1 DEF UserdAtHome
      <3> QED
        BY <3>1, <3>2
    <2> QED
      BY <2>3, <2>4
  <1> QED
    BY <1>4, <1>5, <1>6 DEF WorkerStep

\* The other steps leave the resolver and its entry alone, and no mapping becomes
\* mapped that was seen at a reservation and was not mapped before.
LEMMA HomeKept ==
    ASSUME TypeOK, HomeInv, UserdAtHome,
           UNCHANGED worker, Busy => cache'[worker.e] = cache[worker.e],
           \A e \in Entries : cache'[e].state = "RESOLVED" => cache'[e] = cache[e],
           \A m \in Maps : vma'[m].st = "mapped" => vma[m].st \in {"off", "mapped"},
           \A m \in Maps : vma'[m].st = "mapped" => \E j \in Rows : bar1'[j] = m,
           \A e \in Entries : cache'[e].homed => cache'[e].key \in Keys /\ vma'[HomeOf(e)'].st # "off"
    PROVE  HomeInv' /\ UserdAtHome'
  <1>0. worker.e \in Entries /\ \A k \in Keys : Home[k] \in Maps
    BY LayoutAssumption DEF TypeOK, Resolver
  <1>1. ASSUME NEW e \in Entries, cache'[e] = cache[e], cache[e].homed,
               vma'[Home[cache[e].key]].st = "mapped"
        PROVE  vma[Home[cache[e].key]].st = "mapped"
    <2>1. cache[e].key \in Keys /\ vma[HomeOf(e)].st # "off"
      BY <1>1 DEF HomeInv
    <2> QED
      BY <1>0, <1>1, <2>1 DEF HomeOf
  <1>2. HomeInv'
    <2>1. Busy' /\ Space[cache'[worker'.e].key] = "fb" =>
             /\ worker'.pc \in {"rm", "userd"} => worker'.userd = NULL
             /\ cache'[worker'.e].homed /\ vma'[HomeOf(worker.e)'].st = "mapped" =>
                   worker'.userd \in {NULL, HomeOf(worker.e)'}
      BY <1>0, <1>1 DEF HomeInv, HomeOf, Busy
    <2> QED
      BY <2>1 DEF HomeInv, HomeOf
  <1>3. UserdAtHome'
    BY <1>1 DEF UserdAtHome
  <1> QED
    BY <1>2, <1>3

LEMMA NextHome ==
    ASSUME HomeIsLargest
    PROVE  TypeOK /\ OwnInv /\ KeyInv /\ HomeInv /\ UserdAtHome /\ [Next]_vars
               => HomeInv' /\ UserdAtHome'
  <1> SUFFICES ASSUME TypeOK, OwnInv, KeyInv, HomeInv, UserdAtHome, [Next]_vars
               PROVE  HomeInv' /\ UserdAtHome'
    OBVIOUS
  <1>1. CASE UNCHANGED shared
    BY <1>1 DEF shared, HomeInv, UserdAtHome, HomeOf, Busy
  <1>2. ASSUME NEW t \in Threads, ReserveWon(t) \/ Fill(t) \/ EnqueueOk(t) \/ EnqueueFail(t)
        PROVE  HomeInv' /\ UserdAtHome'
    <2>1. UNCHANGED <<bar1, vma>>
      BY <1>2, Reserves, Fills, Schedules, Rollbacks
    <2>2. ASSUME NEW e \in Entries, cache'[e].homed
          PROVE  cache'[e].key \in Keys /\ vma'[HomeOf(e)'].st # "off"
      <3>1. CASE Fill(t) /\ e = th[t].e
        <4>1. /\ th[t].key \in Keys /\ cache'[e].key = th[t].key
              /\ vma[Home[th[t].key]].st = "mapped"
          BY <2>2, <3>1, Fills DEF KeyInv
        <4> QED
          BY <2>1, <4>1 DEF HomeOf
      <3>2. CASE ~(Fill(t) /\ e = th[t].e)
        <4>1. cache'[e].key = cache[e].key /\ cache[e].homed
          <5>1. CASE ReserveWon(t)
            BY <2>2, <5>1, Reserves
          <5>2. CASE Fill(t)
            BY <2>2, <3>2, <5>2, Fills
          <5>3. CASE EnqueueOk(t)
            BY <2>2, <5>3, Schedules
          <5>4. CASE EnqueueFail(t)
            BY <2>2, <5>4, Rollbacks
          <5> QED
            BY <1>2, <5>1, <5>2, <5>3, <5>4
        <4> QED
          BY <2>1, <4>1 DEF HomeInv, HomeOf
      <3> QED
        BY <3>1, <3>2
    <2>3. \A m \in Maps : vma'[m].st = "mapped" => \E j \in Rows : bar1'[j] = m
      BY <2>1 DEF HomeInv
    <2>4. /\ UNCHANGED worker /\ (Busy => cache'[worker.e] = cache[worker.e])
          /\ \A e \in Entries : cache'[e].state = "RESOLVED" => cache'[e] = cache[e]
      BY <1>2, WorkKept, ResolvedKept
    <2> QED
      BY <2>1, <2>2, <2>3, <2>4, HomeKept
  <1>3. ASSUME NEW m \in Maps, TrackAdd(m) \/ nv_dbell_bar1_track_remove(m)
        PROVE  HomeInv' /\ UserdAtHome'
    <2>1. \A n \in Maps : /\ vma'[n].st = "mapped" => vma[n].st \in {"off", "mapped"}
                          /\ vma'[n].st = "off" => vma[n].st = "off"
      <3>1. OtherMaps(m)
        BY <1>3, Remaps, Tests, Parks, NextEntries DEF nv_dbell_bar1_track_remove
      <3>2. /\ vma'[m].st = "mapped" => vma[m].st \in {"off", "mapped"}
            /\ vma'[m].st # "off"
        <4>1. CASE TrackAdd(m) \/ Untrack(m) \/ Iounmap(m)
          BY <4>1, Remaps
        <4>2. CASE InvalidateTest(m)
          BY <4>2, Tests, NextEntries
        <4>3. CASE InvalidateStore(m)
          BY <4>3, Parks, NextEntries
        <4> QED
          BY <1>3, <4>1, <4>2, <4>3 DEF nv_dbell_bar1_track_remove
      <3> QED
        BY <3>1, <3>2 DEF OtherMaps
    <2>2. ASSUME NEW n \in Maps, vma'[n].st = "mapped" PROVE \E j \in Rows : bar1'[j] = n
      <3>1. CASE TrackAdd(m)
        <4>1. \A j \in Rows : bar1[j] # NULL => bar1'[j] = bar1[j]
          BY <3>1 DEF TrackAdd, FreeRow, TypeOK, Rows
        <4>2. NULL \notin Maps
          BY NullAssumption DEF Kva
        <4>3. CASE n = m
          <5>1. vma' # [vma EXCEPT ![m].st = "dead"]
            BY <2>2, <4>3 DEF TypeOK, Mapping
          <5>2. PICK j \in Rows : bar1' = [bar1 EXCEPT ![j] = m]
            BY <3>1, <5>1 DEF TrackAdd
          <5> QED
            BY <4>3, <5>2 DEF TypeOK, Rows
        <4>4. CASE n # m
          <5>1. vma[n].st = "mapped"
            BY <2>2, <3>1, <4>4, Remaps DEF OtherMaps
          <5>2. PICK j \in Rows : bar1[j] = n
            BY <5>1 DEF HomeInv
          <5> QED
            BY <4>1, <4>2, <5>2
        <4> QED
          BY <4>3, <4>4
      <3>2. CASE Untrack(m)
        <4>1. n # m /\ vma[n].st = "mapped"
          BY <2>2, <3>2, Remaps DEF OtherMaps, Untrack
        <4>2. PICK j \in Rows : bar1[j] = n
          BY <4>1 DEF HomeInv
        <4> QED
          BY <3>2, <4>1, <4>2 DEF Untrack
      <3>3. CASE InvalidateTest(m) \/ InvalidateStore(m) \/ Iounmap(m)
        <4>1. UNCHANGED bar1
          BY <3>3 DEF InvalidateTest, InvalidateStore, Iounmap
        <4>2. vma[n].st = "mapped"
          <5>1. OtherMaps(m) /\ vma'[m].st # "mapped"
            BY <3>3, Remaps, Tests, Parks, NextEntries DEF Iounmap
          <5> QED
            BY <2>2, <5>1 DEF OtherMaps
        <4> QED
          BY <4>1, <4>2 DEF HomeInv
      <3> QED
        BY <1>3, <3>1, <3>2, <3>3 DEF nv_dbell_bar1_track_remove
    <2>3. ASSUME NEW e \in Entries, cache'[e].homed
          PROVE  cache'[e].key \in Keys /\ vma'[HomeOf(e)'].st # "off"
      <3>1. cache'[e].key = cache[e].key /\ cache[e].homed
        <4>1. CASE InvalidateStore(m)
          BY <2>3, <4>1, Parks
        <4>2. CASE ~InvalidateStore(m)
          BY <1>3, <2>3, <4>2, Remaps, Tests DEF nv_dbell_bar1_track_remove
        <4> QED
          BY <4>1, <4>2
      <3>2. cache[e].key \in Keys /\ vma[HomeOf(e)].st # "off" /\ HomeOf(e) \in Maps
        BY <3>1, LayoutAssumption DEF HomeInv, HomeOf
      <3> QED
        BY <2>1, <3>1, <3>2 DEF HomeOf
    <2>4. /\ UNCHANGED worker /\ (Busy => cache'[worker.e] = cache[worker.e])
          /\ \A e \in Entries : cache'[e].state = "RESOLVED" => cache'[e] = cache[e]
      BY <1>3, WorkKept, ResolvedKept
    <2> QED
      BY <2>1, <2>2, <2>3, <2>4, HomeKept
  <1> QED
    BY <1>1, <1>2, <1>3, StepKinds, WorkerHome

\* A USERD at a small offset fits every mapping, and nv_dbell_bar1_offset_kva compares
\* nothing but sizes.  As long as the mapping that holds it is the one big mapping and
\* was tracked when the entry was reserved, the entry points into it, however many
\* small mappings come and go and whatever the other CPUs do to the cache.
THEOREM UserdAtHomeHolds ==
    ASSUME HomeIsLargest
    PROVE  Spec /\ []SerialTeardown => []UserdAtHome
  <1>1. TypeOK /\ OwnInv /\ KeyInv /\ HomeInv /\ UserdAtHome /\ [Next]_vars
            => HomeInv' /\ UserdAtHome'
    BY NextHome
  <1> QED
    BY TypeCorrect, Ownership, KeysSettled, InitHome, <1>1, PTL DEF Spec
=============================================================================

------------------------ MODULE PushbufReadoutProofs ------------------------
(***************************************************************************)
(* Proofs about PushbufReadout, for any number of threads, channels,        *)
(* mappings, pushbuffers, rows and ring entries.                             *)
(*                                                                         *)
(* Two invariants.  TableInv says who accounts for each vmap and what the    *)
(* locals of a handler hold; it needs no assumption on who rings what.       *)
(* ReadoutInv ties the handler to the channel it decodes: the ring entry     *)
(* before GP_PUT is that of the last submission, and the dedup cursor is at   *)
(* the last submission rung.  It rests on the two hypotheses the code makes:  *)
(* a channel has one submitting thread ("single-writer"), and the tracked    *)
(* mappings are those of one address space.                                  *)
(***************************************************************************)
EXTENDS PushbufReadout, FiniteSetTheorems, SequenceTheorems, TLAPS

\* The hypothesis of the cursor's comment: one thread rings each channel.
SingleWriter ==
    \A t, u \in Threads, c \in Chans : <<t, c>> \in Rings /\ <<u, c>> \in Rings => t = u

\* The mappings are VMAs of one process, which do not overlap.
DisjointMappings ==
    \A m, k \in Bufs : m # k => End[m] <= Start[k] \/ End[k] <= Start[m]

-----------------------------------------------------------------------------
(* The invariant of the tracker and of a handler's locals.                     *)

RowInv ==
    /\ \A j, l \in Rows : rows[j] # NULL /\ rows[j] = rows[l] => j = l
    /\ \A m \in Bufs : Tracked(m) => vm[m] = "on"
    /\ \A m \in Bufs : m \in kva <=> Tracked(m) \/ vm[m] \in {"insert", "full", "vunmap"}

Shown(len) == len \in 1 .. MaxWords

\* While words are copied, off counts whole chunks and copied stops at the end.
Copying(r) ==
    /\ r.buf \in Bufs /\ Start[r.buf] <= r.va /\ r.va + r.len <= End[r.buf]
    /\ Shown(r.len)
    /\ r.off = r.ck * Chunk /\ r.off < r.len + Chunk
    /\ r.copied = IF r.off < r.len THEN r.off ELSE r.len

LocalOK(r) ==
    /\ r.pc \notin {"copy", "forward"} => r.off = 0 /\ r.copied = 0 /\ r.ck = 0
    /\ r.pc = "lookup" => Shown(r.len)
    /\ r.pc = "copy" => Copying(r)

LocalInv ==
    \A t \in Threads :
        /\ LocalOK(th[t])
        /\ th[t].n <= Len(sent[th[t].c])
        /\ th[t].pc # "user" => <<t, th[t].c>> \in Rings

TableInv == TypeOK /\ RowInv /\ LocalInv

-----------------------------------------------------------------------------
(* The invariant of the readout.                                               *)

\* Address, length and ring index of the n-th submission; 0 stands for none.
VaAt(c, n) == IF n = 0 THEN 0 ELSE Address(sent[c][n])
LenAt(c, n) == IF n = 0 THEN 0 ELSE sent[c][n].len
IdxAt(n) == Latest(n % RingSize)
Last(c) == Len(sent[c])

EntryOf(va, len) == [e0 |-> va % WordBase, e1 |-> [hi |-> va \div WordBase, len |-> len]]

\* The entry before GP_PUT is the last submission's; fewer are unrung than the
\* ring holds, and none of them has lost its mapping.
RingOK(c) ==
    /\ chan[c].put = Last(c) % RingSize
    /\ chan[c].ring[IdxAt(Last(c))] = EntryOf(VaAt(c, Last(c)), LenAt(c, Last(c)))
    /\ Last(c) < chan[c].rung + RingSize
    /\ \A n \in Unrung(c) : vm[sent[c][n].buf] = "on"

\* What the handler has read is the last submission of its channel.
DecodeOK(t) ==
    LET c == th[t].c IN
    /\ th[t].pc \notin {"user", "put"} => th[t].n = Last(c) /\ th[t].idx = IdxAt(Last(c))
    /\ th[t].pc = "e1" => th[t].va = VaAt(c, Last(c)) % WordBase
    /\ th[t].pc \notin {"user", "put", "e0", "e1"} =>
          th[t].va = VaAt(c, Last(c)) /\ th[t].len = LenAt(c, Last(c))

\* The trace of c ends before submission n, or with n of an earlier resolution.
LogBelow(c, n) ==
    \A i \in DOMAIN log[c] :
        \/ log[c][i].n < n
        \/ log[c][i].n = n /\ log[c][i].gen < chan[c].gen
LogUpTo(c, n) == \A i \in DOMAIN log[c] : log[c][i].n <= n

\* A handler of c has begun to move the cursor.
Moving(c) ==
    \E t \in Threads : th[t].c = c /\ th[t].pc \in {"setva", "lookup", "copy", "forward"}

\* At rest the trace ends at the last submission rung, and so does the cursor, unless
\* it was reset: then the records are of earlier resolutions, and what comes next is a
\* new submission or the first doorbell after the reset.
RestOK(c) ==
    ~Moving(c) =>
        /\ LogUpTo(c, chan[c].rung)
        /\ IF chan[c].lastIdx = Never
           THEN /\ \A i \in DOMAIN log[c] : log[c][i].gen < chan[c].gen
                /\ chan[c].again \/ chan[c].rung < Last(c) \/ Last(c) = 0
           ELSE chan[c].lastIdx = IdxAt(chan[c].rung) /\ chan[c].lastVa = VaAt(c, chan[c].rung)

\* A handler that emits is ahead of the trace, and moves the cursor to its entry.
MoveOK(t) ==
    LET c == th[t].c IN
    /\ th[t].pc \in {"va", "setva", "lookup", "copy", "forward"} => chan[c].lastIdx = th[t].idx
    /\ th[t].pc \in {"lookup", "copy", "forward"} => chan[c].lastVa = th[t].va
    /\ th[t].pc \in {"setidx", "setva", "lookup", "copy"} => LogBelow(c, th[t].n)
    /\ th[t].pc = "forward" => LogUpTo(c, th[t].n)

\* A handler that gets past the cursor decodes something not yet rung, unless the
\* cursor was reset.
FreshOK(t) ==
    LET c == th[t].c IN
    th[t].pc \in {"setidx", "setva", "lookup", "copy"} =>
        chan[c].again \/ chan[c].rung < th[t].n \/ th[t].n = 0

\* The mapping that is copied from is the submission's, and it is tracked.
SourceOK(t) ==
    th[t].pc = "copy" =>
        /\ th[t].buf = sent[th[t].c][th[t].n].buf
        /\ chan[th[t].c].again \/ Tracked(th[t].buf)

\* What goes to the GPU for the first time has been emitted, if it can be shown.
EmitOK(t) ==
    LET c == th[t].c  n == th[t].n IN
    /\ th[t].pc = "forward" /\ n > chan[c].rung
    /\ sent[c][n].len \in 1 .. MaxWords /\ Tracked(sent[c][n].buf)
    => \E i \in DOMAIN log[c] : log[c][i].n = n

InOrder(r, s) == r.n < s.n \/ (r.n = s.n /\ r.gen < s.gen)

\* The trace of c: every record names a submission, later ones later submissions.
LogOK(c) ==
    \A i \in DOMAIN log[c] :
        /\ log[c][i].n \in 1 .. Last(c)
        /\ log[c][i].gen <= chan[c].gen
        /\ \A j \in DOMAIN log[c] : i < j => InOrder(log[c][i], log[c][j])
        /\ [buf |-> log[c][i].buf, off |-> log[c][i].off, len |-> log[c][i].len]
              = sent[c][log[c][i].n]
        /\ log[c][i].chunks = log[c][i].total

ChanInv(c) == RingOK(c) /\ RestOK(c) /\ LogOK(c)
ThreadInv(t) == DecodeOK(t) /\ MoveOK(t) /\ FreshOK(t) /\ SourceOK(t) /\ EmitOK(t)

ReadoutInv ==
    /\ \A c \in Chans : ChanInv(c)
    /\ \A t \in Threads : ThreadInv(t)

-----------------------------------------------------------------------------
(* Division and remainder, which the ring indices, the two halves of a GPFIFO   *)
(* entry and the number of chunks need.                                         *)

LEMMA DivMod ==
    ASSUME NEW x \in Nat, NEW w \in Nat, w > 0
    PROVE  /\ x \div w \in Nat /\ x % w \in 0 .. w - 1
           /\ x = w * (x \div w) + (x % w)
<1>1. x \div w \in Nat
  OBVIOUS
<1>2. x % w \in 0 .. w - 1
  OBVIOUS
<1>3. x = w * (x \div w) + (x % w)
  OBVIOUS
<1> QED
  BY <1>1, <1>2, <1>3

LEMMA DivUnique ==
    ASSUME NEW x \in Nat, NEW w \in Nat, w > 0, NEW q \in Nat, NEW r \in Nat,
           x = w * q + r, r < w
    PROVE  x % w = r /\ x \div w = q
<1>1. x % w = r
  OBVIOUS
<1>2. x \div w = q
  OBVIOUS
<1> QED
  BY <1>1, <1>2

LEMMA Quotients ==
    ASSUME NEW a \in Nat, NEW b \in Nat, NEW w \in Nat, w > 0, NEW d \in Nat,
           w * a <= w * b + d, d < w
    PROVE  a <= b
OBVIOUS

LEMMA ModInjective ==
    ASSUME NEW a \in Nat, NEW b \in Nat, NEW w \in Nat, w > 0,
           a <= b, b < a + w, a % w = b % w
    PROVE  a = b
<1>1. PICK q \in Nat, r \in Nat : q = a \div w /\ r = a % w /\ a = w * q + r
  BY DivMod
<1>2. PICK p \in Nat, s \in Nat : p = b \div w /\ s = b % w /\ b = w * p + s
  BY DivMod
<1>8. w * p \in Nat /\ w * q \in Nat
  OBVIOUS
<1>3. w * p < w * q + w
  BY <1>1, <1>2, <1>8
<1>4. w * q <= w * p
  BY <1>1, <1>2, <1>8
<1>5. q <= p /\ p <= q
  <2>1. w * p <= w * q + (w - 1) /\ w - 1 \in Nat /\ w - 1 < w
    BY <1>3, <1>8
  <2>2. p <= q
    BY <2>1, Quotients
  <2>3. q <= p
    BY <1>4, Quotients
  <2> QED
    BY <2>2, <2>3
<1>6. p = q
  BY <1>5
<1>7. w * p = w * q /\ r = s
  BY <1>1, <1>2, <1>6
<1> QED
  BY <1>1, <1>2, <1>7, <1>8

LEMMA ModSucc ==
    ASSUME NEW a \in Nat, NEW w \in Nat, w > 0
    PROVE  (a + 1) % w = ((a % w) + 1) % w
<1>1. PICK q \in Nat, r \in Nat : q = a \div w /\ r = a % w /\ a = w * q + r
  BY DivMod
<1>8. r < w
  BY <1>1
<1>2. CASE r + 1 < w
  <2>1. a + 1 = w * q + (r + 1)
    BY <1>1
  <2>2. (a + 1) % w = r + 1
    BY <1>2, <2>1, DivUnique
  <2>3. (r + 1) % w = r + 1
    BY <1>2
  <2> QED
    BY <1>1, <2>2, <2>3
<1>3. CASE r + 1 = w
  <2>0. w * (q + 1) = w * q + w /\ w * q \in Nat
    OBVIOUS
  <2>1. PICK p \in Nat : p = q + 1
    OBVIOUS
  <2>4. a + 1 \in Nat /\ a + 1 = w * p + 0
    BY <1>1, <1>3, <2>0, <2>1
  <2>2. (a + 1) % w = 0
    BY <2>4, DivUnique
  <2>3. w % w = 0
    OBVIOUS
  <2> QED
    BY <1>1, <1>3, <2>2, <2>3
<1> QED
  BY <1>8, <1>2, <1>3

LEMMA LatestOf ==
    ASSUME NEW w \in Nat, w > 1, NEW p \in 0 .. w - 1, NEW q, q = (p + 1) % w
    PROVE  (q + w - 1) % w = p
<1>1. CASE p + 1 < w
  <2>1. q = p + 1
    BY <1>1
  <2> QED
    BY <1>1, <2>1
<1>2. CASE p + 1 = w
  <2>1. q = 0
    BY <1>2
  <2> QED
    BY <1>2, <2>1
<1> QED
  BY <1>1, <1>2

LEMMA CeilDiv ==
    ASSUME NEW k \in Nat, NEW len \in Nat, NEW c \in Nat, c > 0,
           len <= k * c, k * c < len + c
    PROVE  (len + c - 1) \div c = k
OBVIOUS

LEMMA RingFacts == RingSize \in Nat /\ RingSize > 1 /\ RingSize > 0
BY RingAssumption

\* The slot before GP_PUT after n + 1 submissions is the one GP_PUT was at after n.
LEMMA IdxFacts ==
    ASSUME NEW n \in Nat
    PROVE  /\ n % RingSize \in Indices /\ IdxAt(n) \in Indices
           /\ IdxAt(n + 1) = n % RingSize
<1>1. n % RingSize \in Indices /\ IdxAt(n) \in Indices
  BY RingFacts, DivMod DEF Indices, IdxAt, Latest
<1> DEFINE p == n % RingSize
           q == (p + 1) % RingSize
<1>2. q = (n + 1) % RingSize
  BY RingFacts, ModSucc
<1>3. p \in 0 .. RingSize - 1
  BY <1>1 DEF Indices
<1>4. (q + RingSize - 1) % RingSize = p
  <2> HIDE DEF p
  <2> QED
    BY <1>3, RingFacts, LatestOf
<1> QED
  BY <1>1, <1>2, <1>4 DEF IdxAt, Latest

\* Submissions less than a ring apart are at different indices.
LEMMA IdxDistinct ==
    ASSUME NEW r \in Nat, NEW n \in Nat, r <= n, n < r + RingSize, IdxAt(n) = IdxAt(r)
    PROVE  r = n
<1>1. ASSUME NEW p \in Indices, NEW q \in Indices, Latest(p) = Latest(q) PROVE p = q
  BY <1>1, RingFacts DEF Indices, Latest
<1>2. n % RingSize = r % RingSize
  BY <1>1, IdxFacts DEF IdxAt
<1> QED
  BY <1>2, RingFacts, ModInjective

-----------------------------------------------------------------------------
(* The tracker's invariant is inductive.                                       *)

LEMMA ConstantFacts ==
    /\ \A p \in Pushbufs : /\ p.buf \in Bufs /\ p.off \in Nat /\ p.len \in Nat /\ p.len \in Lengths
                           /\ p = [buf |-> p.buf, off |-> p.off, len |-> p.len]
                           /\ Address(p) \in Nat
    /\ \A len \in Lengths : len \in Nat
    /\ 0 \in Lengths /\ 0 \in Words
    /\ \A m \in Bufs : Start[m] \in Nat /\ End[m] \in Nat /\ m # NULL
<1>1. \A m \in Bufs : Start[m] \in Nat /\ End[m] \in Nat /\ m # NULL
  BY LayoutAssumption
<1>2. \A p \in Pushbufs : p.buf \in Bufs /\ p.off \in Nat /\ p.len \in Nat
                          /\ p = [buf |-> p.buf, off |-> p.off, len |-> p.len]
  BY LayoutAssumption
<1>3. \A p \in Pushbufs : Address(p) \in Nat
  BY <1>1, <1>2 DEF Address
<1> QED
  BY <1>1, <1>2, <1>3, ChunkAssumption DEF Lengths, Words

LEMMA ThreadUpdate ==
    ASSUME TypeOK, NEW t \in Threads, NEW r \in Handler, th' = [th EXCEPT ![t] = r]
    PROVE  /\ th' \in [Threads -> Handler] /\ th'[t] = r
           /\ \A u \in Threads : u # t => th'[u] = th[u]
BY DEF TypeOK

LEMMA InUserOK == InUser \in Handler /\ LocalOK(InUser)
<1>1. (CHOOSE c \in Chans : TRUE) \in Chans
  BY LayoutAssumption
<1> QED
  BY <1>1, ConstantFacts, RingFacts, ChunkAssumption DEF InUser, Handler, LocalOK, Indices, Words

LEMMA TableInit == Init => TableInv
<1> SUFFICES ASSUME Init PROVE TableInv
  OBVIOUS
<1>1. th \in [Threads -> Handler]
  BY InUserOK DEF Init
<1>2. NewChannel \in Channel
  BY ConstantFacts, RingFacts, ChunkAssumption DEF NewChannel, Channel, Indices, ZeroEntry
<1>3. chan \in [Chans -> Channel]
  BY <1>2 DEF Init
<1>4. \A c \in Chans : chan[c].rung = 0 /\ sent[c] = << >> /\ Len(sent[c]) = 0
  BY DEF Init, NewChannel
<1>5. TypeOK
  BY <1>1, <1>3, <1>4 DEF Init, TypeOK
<1>6. RowInv
  BY ConstantFacts DEF Init, RowInv, Tracked
<1>7. LocalInv
  <2> SUFFICES ASSUME NEW t \in Threads
               PROVE  /\ LocalOK(th[t]) /\ th[t].n <= Len(sent[th[t].c])
                      /\ th[t].pc # "user" => <<t, th[t].c>> \in Rings
    BY DEF LocalInv
  <2>1. th[t] = InUser
    BY DEF Init
  <2>2. th[t].n = 0 /\ th[t].pc = "user" /\ th[t].c \in Chans
    BY <2>1, InUserOK DEF InUser, Handler
  <2> QED
    BY <1>4, <2>1, <2>2, InUserOK
<1> QED
  BY <1>5, <1>6, <1>7 DEF TableInv

\* The steps of the tracker leave the threads and the channels alone.
LEMMA LocalFrame ==
    ASSUME TableInv, UNCHANGED <<th, sent>>
    PROVE  LocalInv'
BY DEF TableInv, LocalInv

LEMMA MmapTable ==
    ASSUME TableInv, NEW m \in Bufs, Mmap(m)
    PROVE  TableInv'
<1>1. TypeOK'
  BY DEF TableInv, TypeOK, Mmap
<1>2. \A k \in Bufs : Tracked(k)' <=> Tracked(k)
  BY DEF Mmap, Tracked
<1>3. ~Tracked(m) /\ vm[m] = "off"
  BY DEF Mmap, TableInv, RowInv
<1>4. RowInv'
  <2>1. rows' = rows /\ \A k \in Bufs : k # m => vm'[k] = vm[k] /\ (k \in kva' <=> k \in kva)
    BY DEF TableInv, TypeOK, Mmap
  <2>2. \/ vm'[m] = "insert" /\ m \in kva'
        \/ vm'[m] = "on" /\ kva' = kva
    BY DEF TableInv, TypeOK, Mmap
  <2> QED
    BY <1>2, <1>3, <2>1, <2>2 DEF TableInv, RowInv
<1> QED
  BY <1>1, <1>4, LocalFrame DEF TableInv, Mmap

LEMMA TrackInsertTable ==
    ASSUME TableInv, NEW m \in Bufs, TrackInsert(m)
    PROVE  TableInv'
<1>1. vm[m] = "insert" /\ kva' = kva /\ ~Tracked(m) /\ m \in kva
  BY DEF TrackInsert, TableInv, RowInv
<1>2. CASE \E j \in Rows :
              /\ FreeRow(j)
              /\ rows' = [rows EXCEPT ![j] = m] /\ vm' = [vm EXCEPT ![m] = "on"]
  <2>1. PICK j \in Rows : /\ rows[j] = NULL
                          /\ rows' = [rows EXCEPT ![j] = m] /\ vm' = [vm EXCEPT ![m] = "on"]
    BY <1>2 DEF FreeRow
  <2>2. TypeOK'
    BY <2>1 DEF TableInv, TypeOK, TrackInsert
  <2>3. rows'[j] = m /\ \A l \in Rows : l # j => rows'[l] = rows[l]
    BY <2>1 DEF TableInv, TypeOK
  <2>4. Tracked(m)' /\ \A k \in Bufs : k # m => (Tracked(k)' <=> Tracked(k))
    BY <2>1, <2>3, ConstantFacts DEF Tracked
  <2>5. vm'[m] = "on" /\ \A k \in Bufs : k # m => vm'[k] = vm[k]
    BY <2>1 DEF TableInv, TypeOK
  <2>6. \A l \in Rows : rows[l] # m
    BY <1>1 DEF Tracked
  <2>7. RowInv'
    BY <1>1, <2>3, <2>4, <2>5, <2>6 DEF TableInv, RowInv
  <2> QED
    BY <2>2, <2>7, LocalFrame DEF TableInv, TrackInsert
<1>3. CASE vm' = [vm EXCEPT ![m] = "full"] /\ UNCHANGED rows
  <2>1. TypeOK'
    BY <1>3 DEF TableInv, TypeOK, TrackInsert
  <2>2. vm'[m] = "full" /\ \A k \in Bufs : k # m => vm'[k] = vm[k]
    BY <1>3 DEF TableInv, TypeOK
  <2>3. \A k \in Bufs : Tracked(k)' <=> Tracked(k)
    BY <1>3 DEF Tracked
  <2>4. RowInv'
    BY <1>1, <1>3, <2>2, <2>3 DEF TableInv, RowInv
  <2> QED
    BY <2>1, <2>4, LocalFrame DEF TableInv, TrackInsert
<1> QED
  BY <1>2, <1>3 DEF TrackInsert

LEMMA TrackFullTable ==
    ASSUME TableInv, NEW m \in Bufs, TrackFull(m)
    PROVE  TableInv'
<1>1. TypeOK'
  BY DEF TableInv, TypeOK, TrackFull
<1>2. \A k \in Bufs : Tracked(k)' <=> Tracked(k)
  BY DEF TrackFull, Tracked
<1>3. ~Tracked(m)
  BY DEF TrackFull, TableInv, RowInv
<1>4. /\ rows' = rows /\ vm'[m] = "on" /\ m \notin kva'
      /\ \A k \in Bufs : k # m => vm'[k] = vm[k] /\ (k \in kva' <=> k \in kva)
  BY DEF TableInv, TypeOK, TrackFull
<1>5. RowInv'
  BY <1>2, <1>3, <1>4 DEF TableInv, RowInv
<1> QED
  BY <1>1, <1>5, LocalFrame DEF TableInv, TrackFull

LEMMA UntrackTable ==
    ASSUME TableInv, NEW m \in Bufs, Untrack(m)
    PROVE  /\ TableInv'
           /\ \A k \in Bufs : k # m => vm'[k] = vm[k] /\ (Tracked(k)' <=> Tracked(k))
<1>1. \A j \in Rows : rows'[j] = IF rows[j] = m THEN NULL ELSE rows[j]
  BY DEF Untrack
<1>2. ~Tracked(m)' /\ \A k \in Bufs : k # m => (Tracked(k)' <=> Tracked(k))
  BY <1>1, ConstantFacts DEF Tracked
<1>3. vm'[m] = (IF Tracked(m) THEN "vunmap" ELSE "off") /\ \A k \in Bufs : k # m => vm'[k] = vm[k]
  BY DEF Untrack, Tracked, TableInv, TypeOK
<1>4. TypeOK'
  BY ConstantFacts DEF TableInv, TypeOK, Untrack
<1>5. RowInv'
  <2>1. kva' = kva /\ vm[m] = "on"
    BY DEF Untrack
  <2>2. m \in kva <=> Tracked(m)
    BY <2>1 DEF TableInv, RowInv
  <2> QED
    BY <1>1, <1>2, <1>3, <2>1, <2>2 DEF TableInv, RowInv
<1> QED
  BY <1>2, <1>3, <1>4, <1>5, LocalFrame DEF TableInv, Untrack

LEMMA VunmapTable ==
    ASSUME TableInv, NEW m \in Bufs, Vunmap(m)
    PROVE  TableInv'
<1>1. TypeOK'
  BY DEF TableInv, TypeOK, Vunmap
<1>2. \A k \in Bufs : Tracked(k)' <=> Tracked(k)
  BY DEF Vunmap, Tracked
<1>3. ~Tracked(m)
  BY DEF Vunmap, TableInv, RowInv
<1>4. /\ rows' = rows /\ vm'[m] = "off" /\ m \notin kva'
      /\ \A k \in Bufs : k # m => vm'[k] = vm[k] /\ (k \in kva' <=> k \in kva)
  BY DEF TableInv, TypeOK, Vunmap
<1>5. RowInv'
  BY <1>2, <1>3, <1>4 DEF TableInv, RowInv
<1> QED
  BY <1>1, <1>5, LocalFrame DEF TableInv, Vunmap

\* A step of thread t that leaves the tracker and the submissions alone.
LEMMA HandlerTable ==
    ASSUME TableInv, NEW t \in Threads, NEW r \in Handler, LocalOK(r),
           r.n <= Len(sent[r.c]), r.pc # "user" => <<t, r.c>> \in Rings,
           th' = [th EXCEPT ![t] = r], UNCHANGED <<rows, vm, kva, sent>>,
           chan' \in [Chans -> Channel], \A c \in Chans : chan'[c].rung <= Len(sent[c]),
           log' \in [Chans -> Seq(Record)]
    PROVE  /\ TableInv' /\ th'[t] = r
           /\ \A u \in Threads : u # t => th'[u] = th[u]
<1>1. /\ th' \in [Threads -> Handler] /\ th'[t] = r
      /\ \A u \in Threads : u # t => th'[u] = th[u]
  BY ThreadUpdate DEF TableInv
<1>2. TypeOK'
  BY <1>1 DEF TableInv, TypeOK
<1>3. RowInv'
  BY DEF TableInv, RowInv, Tracked
<1>4. LocalInv'
  BY <1>1 DEF TableInv, LocalInv
<1> QED
  BY <1>1, <1>2, <1>3, <1>4 DEF TableInv

\* The part of TypeOK and LocalInv that a handler's step starts from.
LEMMA HandlerFacts ==
    ASSUME TableInv, NEW t \in Threads
    PROVE  /\ th[t] \in Handler /\ LocalOK(th[t]) /\ th[t].n <= Len(sent[th[t].c])
           /\ th[t].pc # "user" => <<t, th[t].c>> \in Rings
           /\ th[t].c \in Chans /\ chan[th[t].c] \in Channel
           /\ Len(sent[th[t].c]) \in Nat
           /\ chan \in [Chans -> Channel] /\ log \in [Chans -> Seq(Record)]
           /\ \A c \in Chans : chan[c].rung <= Len(sent[c])
<1>1. th[t] \in Handler
  BY DEF TableInv, TypeOK
<1>2. th[t].c \in Chans
  BY <1>1 DEF Handler
<1> QED
  BY <1>1, <1>2 DEF TableInv, TypeOK, LocalInv

\* The step only moves the program counter.
LEMMA GotoTable ==
    ASSUME TableInv, NEW t \in Threads, NEW pc, Goto(t, pc),
           UNCHANGED <<rows, vm, kva, sent>>,
           [th[t] EXCEPT !.pc = pc] \in Handler, LocalOK([th[t] EXCEPT !.pc = pc]),
           th[t].pc # "user",
           chan' \in [Chans -> Channel], \A c \in Chans : chan'[c].rung <= Len(sent[c]),
           log' \in [Chans -> Seq(Record)]
    PROVE  /\ TableInv' /\ th'[t] = [th[t] EXCEPT !.pc = pc]
           /\ \A u \in Threads : u # t => th'[u] = th[u]
<1> DEFINE r == [th[t] EXCEPT !.pc = pc]
<1>1. r.n = th[t].n /\ r.c = th[t].c
  BY HandlerFacts DEF Handler
<1>2. th' = [th EXCEPT ![t] = r]
  BY DEF Goto
<1>3. r.n <= Len(sent[r.c]) /\ <<t, r.c>> \in Rings
  BY <1>1, HandlerFacts
<1>4. r \in Handler /\ LocalOK(r)
  OBVIOUS
<1> HIDE DEF r
<1>5. /\ TableInv' /\ th'[t] = r
      /\ \A u \in Threads : u # t => th'[u] = th[u]
  BY <1>2, <1>3, <1>4, HandlerTable
<1> QED
  BY <1>5 DEF r

LEMMA ReadGpPutTable ==
    ASSUME TableInv, NEW t \in Threads, ReadGpPut(t)
    PROVE  /\ TableInv'
           /\ th'[t] = [th[t] EXCEPT !.pc = "e0", !.idx = Latest(chan[th[t].c].put),
                                     !.n = Len(sent[th[t].c])]
           /\ \A u \in Threads : u # t => th'[u] = th[u]
<1> DEFINE i == Latest(chan[th[t].c].put)
           r == [th[t] EXCEPT !.pc = "e0", !.idx = i, !.n = Len(sent[th[t].c])]
<1>1. i \in Indices
  <2>1. chan[th[t].c].put \in Indices
    BY HandlerFacts DEF Channel
  <2> QED
    BY <2>1, RingFacts DEF Latest, Indices
<1>2. r \in Handler /\ r.n = Len(sent[r.c]) /\ r.c = th[t].c
  <2> HIDE DEF i
  <2> QED
    BY <1>1, HandlerFacts DEF Handler
<1>3. LocalOK(r) /\ <<t, r.c>> \in Rings
  <2> HIDE DEF i
  <2> QED
    BY <1>1, <1>2, HandlerFacts DEF Handler, LocalOK, ReadGpPut
<1>4. th' = [th EXCEPT ![t] = r]
  BY DEF ReadGpPut
<1>5. r.n <= Len(sent[r.c])
  BY <1>2, HandlerFacts
<1>6. UNCHANGED <<rows, vm, kva, chan, sent, log>>
  BY DEF ReadGpPut
<1> HIDE DEF r
<1>7. /\ TableInv' /\ th'[t] = r
      /\ \A u \in Threads : u # t => th'[u] = th[u]
  BY <1>2, <1>3, <1>4, <1>5, <1>6, HandlerFacts, HandlerTable
<1> QED
  BY <1>7 DEF r

LEMMA ReadEntry0Table ==
    ASSUME TableInv, NEW t \in Threads, ReadEntry0(t)
    PROVE  /\ TableInv'
           /\ th'[t] = [th[t] EXCEPT !.pc = "e1", !.va = chan[th[t].c].ring[th[t].idx].e0]
           /\ \A u \in Threads : u # t => th'[u] = th[u]
<1> DEFINE v == chan[th[t].c].ring[th[t].idx].e0
           r == [th[t] EXCEPT !.pc = "e1", !.va = v]
<1>1. v \in Nat
  <2>1. chan[th[t].c].ring[th[t].idx].e0 \in 0 .. WordBase - 1
    BY HandlerFacts DEF Channel, Handler
  <2> QED
    BY <2>1, ChunkAssumption
<1>2. r \in Handler /\ r.n = th[t].n /\ r.c = th[t].c
  <2> HIDE DEF v
  <2> QED
    BY <1>1, HandlerFacts DEF Handler
<1>3. LocalOK(r) /\ <<t, r.c>> \in Rings
  <2> HIDE DEF v
  <2> QED
    BY <1>1, <1>2, HandlerFacts DEF Handler, LocalOK, ReadEntry0
<1>4. th' = [th EXCEPT ![t] = r] /\ UNCHANGED <<rows, vm, kva, chan, sent, log>>
  BY DEF ReadEntry0
<1>5. r.n <= Len(sent[r.c])
  BY <1>2, HandlerFacts
<1> HIDE DEF r
<1>6. /\ TableInv' /\ th'[t] = r
      /\ \A u \in Threads : u # t => th'[u] = th[u]
  BY <1>2, <1>3, <1>4, <1>5, HandlerFacts, HandlerTable
<1> QED
  BY <1>6 DEF r

LEMMA ReadEntry1Table ==
    ASSUME TableInv, NEW t \in Threads, ReadEntry1(t)
    PROVE  /\ TableInv'
           /\ th'[t] = [th[t] EXCEPT !.pc = "idx",
                           !.va = chan[th[t].c].ring[th[t].idx].e1.hi * WordBase + th[t].va,
                           !.len = chan[th[t].c].ring[th[t].idx].e1.len]
           /\ \A u \in Threads : u # t => th'[u] = th[u]
<1> DEFINE e1 == chan[th[t].c].ring[th[t].idx].e1
           v == e1.hi * WordBase + th[t].va
           l == e1.len
           r == [th[t] EXCEPT !.pc = "idx", !.va = v, !.len = l]
<1>1. e1.hi \in Nat /\ l \in Lengths /\ th[t].va \in Nat
  BY HandlerFacts DEF Channel, Handler
<1>2. v \in Nat
  <2> HIDE DEF e1
  <2> QED
    BY <1>1, ChunkAssumption
<1>3. r \in Handler /\ r.n = th[t].n /\ r.c = th[t].c
  <2> HIDE DEF v, l
  <2> QED
    BY <1>1, <1>2, HandlerFacts DEF Handler
<1>4. LocalOK(r) /\ <<t, r.c>> \in Rings
  <2> HIDE DEF v, l
  <2> QED
    BY <1>3, HandlerFacts DEF Handler, LocalOK, ReadEntry1
<1>5. th' = [th EXCEPT ![t] = r] /\ UNCHANGED <<rows, vm, kva, chan, sent, log>>
  BY DEF ReadEntry1
<1>6. r.n <= Len(sent[r.c])
  BY <1>3, HandlerFacts
<1> HIDE DEF r
<1>7. /\ TableInv' /\ th'[t] = r
      /\ \A u \in Threads : u # t => th'[u] = th[u]
  BY <1>3, <1>4, <1>5, <1>6, HandlerFacts, HandlerTable
<1> QED
  BY <1>7 DEF r

LEMMA TestIdxTable ==
    ASSUME TableInv, NEW t \in Threads, TestIdx(t)
    PROVE  /\ TableInv'
           /\ th'[t] = [th[t] EXCEPT !.pc = IF chan[th[t].c].lastIdx # th[t].idx
                                            THEN "setidx" ELSE "va"]
           /\ \A u \in Threads : u # t => th'[u] = th[u]
<1> DEFINE pc == IF chan[th[t].c].lastIdx # th[t].idx THEN "setidx" ELSE "va"
<1>1. pc \in {"setidx", "va"} /\ th[t].pc = "idx" /\ Goto(t, pc)
      /\ UNCHANGED <<rows, vm, kva, chan, sent, log>>
  BY DEF TestIdx
<1> HIDE DEF pc
<1>2. [th[t] EXCEPT !.pc = pc] \in Handler /\ LocalOK([th[t] EXCEPT !.pc = pc])
  BY <1>1, HandlerFacts DEF Handler, LocalOK
<1>3. /\ TableInv' /\ th'[t] = [th[t] EXCEPT !.pc = pc]
      /\ \A u \in Threads : u # t => th'[u] = th[u]
  BY <1>1, <1>2, HandlerFacts, GotoTable
<1> QED
  BY <1>3 DEF pc

LEMMA TestVaTable ==
    ASSUME TableInv, NEW t \in Threads, TestVa(t)
    PROVE  /\ TableInv'
           /\ th'[t] = [th[t] EXCEPT !.pc = IF chan[th[t].c].lastVa # th[t].va
                                            THEN "setidx" ELSE "forward"]
           /\ \A u \in Threads : u # t => th'[u] = th[u]
<1> DEFINE pc == IF chan[th[t].c].lastVa # th[t].va THEN "setidx" ELSE "forward"
<1>1. pc \in {"setidx", "forward"} /\ th[t].pc = "va" /\ Goto(t, pc)
      /\ UNCHANGED <<rows, vm, kva, chan, sent, log>>
  BY DEF TestVa
<1> HIDE DEF pc
<1>2. [th[t] EXCEPT !.pc = pc] \in Handler /\ LocalOK([th[t] EXCEPT !.pc = pc])
  BY <1>1, HandlerFacts DEF Handler, LocalOK
<1>3. /\ TableInv' /\ th'[t] = [th[t] EXCEPT !.pc = pc]
      /\ \A u \in Threads : u # t => th'[u] = th[u]
  BY <1>1, <1>2, HandlerFacts, GotoTable
<1> QED
  BY <1>3 DEF pc

\* A channel's cursor or count changes and its type does not.
LEMMA ChannelUpdate ==
    ASSUME chan \in [Chans -> Channel], NEW c \in Chans, NEW x \in Channel,
           chan' = [chan EXCEPT ![c] = x]
    PROVE  /\ chan' \in [Chans -> Channel] /\ chan'[c] = x
           /\ \A d \in Chans : d # c => chan'[d] = chan[d]
OBVIOUS

LEMMA SetIdxTable ==
    ASSUME TableInv, NEW t \in Threads, SetIdx(t)
    PROVE  /\ TableInv' /\ th'[t] = [th[t] EXCEPT !.pc = "setva"]
           /\ \A u \in Threads : u # t => th'[u] = th[u]
           /\ chan'[th[t].c] = [chan[th[t].c] EXCEPT !.lastIdx = th[t].idx]
           /\ \A d \in Chans : d # th[t].c => chan'[d] = chan[d]
<1> DEFINE c == th[t].c
           x == [chan[c] EXCEPT !.lastIdx = th[t].idx]
<1>1. x \in Channel /\ x.rung = chan[c].rung
  BY HandlerFacts DEF Channel, Handler
<1>2. chan' = [chan EXCEPT ![c] = x]
  BY DEF SetIdx
<1>3. /\ chan' \in [Chans -> Channel] /\ chan'[c] = x
      /\ \A d \in Chans : d # c => chan'[d] = chan[d]
  <2> HIDE DEF x
  <2> QED
    BY <1>1, <1>2, HandlerFacts, ChannelUpdate
<1>4. \A d \in Chans : chan'[d].rung <= Len(sent[d])
  <2> HIDE DEF x
  <2> QED
    BY <1>1, <1>3, HandlerFacts
<1>5. th[t].pc = "setidx" /\ Goto(t, "setva") /\ UNCHANGED <<rows, vm, kva, sent, log>>
  BY DEF SetIdx
<1>6. [th[t] EXCEPT !.pc = "setva"] \in Handler /\ LocalOK([th[t] EXCEPT !.pc = "setva"])
  BY <1>5, HandlerFacts DEF Handler, LocalOK
<1>7. /\ TableInv' /\ th'[t] = [th[t] EXCEPT !.pc = "setva"]
      /\ \A u \in Threads : u # t => th'[u] = th[u]
  BY <1>3, <1>4, <1>5, <1>6, HandlerFacts, GotoTable
<1> QED
  BY <1>3, <1>7

LEMMA SetVaTable ==
    ASSUME TableInv, NEW t \in Threads, SetVa(t)
    PROVE  /\ TableInv'
           /\ th'[t] = [th[t] EXCEPT !.pc = IF Shown(th[t].len) THEN "lookup" ELSE "forward"]
           /\ \A u \in Threads : u # t => th'[u] = th[u]
           /\ chan'[th[t].c] = [chan[th[t].c] EXCEPT !.lastVa = th[t].va]
           /\ \A d \in Chans : d # th[t].c => chan'[d] = chan[d]
<1> DEFINE c == th[t].c
           x == [chan[c] EXCEPT !.lastVa = th[t].va]
           pc == IF Shown(th[t].len) THEN "lookup" ELSE "forward"
<1>1. x \in Channel /\ x.rung = chan[c].rung
  BY HandlerFacts DEF Channel, Handler
<1>2. chan' = [chan EXCEPT ![c] = x]
  BY DEF SetVa
<1>3. /\ chan' \in [Chans -> Channel] /\ chan'[c] = x
      /\ \A d \in Chans : d # c => chan'[d] = chan[d]
  <2> HIDE DEF x
  <2> QED
    BY <1>1, <1>2, HandlerFacts, ChannelUpdate
<1>4. \A d \in Chans : chan'[d].rung <= Len(sent[d])
  <2> HIDE DEF x
  <2> QED
    BY <1>1, <1>3, HandlerFacts
<1>5. pc = IF th[t].len > 0 /\ th[t].len <= MaxWords THEN "lookup" ELSE "forward"
  <2>1. th[t].len \in Nat
    BY HandlerFacts, ConstantFacts DEF Handler
  <2> QED
    BY <2>1, ChunkAssumption DEF Shown
<1>6. th[t].pc = "setva" /\ Goto(t, pc) /\ UNCHANGED <<rows, vm, kva, sent, log>>
  BY <1>5 DEF SetVa
<1>7. pc \in {"lookup", "forward"} /\ (pc = "lookup" => Shown(th[t].len))
  OBVIOUS
<1> HIDE DEF pc
<1>8. [th[t] EXCEPT !.pc = pc] \in Handler /\ LocalOK([th[t] EXCEPT !.pc = pc])
  BY <1>6, <1>7, HandlerFacts DEF Handler, LocalOK
<1>9. /\ TableInv' /\ th'[t] = [th[t] EXCEPT !.pc = pc]
      /\ \A u \in Threads : u # t => th'[u] = th[u]
  BY <1>3, <1>4, <1>6, <1>8, HandlerFacts, GotoTable
<1> QED
  BY <1>3, <1>9 DEF pc

\* A hit takes the mapping of a row that covers the words; a miss gives up.
LEMMA LookupTable ==
    ASSUME TableInv, NEW t \in Threads, nv_dbell_sysmem_gpu_va_to_kva(t)
    PROVE  /\ TableInv'
           /\ \A u \in Threads : u # t => th'[u] = th[u]
           /\ \/ \E j \in Rows : /\ Covers(j, th[t].va, th[t].len)
                                 /\ th'[t] = [th[t] EXCEPT !.pc = "copy", !.buf = rows[j]]
              \/ /\ \A j \in Rows : ~Covers(j, th[t].va, th[t].len)
                 /\ th'[t] = [th[t] EXCEPT !.pc = "forward"]
<1>1. th[t].pc = "lookup" /\ UNCHANGED <<rows, vm, kva, chan, sent, log>>
  BY DEF nv_dbell_sysmem_gpu_va_to_kva
<1>2. ASSUME NEW j \in Rows, Covers(j, th[t].va, th[t].len),
             th' = [th EXCEPT ![t].pc = "copy", ![t].buf = rows[j]]
      PROVE  /\ TableInv' /\ th'[t] = [th[t] EXCEPT !.pc = "copy", !.buf = rows[j]]
             /\ \A u \in Threads : u # t => th'[u] = th[u]
  <2> DEFINE r == [th[t] EXCEPT !.pc = "copy", !.buf = rows[j]]
  <2>1. rows[j] \in Bufs /\ Start[rows[j]] <= th[t].va /\ th[t].va + th[t].len <= End[rows[j]]
    BY <1>2 DEF Covers, TableInv, TypeOK
  <2>2. /\ r \in Handler /\ r.n = th[t].n /\ r.c = th[t].c /\ r.pc = "copy" /\ r.buf = rows[j]
        /\ r.va = th[t].va /\ r.len = th[t].len /\ r.off = th[t].off /\ r.ck = th[t].ck
        /\ r.copied = th[t].copied
    BY <2>1, HandlerFacts DEF Handler
  <2>3. th' = [th EXCEPT ![t] = r]
    BY <1>2
  <2> HIDE DEF r
  <2>4. th[t].off = 0 /\ th[t].copied = 0 /\ th[t].ck = 0 /\ Shown(th[t].len)
    BY <1>1, HandlerFacts DEF LocalOK
  <2>5. LocalOK(r)
    BY <2>1, <2>2, <2>4, ChunkAssumption DEF LocalOK, Copying, Shown
  <2>6. r.n <= Len(sent[r.c]) /\ <<t, r.c>> \in Rings
    BY <1>1, <2>2, HandlerFacts
  <2>7. /\ TableInv' /\ th'[t] = r
        /\ \A u \in Threads : u # t => th'[u] = th[u]
    BY <1>1, <2>2, <2>3, <2>5, <2>6, HandlerFacts, HandlerTable
  <2> QED
    BY <2>7 DEF r
<1>3. ASSUME Goto(t, "forward")
      PROVE  /\ TableInv' /\ th'[t] = [th[t] EXCEPT !.pc = "forward"]
             /\ \A u \in Threads : u # t => th'[u] = th[u]
  <2>1. [th[t] EXCEPT !.pc = "forward"] \in Handler /\ LocalOK([th[t] EXCEPT !.pc = "forward"])
    BY HandlerFacts DEF Handler, LocalOK
  <2> QED
    BY <1>1, <1>3, <2>1, HandlerFacts, GotoTable
<1> QED
  BY <1>2, <1>3 DEF nv_dbell_sysmem_gpu_va_to_kva

LEMMA EmitChunkTable ==
    ASSUME TableInv, NEW t \in Threads, EmitChunk(t)
    PROVE  /\ TableInv'
           /\ th'[t] = [th[t] EXCEPT !.off = th[t].off + Chunk,
                                     !.copied = th[t].copied + ChunkLen(t), !.ck = th[t].ck + 1]
           /\ \A u \in Threads : u # t => th'[u] = th[u]
<1> DEFINE o == th[t].off + Chunk
           w == th[t].copied + ChunkLen(t)
           k == th[t].ck + 1
           r == [th[t] EXCEPT !.off = o, !.copied = w, !.ck = k]
<1>1. /\ th[t].pc = "copy" /\ th[t].off < th[t].len
      /\ th' = [th EXCEPT ![t] = r] /\ UNCHANGED <<rows, vm, kva, chan, sent, log>>
  BY DEF EmitChunk
<1>2. /\ th[t].off \in Nat /\ th[t].copied \in Nat /\ th[t].ck \in Nat /\ th[t].len \in Nat
      /\ Chunk \in Nat /\ Chunk > 0 /\ MaxWords \in Nat
  <2>1. /\ th[t].off \in Words /\ th[t].copied \in 0 .. MaxWords /\ th[t].ck \in Nat
        /\ th[t].len \in Lengths
    BY HandlerFacts DEF Handler
  <2> QED
    BY <2>1, ConstantFacts, ChunkAssumption DEF Words
<1>3. Copying(th[t])
  BY <1>1, HandlerFacts DEF LocalOK
<1>4. k * Chunk = th[t].ck * Chunk + Chunk
  BY <1>2
<1>5. /\ o = k * Chunk /\ o < th[t].len + Chunk /\ o \in Words /\ k \in Nat
      /\ w = (IF o < th[t].len THEN o ELSE th[t].len) /\ w \in 0 .. MaxWords
  <2>1. /\ th[t].off = th[t].ck * Chunk /\ th[t].copied = th[t].off
        /\ th[t].len <= MaxWords
    BY <1>1, <1>2, <1>3 DEF Copying, Shown
  <2>2. o = k * Chunk /\ k \in Nat
    BY <1>2, <1>4, <2>1
  <2>3. o \in Words /\ o < th[t].len + Chunk
    BY <1>1, <1>2, <2>1 DEF Words
  <2>4. w = (IF o < th[t].len THEN o ELSE th[t].len) /\ w \in 0 .. MaxWords
    BY <1>1, <1>2, <2>1 DEF ChunkLen
  <2> QED
    BY <2>2, <2>3, <2>4
<1> HIDE DEF o, w, k
<1>6. /\ r \in Handler /\ r.n = th[t].n /\ r.c = th[t].c /\ r.pc = "copy"
      /\ r.buf = th[t].buf /\ r.va = th[t].va /\ r.len = th[t].len
      /\ r.off = o /\ r.copied = w /\ r.ck = k
  BY <1>1, <1>5, HandlerFacts DEF Handler
<1> HIDE DEF r
<1>7. LocalOK(r)
  BY <1>3, <1>5, <1>6 DEF LocalOK, Copying
<1>8. r.n <= Len(sent[r.c]) /\ <<t, r.c>> \in Rings
  BY <1>1, <1>6, HandlerFacts
<1>9. /\ TableInv' /\ th'[t] = r
      /\ \A u \in Threads : u # t => th'[u] = th[u]
  BY <1>1, <1>6, <1>7, <1>8, HandlerFacts, HandlerTable
<1> QED
  BY <1>9 DEF r, o, w, k

\* The record that EmitDone appends.
Emitted(t) == [n |-> th[t].n, gen |-> chan[th[t].c].gen, buf |-> th[t].buf,
               off |-> th[t].va - Start[th[t].buf], len |-> th[t].copied, chunks |-> th[t].ck,
               total |-> (th[t].len + Chunk - 1) \div Chunk]

LEMMA EmitDoneTable ==
    ASSUME TableInv, NEW t \in Threads, EmitDone(t)
    PROVE  /\ TableInv' /\ th'[t] = [th[t] EXCEPT !.pc = "forward"]
           /\ \A u \in Threads : u # t => th'[u] = th[u]
           /\ Emitted(t) \in Record
           /\ Emitted(t).len = th[t].len /\ Emitted(t).chunks = Emitted(t).total
           /\ log'[th[t].c] = Append(log[th[t].c], Emitted(t))
           /\ \A d \in Chans : d # th[t].c => log'[d] = log[d]
<1>1. /\ th[t].pc = "copy" /\ th[t].off >= th[t].len /\ Goto(t, "forward")
      /\ log' = [log EXCEPT ![th[t].c] = Append(@, Emitted(t))]
      /\ UNCHANGED <<rows, vm, kva, chan, sent>>
  BY DEF EmitDone, Emitted
<1>2. /\ th[t].off \in Nat /\ th[t].copied \in 0 .. MaxWords /\ th[t].ck \in Nat
      /\ th[t].len \in Nat /\ th[t].n \in Nat /\ th[t].va \in Nat
      /\ Chunk \in Nat /\ Chunk > 0
  <2>1. /\ th[t].off \in Words /\ th[t].copied \in 0 .. MaxWords /\ th[t].ck \in Nat
        /\ th[t].len \in Lengths /\ th[t].n \in Nat /\ th[t].va \in Nat
    BY HandlerFacts DEF Handler
  <2> QED
    BY <2>1, ConstantFacts, ChunkAssumption DEF Words
<1>3. Copying(th[t])
  BY <1>1, HandlerFacts DEF LocalOK
<1>4. th[t].copied = th[t].len /\ th[t].buf \in Bufs
  BY <1>1, <1>2, <1>3 DEF Copying
<1>5. (th[t].len + Chunk - 1) \div Chunk = th[t].ck
  <2> DEFINE k == th[t].ck
             l == th[t].len
  <2>1. k \in Nat /\ l \in Nat /\ l <= k * Chunk /\ k * Chunk < l + Chunk
    BY <1>1, <1>2, <1>3 DEF Copying
  <2> HIDE DEF k, l
  <2>2. (l + Chunk - 1) \div Chunk = k
    BY <1>2, <2>1, CeilDiv
  <2> QED
    BY <2>2 DEF k, l
<1>6. th[t].va - Start[th[t].buf] \in Nat
  BY <1>2, <1>3, <1>4, ConstantFacts DEF Copying
<1>7. Emitted(t) \in Record /\ Emitted(t).len = th[t].len /\ Emitted(t).chunks = Emitted(t).total
  <2>1. chan[th[t].c].gen \in Nat
    BY HandlerFacts DEF Channel
  <2> QED
    BY <1>2, <1>4, <1>5, <1>6, <2>1 DEF Emitted, Record
<1>8. /\ log' \in [Chans -> Seq(Record)] /\ log'[th[t].c] = Append(log[th[t].c], Emitted(t))
      /\ \A d \in Chans : d # th[t].c => log'[d] = log[d]
  <2>1. th[t].c \in Chans /\ log \in [Chans -> Seq(Record)] /\ Emitted(t) \in Record
    BY <1>7, HandlerFacts
  <2>2. Append(log[th[t].c], Emitted(t)) \in Seq(Record)
    BY <2>1
  <2> QED
    BY <1>1, <2>1, <2>2
<1>9. [th[t] EXCEPT !.pc = "forward"] \in Handler /\ LocalOK([th[t] EXCEPT !.pc = "forward"])
  BY HandlerFacts DEF Handler, LocalOK
<1>10. /\ TableInv' /\ th'[t] = [th[t] EXCEPT !.pc = "forward"]
       /\ \A u \in Threads : u # t => th'[u] = th[u]
  BY <1>1, <1>8, <1>9, HandlerFacts, GotoTable
<1> QED
  BY <1>7, <1>8, <1>10

LEMMA ForwardTable ==
    ASSUME TableInv, NEW t \in Threads, Forward(t)
    PROVE  /\ TableInv' /\ th'[t] = InUser
           /\ \A u \in Threads : u # t => th'[u] = th[u]
           /\ chan'[th[t].c] = [chan[th[t].c] EXCEPT !.rung = th[t].n, !.again = FALSE]
           /\ \A d \in Chans : d # th[t].c => chan'[d] = chan[d]
<1> DEFINE c == th[t].c
           x == [chan[c] EXCEPT !.rung = th[t].n, !.again = FALSE]
<1>1. x \in Channel /\ x.rung = th[t].n
  BY HandlerFacts DEF Channel, Handler
<1>2. chan' = [chan EXCEPT ![c] = x]
  BY DEF Forward
<1>3. /\ chan' \in [Chans -> Channel] /\ chan'[c] = x
      /\ \A d \in Chans : d # c => chan'[d] = chan[d]
  <2> HIDE DEF x
  <2> QED
    BY <1>1, <1>2, HandlerFacts, ChannelUpdate
<1>4. \A d \in Chans : chan'[d].rung <= Len(sent[d])
  <2> HIDE DEF x
  <2> QED
    BY <1>1, <1>3, HandlerFacts
<1>5. th' = [th EXCEPT ![t] = InUser] /\ UNCHANGED <<rows, vm, kva, sent, log>>
  BY DEF Forward
<1>6. InUser.n <= Len(sent[InUser.c]) /\ InUser.pc = "user"
  <2>1. InUser.n = 0 /\ InUser.pc = "user" /\ InUser.c \in Chans
    BY InUserOK DEF InUser, Handler
  <2>2. Len(sent[InUser.c]) \in Nat
    BY <2>1 DEF TableInv, TypeOK
  <2> QED
    BY <2>1, <2>2
<1>7. /\ TableInv' /\ th'[t] = InUser
      /\ \A u \in Threads : u # t => th'[u] = th[u]
  BY <1>3, <1>4, <1>5, <1>6, InUserOK, HandlerFacts, HandlerTable
<1> QED
  BY <1>3, <1>7

LEMMA RingTable ==
    ASSUME TableInv, NEW t \in Threads, NEW c \in Chans, Ring(t, c)
    PROVE  /\ TableInv' /\ th'[t] = [InUser EXCEPT !.pc = "put", !.c = c]
           /\ \A u \in Threads : u # t => th'[u] = th[u]
<1> DEFINE r == [InUser EXCEPT !.pc = "put", !.c = c]
<1>1. r \in Handler /\ r.n = 0 /\ r.c = c /\ LocalOK(r)
  BY InUserOK DEF InUser, Handler, LocalOK
<1>2. th' = [th EXCEPT ![t] = r] /\ <<t, c>> \in Rings /\ UNCHANGED <<rows, vm, kva, chan, sent, log>>
  BY DEF Ring
<1> HIDE DEF r
<1>3. r.n <= Len(sent[r.c])
  <2>1. Len(sent[c]) \in Nat
    BY DEF TableInv, TypeOK
  <2> QED
    BY <1>1, <2>1
<1>4. /\ TableInv' /\ th'[t] = r
      /\ \A u \in Threads : u # t => th'[u] = th[u]
  BY <1>1, <1>2, <1>3, HandlerFacts, HandlerTable
<1> QED
  BY <1>4 DEF r

LEMMA ReresolveTable ==
    ASSUME TableInv, NEW c \in Chans, Reresolve(c)
    PROVE  /\ TableInv'
           /\ chan'[c] = [chan[c] EXCEPT !.lastIdx = Never, !.lastVa = 0,
                                         !.gen = chan[c].gen + 1, !.again = TRUE]
           /\ \A d \in Chans : d # c => chan'[d] = chan[d]
<1> DEFINE x == [chan[c] EXCEPT !.lastIdx = Never, !.lastVa = 0,
                               !.gen = chan[c].gen + 1, !.again = TRUE]
<1>0. chan \in [Chans -> Channel] 
  BY DEF TableInv, TypeOK
<1>1. x \in Channel /\ x.rung = chan[c].rung
  <2>1. chan[c] \in Channel /\ chan[c].gen \in Nat
    BY <1>0 DEF Channel
  <2>2. PICK g \in Nat : g = chan[c].gen + 1
    BY <2>1
  <2>3. [chan[c] EXCEPT !.lastIdx = Never, !.lastVa = 0, !.gen = g, !.again = TRUE] \in Channel
    BY <2>1 DEF Channel
  <2>4. [chan[c] EXCEPT !.lastIdx = Never, !.lastVa = 0, !.gen = g, !.again = TRUE].rung = chan[c].rung
    BY <2>1 DEF Channel
  <2> QED
    BY <2>2, <2>3, <2>4
<1>2. chan' = [chan EXCEPT ![c] = x]
  BY DEF Reresolve
<1>3. /\ chan' \in [Chans -> Channel] /\ chan'[c] = x
      /\ \A d \in Chans : d # c => chan'[d] = chan[d]
  <2> HIDE DEF x
  <2> QED
    BY <1>0, <1>1, <1>2, ChannelUpdate
<1>4. \A d \in Chans : chan'[d].rung <= Len(sent[d])
  <2> HIDE DEF x
  <2> QED
    BY <1>1, <1>3 DEF TableInv, TypeOK
<1>6. UNCHANGED <<rows, vm, kva, sent, log, th>>
  BY DEF Reresolve
<1>7. TypeOK'
  BY <1>3, <1>4, <1>6 DEF TableInv, TypeOK
<1>8. RowInv'
  BY <1>6 DEF TableInv, RowInv, Tracked
<1> QED
  BY <1>3, <1>6, <1>7, <1>8, LocalFrame DEF TableInv

\* A submission goes to the end of sent[c] and into the slot at GP_PUT.
LEMMA SubmitTable ==
    ASSUME TableInv, NEW t \in Threads, NEW c \in Chans, NEW p \in Pushbufs, Submit(t, c, p)
    PROVE  /\ TableInv' /\ sent'[c] = Append(sent[c], p)
           /\ chan'[c] = [chan[c] EXCEPT !.ring[chan[c].put] = [e0 |-> Entry0(p), e1 |-> Entry1(p)],
                                         !.put = (chan[c].put + 1) % RingSize, !.again = FALSE]
           /\ \A d \in Chans : d # c => chan'[d] = chan[d] /\ sent'[d] = sent[d]
<1> DEFINE e == [e0 |-> Entry0(p), e1 |-> Entry1(p)]
           q == (chan[c].put + 1) % RingSize
           x == [chan[c] EXCEPT !.ring[chan[c].put] = e, !.put = q, !.again = FALSE]
<1>0. /\ chan \in [Chans -> Channel] /\ sent \in [Chans -> Seq(Pushbufs)]
      /\ chan[c] \in Channel /\ chan[c].put \in Indices
  BY DEF TableInv, TypeOK, Channel
<1>1. e \in [e0 : 0 .. WordBase - 1, e1 : [hi : Nat, len : Lengths]]
  <2>1. WordBase \in Nat /\ WordBase > 0 /\ Address(p) \in Nat /\ p.len \in Lengths
    BY ConstantFacts, ChunkAssumption
  <2>2. Entry0(p) \in 0 .. WordBase - 1 /\ Address(p) \div WordBase \in Nat
    BY <2>1, DivMod DEF Entry0
  <2>3. Entry1(p) \in [hi : Nat, len : Lengths]
    BY <2>1, <2>2 DEF Entry1
  <2> QED
    BY <2>2, <2>3
<1>2. q \in Indices
  BY <1>0, RingFacts, DivMod DEF Indices
<1>3. x \in Channel /\ x.rung = chan[c].rung
  <2> HIDE DEF e, q
  <2> QED
    BY <1>0, <1>1, <1>2 DEF Channel
<1>4. chan' = [chan EXCEPT ![c] = x]
  BY DEF Submit
<1>5. /\ chan' \in [Chans -> Channel] /\ chan'[c] = x
      /\ \A d \in Chans : d # c => chan'[d] = chan[d]
  <2> HIDE DEF x
  <2> QED
    BY <1>0, <1>3, <1>4, ChannelUpdate
<1>6. /\ sent' \in [Chans -> Seq(Pushbufs)] /\ sent'[c] = Append(sent[c], p)
      /\ \A d \in Chans : d # c => sent'[d] = sent[d]
  BY <1>0 DEF Submit
<1>7. \A d \in Chans : Len(sent[d]) \in Nat /\ Len(sent'[d]) \in Nat /\ Len(sent[d]) <= Len(sent'[d])
  <2>1. sent[c] \in Seq(Pushbufs)
    BY <1>0
  <2>2. Len(sent'[c]) = Len(sent[c]) + 1
    BY <1>6, <2>1
  <2>3. \A d \in Chans : Len(sent[d]) \in Nat
    BY <1>0
  <2> QED
    BY <1>6, <2>2, <2>3
<1>8. UNCHANGED <<rows, vm, kva, log, th>>
  BY DEF Submit
<1>9. \A d \in Chans : chan'[d].rung <= Len(sent'[d])
  <2>1. \A d \in Chans : chan'[d].rung = chan[d].rung /\ chan[d].rung \in Nat
    <3> HIDE DEF x
    <3> QED
      BY <1>0, <1>3, <1>5 DEF Channel
  <2>2. \A d \in Chans : chan[d].rung <= Len(sent[d])
    BY DEF TableInv, TypeOK
  <2> QED
    BY <1>7, <2>1, <2>2
<1>10. TypeOK'
  BY <1>5, <1>6, <1>8, <1>9 DEF TableInv, TypeOK
<1>11. RowInv'
  BY <1>8 DEF TableInv, RowInv, Tracked
<1>12. LocalInv'
  <2>1. ASSUME NEW u \in Threads PROVE th[u].n <= Len(sent'[th[u].c])
    <3>1. th[u].n \in Nat /\ th[u].c \in Chans /\ th[u].n <= Len(sent[th[u].c])
      BY HandlerFacts DEF Handler
    <3> QED
      BY <1>7, <3>1
  <2> QED
    BY <1>8, <2>1 DEF TableInv, LocalInv
<1> QED
  BY <1>5, <1>6, <1>10, <1>11, <1>12 DEF TableInv

LEMMA TableNext == TableInv /\ [Next]_vars => TableInv'
<1> SUFFICES ASSUME TableInv, [Next]_vars PROVE TableInv'
  OBVIOUS
<1>1. CASE UNCHANGED vars
  <2>1. TypeOK' /\ RowInv'
    BY <1>1 DEF TableInv, TypeOK, RowInv, Tracked, vars
  <2> QED
    BY <1>1, <2>1, LocalFrame DEF TableInv, vars
<1>2. ASSUME NEW m \in Bufs, nv_dbell_sysmem_track_add(m) PROVE TableInv'
  BY <1>2, MmapTable, TrackInsertTable, TrackFullTable DEF nv_dbell_sysmem_track_add
<1>3. ASSUME NEW m \in Bufs, nv_dbell_sysmem_track_remove(m) PROVE TableInv'
  BY <1>3, UntrackTable, VunmapTable DEF nv_dbell_sysmem_track_remove
<1>4. ASSUME NEW t \in Threads, HandlerStep(t) PROVE TableInv'
  BY <1>4, ReadGpPutTable, ReadEntry0Table, ReadEntry1Table, TestIdxTable, TestVaTable,
     SetIdxTable, SetVaTable, LookupTable, EmitChunkTable, EmitDoneTable, ForwardTable
     DEF HandlerStep
<1>5. ASSUME NEW t \in Threads, NEW c \in Chans, Ring(t, c) PROVE TableInv'
  BY <1>5, RingTable
<1>6. ASSUME NEW t \in Threads, NEW c \in Chans, NEW p \in Pushbufs, Submit(t, c, p) PROVE TableInv'
  BY <1>6, SubmitTable
<1>7. ASSUME NEW c \in Chans, Reresolve(c) PROVE TableInv'
  BY <1>7, ReresolveTable
<1> QED
  BY <1>1, <1>2, <1>3, <1>4, <1>5, <1>6, <1>7 DEF Next

\* TableInv holds in every reachable state: the tracker's rows, vmaps and VMAs
\* agree (nv_dbell_sysmem_track_add and _remove), and each handler's locals are in
\* range, whatever threads ring whatever channels.
THEOREM TableInvariance == Spec => []TableInv
<1> QED
  BY TableInit, TableNext, PTL DEF Spec

\* The type invariant: in particular a record's length and a handler's offset stay
\* within the longest pushbuffer that nv_dbell_db_handler emits.
THEOREM TypeCorrect == Spec => []TypeOK
<1>1. TableInv => TypeOK
  BY DEF TableInv
<1> QED
  BY <1>1, TableInvariance, PTL

\* No vmap leaks and none is taken down twice: each is held by one row, or by the
\* track_add or track_remove that is under way, for any table size and any number
\* of mappings that come and go.
THEOREM VmapsAccountedHolds == Spec => []VmapsAccounted
<1>1. ASSUME TableInv PROVE VmapsAccounted
  <2> SUFFICES ASSUME NEW m \in Bufs
               PROVE  Cardinality({j \in Rows : rows[j] = m})
                      + (IF vm[m] \in {"insert", "full", "vunmap"} THEN 1 ELSE 0)
                         = IF m \in kva THEN 1 ELSE 0
    BY DEF VmapsAccounted
  <2>1. CASE Tracked(m)
    <3>1. PICK j \in Rows : rows[j] = m
      BY <2>1 DEF Tracked
    <3>2. {l \in Rows : rows[l] = m} = {j}
      BY <1>1, <3>1, ConstantFacts DEF TableInv, RowInv
    <3>3. Cardinality({l \in Rows : rows[l] = m}) = 1
      BY <3>2, FS_Singleton
    <3>4. m \in kva /\ vm[m] = "on"
      BY <1>1, <2>1 DEF TableInv, RowInv
    <3> QED
      BY <3>3, <3>4
  <2>2. CASE ~Tracked(m)
    <3>1. {l \in Rows : rows[l] = m} = {}
      BY <2>2 DEF Tracked
    <3>2. Cardinality({l \in Rows : rows[l] = m}) = 0
      BY <3>1, FS_EmptySet
    <3>3. m \in kva <=> vm[m] \in {"insert", "full", "vunmap"}
      BY <1>1, <2>2 DEF TableInv, RowInv
    <3> QED
      BY <3>2, <3>3
  <2> QED
    BY <2>1, <2>2
<1> QED
  BY <1>1, TableInvariance, PTL

-----------------------------------------------------------------------------
(* The readout's invariant is inductive, for single writers.                   *)

LEMMA ReadoutInit == Init => ReadoutInv
<1> SUFFICES ASSUME Init PROVE ReadoutInv
  OBVIOUS
<1>1. \A t \in Threads : th[t].pc = "user"
  BY DEF Init, InUser
<1>2. \A t \in Threads : ThreadInv(t)
  BY <1>1 DEF ThreadInv, DecodeOK, MoveOK, FreshOK, SourceOK, EmitOK
<1>3. ASSUME NEW c \in Chans PROVE ChanInv(c)
  <2>1. /\ chan[c] = NewChannel /\ sent[c] = << >> /\ log[c] = << >>
        /\ chan[c].put = 0 /\ chan[c].lastIdx = Never /\ chan[c].rung = 0
        /\ chan[c].ring = [i \in Indices |-> ZeroEntry]
    BY DEF Init, NewChannel
  <2>2. Last(c) = 0 /\ VaAt(c, Last(c)) = 0 /\ LenAt(c, Last(c)) = 0
    BY <2>1 DEF Last, VaAt, LenAt
  <2>3. 0 % RingSize = 0 /\ 0 % WordBase = 0 /\ 0 \div WordBase = 0
    BY RingFacts, ChunkAssumption
  <2>4. EntryOf(0, 0) = ZeroEntry
    BY <2>3 DEF EntryOf, ZeroEntry
  <2>5. chan[c].ring[IdxAt(0)] = ZeroEntry
    BY <2>1, IdxFacts
  <2>6. Unrung(c) = {}
    BY <2>1 DEF Unrung
  <2>7. RingOK(c)
    BY <2>1, <2>2, <2>3, <2>4, <2>5, <2>6, RingFacts DEF RingOK
  <2>8. RestOK(c)
    BY <2>1, <2>2 DEF RestOK, LogUpTo
  <2>9. LogOK(c)
    BY <2>1 DEF LogOK
  <2> QED
    BY <2>7, <2>8, <2>9 DEF ChanInv
<1> QED
  BY <1>2, <1>3 DEF ReadoutInv

\* Steps on channel c by threads in T: what else there is stays as it was.
LEMMA Frame ==
    ASSUME ReadoutInv, NEW c \in Chans, NEW T \in SUBSET Threads, UNCHANGED <<rows, vm>>,
           \A d \in Chans : d # c => chan'[d] = chan[d] /\ sent'[d] = sent[d] /\ log'[d] = log[d],
           \A u \in Threads \ T : th'[u] = th[u] /\ (th[u].pc = "user" \/ th[u].c # c),
           \A u \in Threads : th[u].c \in Chans,
           \A u \in T : /\ th[u].pc = "user" \/ th[u].c = c
                        /\ th'[u].pc = "user" \/ th'[u].c = c,
           ChanInv(c)', \A u \in T : ThreadInv(u)'
    PROVE  ReadoutInv'
<1>1. ASSUME NEW d \in Chans, d # c PROVE ChanInv(d)'
  <2>1. chan'[d] = chan[d] /\ sent'[d] = sent[d] /\ log'[d] = log[d] /\ vm' = vm
    BY <1>1
  <2>2. Moving(d)' <=> Moving(d)
    BY <1>1 DEF Moving
  <2>3. RingOK(d)'
    BY <2>1 DEF ReadoutInv, ChanInv, RingOK, Last, VaAt, LenAt, Unrung
  <2>4. RestOK(d)'
    BY <2>1, <2>2 DEF ReadoutInv, ChanInv, RestOK, LogUpTo, VaAt, Last
  <2>5. LogOK(d)'
    BY <2>1 DEF ReadoutInv, ChanInv, LogOK, Last
  <2> QED
    BY <2>3, <2>4, <2>5 DEF ChanInv
<1>2. ASSUME NEW u \in Threads \ T PROVE ThreadInv(u)'
  <2>1. CASE th[u].pc = "user"
    BY <2>1 DEF ThreadInv, DecodeOK, MoveOK, FreshOK, SourceOK, EmitOK
  <2>2. CASE th[u].c # c
    <3>1. PICK d \in Chans : d = th[u].c
      OBVIOUS
    <3>2. /\ th'[u] = th[u] /\ chan'[d] = chan[d] /\ sent'[d] = sent[d] /\ log'[d] = log[d]
          /\ rows' = rows
      BY <2>2, <3>1
    <3>3. ThreadInv(u)
      BY DEF ReadoutInv
    <3>4. DecodeOK(u)'
      BY <3>1, <3>2, <3>3 DEF ThreadInv, DecodeOK, Last, VaAt, LenAt
    <3>5. MoveOK(u)'
      BY <3>1, <3>2, <3>3 DEF ThreadInv, MoveOK, LogBelow, LogUpTo
    <3>8. FreshOK(u)'
      BY <3>1, <3>2, <3>3 DEF ThreadInv, FreshOK
    <3>6. SourceOK(u)'
      BY <3>1, <3>2, <3>3 DEF ThreadInv, SourceOK, Tracked
    <3>7. EmitOK(u)'
      BY <3>1, <3>2, <3>3 DEF ThreadInv, EmitOK, Tracked
    <3> QED
      BY <3>4, <3>5, <3>6, <3>7, <3>8 DEF ThreadInv
  <2> QED
    BY <2>1, <2>2
<1> QED
  BY <1>1, <1>2 DEF ReadoutInv

\* The steps of the tracker: unrung submissions keep their mappings, and so does
\* what is being copied.
LEMMA TrackerReadout ==
    ASSUME TableInv, ReadoutInv, UNCHANGED <<chan, sent, log, th>>,
           \A c \in Chans : \A n \in Unrung(c) : vm'[sent[c][n].buf] = "on",
           \A t \in Threads : th[t].pc = "copy" /\ ~chan[th[t].c].again => Tracked(th[t].buf)',
           \A m \in Bufs : Tracked(m)' => Tracked(m) \/ vm[m] # "on"
    PROVE  ReadoutInv'
<1>1. ASSUME NEW c \in Chans PROVE ChanInv(c)'
  <2>1. RingOK(c)'
    BY DEF ReadoutInv, ChanInv, RingOK, Last, VaAt, LenAt, Unrung
  <2>2. RestOK(c)'
    BY DEF ReadoutInv, ChanInv, RestOK, LogUpTo, VaAt, Last, Moving
  <2>3. LogOK(c)'
    BY DEF ReadoutInv, ChanInv, LogOK, Last
  <2> QED
    BY <2>1, <2>2, <2>3 DEF ChanInv
<1>2. ASSUME NEW t \in Threads PROVE ThreadInv(t)'
  <2>1. ThreadInv(t)
    BY DEF ReadoutInv
  <2>2. DecodeOK(t)' /\ MoveOK(t)'
    BY <2>1 DEF ThreadInv, DecodeOK, Last, VaAt, LenAt, MoveOK, LogBelow, LogUpTo
  <2>5. FreshOK(t)'
    BY <2>1 DEF ThreadInv, FreshOK
  <2>3. SourceOK(t)'
    BY <2>1 DEF ThreadInv, SourceOK, Tracked
  <2>4. EmitOK(t)'
    <3> DEFINE c == th[t].c
               n == th[t].n
    <3> SUFFICES ASSUME th[t].pc = "forward", n > chan[c].rung,
                        sent[c][n].len \in 1 .. MaxWords, Tracked(sent[c][n].buf)'
                 PROVE  \E i \in DOMAIN log[c] : log[c][i].n = n
      BY DEF EmitOK, Tracked
    <3>1. c \in Chans /\ n \in Nat /\ n <= Len(sent[c]) /\ chan[c].rung \in Nat
          /\ Len(sent[c]) \in Nat
      BY HandlerFacts DEF Handler, Channel
    <3>2. n \in Unrung(c)
      BY <3>1 DEF Unrung
    <3>3. vm[sent[c][n].buf] = "on"
      BY <3>1, <3>2 DEF ReadoutInv, ChanInv, RingOK
    <3>4. n \in 1 .. Len(sent[c])
      BY <3>1
    <3>5. sent[c][n].buf \in Bufs
      <4>1. sent[c] \in Seq(Pushbufs)
        BY <3>1 DEF TableInv, TypeOK
      <4> QED
        BY <3>4, <4>1, ConstantFacts
    <3>6. Tracked(sent[c][n].buf)
      BY <3>3, <3>5 DEF Tracked
    <3> QED
      BY <2>1, <3>6 DEF ThreadInv, EmitOK
  <2> QED
    BY <2>2, <2>3, <2>4, <2>5 DEF ThreadInv
<1> QED
  BY <1>1, <1>2 DEF ReadoutInv

\* What the decoding handlers and the unrung submissions hold on to.
LEMMA SubmissionFacts ==
    ASSUME TableInv, NEW c \in Chans
    PROVE  /\ sent[c] \in Seq(Pushbufs) /\ Last(c) \in Nat /\ DOMAIN sent[c] = 1 .. Last(c)
           /\ chan[c].rung \in Nat /\ chan[c].rung <= Last(c)
           /\ \A n \in 1 .. Last(c) : sent[c][n] \in Pushbufs /\ sent[c][n].buf \in Bufs
           /\ Unrung(c) \subseteq 1 .. Last(c)
<1>1. sent[c] \in Seq(Pushbufs) /\ chan[c].rung \in Nat /\ chan[c].rung <= Last(c)
  BY DEF TableInv, TypeOK, Channel, Last
<1>2. Last(c) \in Nat /\ DOMAIN sent[c] = 1 .. Last(c)
  BY <1>1 DEF Last
<1>3. \A n \in 1 .. Last(c) : sent[c][n] \in Pushbufs /\ sent[c][n].buf \in Bufs
  BY <1>1, <1>2, ConstantFacts DEF Last
<1> QED
  BY <1>1, <1>2, <1>3 DEF Unrung, Last

\* A handler that looks words up or copies them has a submission to show.
LEMMA ShowsLast ==
    ASSUME TableInv, ReadoutInv, NEW t \in Threads, th[t].pc \in {"lookup", "copy"}
    PROVE  /\ th[t].n = Last(th[t].c) /\ th[t].n \in 1 .. Last(th[t].c)
           /\ th[t].va = Address(sent[th[t].c][th[t].n])
           /\ th[t].len = sent[th[t].c][th[t].n].len /\ th[t].len > 0
<1>1. th[t].n = Last(th[t].c) /\ th[t].va = VaAt(th[t].c, Last(th[t].c))
      /\ th[t].len = LenAt(th[t].c, Last(th[t].c))
  BY DEF ReadoutInv, ThreadInv, DecodeOK
<1>2. Shown(th[t].len)
  BY HandlerFacts DEF LocalOK, Copying
<1>3. th[t].len > 0
  BY <1>2, ChunkAssumption DEF Shown
<1>4. th[t].c \in Chans /\ Last(th[t].c) \in Nat
  BY HandlerFacts DEF Last
<1>5. th[t].n # 0
  BY <1>1, <1>3, <1>4 DEF LenAt
<1> QED
  BY <1>1, <1>3, <1>4, <1>5 DEF LenAt, VaAt

LEMMA TrackAddReadout ==
    ASSUME TableInv, ReadoutInv, NEW m \in Bufs, nv_dbell_sysmem_track_add(m)
    PROVE  ReadoutInv'
<1>1. /\ UNCHANGED <<chan, sent, log, th>> /\ vm[m] # "on"
      /\ \A k \in Bufs : k # m => vm'[k] = vm[k]
  BY DEF nv_dbell_sysmem_track_add, Mmap, TrackInsert, TrackFull, TableInv, TypeOK
<1>2. \A j \in Rows : rows'[j] = rows[j] \/ (rows[j] = NULL /\ rows'[j] = m)
  BY DEF nv_dbell_sysmem_track_add, Mmap, TrackInsert, TrackFull, FreeRow, TableInv, TypeOK
<1>3. \A k \in Bufs : Tracked(k) => Tracked(k)'
  BY <1>2, ConstantFacts DEF Tracked
<1>4. \A k \in Bufs : Tracked(k)' => Tracked(k) \/ vm[k] # "on"
  BY <1>1, <1>2 DEF Tracked
<1>5. \A c \in Chans : \A n \in Unrung(c) : vm'[sent[c][n].buf] = "on"
  <2> SUFFICES ASSUME NEW c \in Chans, NEW n \in Unrung(c) PROVE vm'[sent[c][n].buf] = "on"
    OBVIOUS
  <2>1. vm[sent[c][n].buf] = "on" /\ sent[c][n].buf \in Bufs
    BY SubmissionFacts DEF ReadoutInv, ChanInv, RingOK
  <2> QED
    BY <1>1, <2>1
<1>6. \A t \in Threads : th[t].pc = "copy" /\ ~chan[th[t].c].again => Tracked(th[t].buf)'
  <2> SUFFICES ASSUME NEW t \in Threads, th[t].pc = "copy", ~chan[th[t].c].again
               PROVE  Tracked(th[t].buf)'
    OBVIOUS
  <2>1. Tracked(th[t].buf)
    BY DEF ReadoutInv, ThreadInv, SourceOK
  <2>2. PICK k \in Bufs : k = th[t].buf
    BY HandlerFacts DEF LocalOK, Copying
  <2>3. Tracked(k)'
    BY <1>3, <2>1, <2>2
  <2> QED
    BY <1>1, <2>2, <2>3 DEF Tracked
<1> QED
  BY <1>1, <1>4, <1>5, <1>6, TrackerReadout

LEMMA TrackRemoveReadout ==
    ASSUME TableInv, ReadoutInv, NEW m \in Bufs, nv_dbell_sysmem_track_remove(m)
    PROVE  ReadoutInv'
<1>1. CASE Untrack(m)
  <2>1. UNCHANGED <<chan, sent, log, th>> /\ Drained(m)
    BY <1>1 DEF Untrack
  <2>2. \A k \in Bufs : k # m => vm'[k] = vm[k] /\ (Tracked(k)' <=> Tracked(k))
    BY <1>1, UntrackTable
  <2>3. \A k \in Bufs : Tracked(k)' => Tracked(k)
    BY <1>1, ConstantFacts DEF Untrack, Tracked
  <2>4. \A c \in Chans : \A n \in Unrung(c) : vm'[sent[c][n].buf] = "on"
    <3> SUFFICES ASSUME NEW c \in Chans, NEW n \in Unrung(c) PROVE vm'[sent[c][n].buf] = "on"
      OBVIOUS
    <3>1. vm[sent[c][n].buf] = "on" /\ sent[c][n].buf \in Bufs
      BY SubmissionFacts DEF ReadoutInv, ChanInv, RingOK
    <3>2. sent[c][n].buf # m
      BY <2>1 DEF Drained
    <3> QED
      BY <2>2, <3>1, <3>2
  <2>5. \A t \in Threads : th[t].pc = "copy" /\ ~chan[th[t].c].again => Tracked(th[t].buf)'
    <3> SUFFICES ASSUME NEW t \in Threads, th[t].pc = "copy", ~chan[th[t].c].again
                 PROVE  Tracked(th[t].buf)'
      OBVIOUS
    <3>1. Tracked(th[t].buf) /\ th[t].buf = sent[th[t].c][th[t].n].buf
      BY DEF ReadoutInv, ThreadInv, SourceOK
    <3>2. PICK k \in Bufs : k = th[t].buf
      BY HandlerFacts DEF LocalOK, Copying
    <3>3. k # m
      <4>1. th[t].c \in Chans /\ th[t].n \in 1 .. Last(th[t].c)
        BY ShowsLast, HandlerFacts
      <4>2. chan[th[t].c].rung < th[t].n
        BY <4>1 DEF ReadoutInv, ThreadInv, FreshOK
      <4>3. Last(th[t].c) \in Nat /\ chan[th[t].c].rung \in Nat
        BY <4>1, SubmissionFacts
      <4>4. th[t].n \in Unrung(th[t].c)
        BY <4>1, <4>2, <4>3 DEF Unrung, Last
      <4> QED
        BY <2>1, <3>1, <3>2, <4>1, <4>4 DEF Drained
    <3>4. Tracked(k)'
      BY <2>2, <3>1, <3>2, <3>3
    <3> QED
      BY <2>1, <3>2, <3>4 DEF Tracked
  <2> QED
    BY <2>1, <2>3, <2>4, <2>5, TrackerReadout
<1>2. CASE Vunmap(m)
  <2>1. /\ UNCHANGED <<chan, sent, log, th, rows>> /\ vm[m] # "on"
        /\ \A k \in Bufs : k # m => vm'[k] = vm[k]
    BY <1>2 DEF Vunmap, TableInv, TypeOK
  <2>2. \A k : Tracked(k)' <=> Tracked(k)
    BY <2>1 DEF Tracked
  <2>3. \A c \in Chans : \A n \in Unrung(c) : vm'[sent[c][n].buf] = "on"
    <3> SUFFICES ASSUME NEW c \in Chans, NEW n \in Unrung(c) PROVE vm'[sent[c][n].buf] = "on"
      OBVIOUS
    <3>1. vm[sent[c][n].buf] = "on" /\ sent[c][n].buf \in Bufs
      BY SubmissionFacts DEF ReadoutInv, ChanInv, RingOK
    <3> QED
      BY <2>1, <3>1
  <2>4. \A t \in Threads : th[t].pc = "copy" /\ ~chan[th[t].c].again => Tracked(th[t].buf)'
    BY <2>1 DEF ReadoutInv, ThreadInv, SourceOK, Tracked
  <2> QED
    BY <2>1, <2>2, <2>3, <2>4, TrackerReadout
<1> QED
  BY <1>1, <1>2 DEF nv_dbell_sysmem_track_remove

\* With a single writer, the handler of channel c is alone on it.
LEMMA Alone ==
    ASSUME SingleWriter, TableInv, NEW t \in Threads, NEW c \in Chans, <<t, c>> \in Rings
    PROVE  /\ \A u \in Threads \ {t} : th[u].pc = "user" \/ th[u].c # c
           /\ \A u \in Threads : th[u].c \in Chans
<1>1. \A u \in Threads : th[u].c \in Chans /\ (th[u].pc # "user" => <<u, th[u].c>> \in Rings)
  BY HandlerFacts
<1> QED
  BY <1>1 DEF SingleWriter

MovingPcs == {"setva", "lookup", "copy", "forward"}

LEMMA MovingAlone ==
    ASSUME SingleWriter, TableInv, NEW t \in Threads, NEW c \in Chans, <<t, c>> \in Rings
    PROVE  Moving(c) <=> th[t].c = c /\ th[t].pc \in MovingPcs
BY Alone DEF Moving, MovingPcs

\* A step of the handler of c, whose effects on c and on itself are accounted for.
LEMMA HandlerReadout ==
    ASSUME SingleWriter, TableInv, ReadoutInv, NEW t \in Threads, NEW c \in Chans,
           <<t, c>> \in Rings, UNCHANGED <<rows, vm>>,
           \A d \in Chans : d # c => chan'[d] = chan[d] /\ sent'[d] = sent[d] /\ log'[d] = log[d],
           \A u \in Threads : u # t => th'[u] = th[u],
           th[t].pc = "user" \/ th[t].c = c, th'[t].pc = "user" \/ th'[t].c = c,
           ChanInv(c)', ThreadInv(t)'
    PROVE  ReadoutInv'
<1> DEFINE T == {t}
<1>1. /\ \A u \in Threads \ T : th'[u] = th[u] /\ (th[u].pc = "user" \/ th[u].c # c)
      /\ \A u \in T : /\ th[u].pc = "user" \/ th[u].c = c
                      /\ th'[u].pc = "user" \/ th'[u].c = c
      /\ \A u \in T : ThreadInv(u)'
      /\ \A u \in Threads : th[u].c \in Chans
      /\ T \in SUBSET Threads
  BY Alone
<1> HIDE DEF T
<1> QED
  BY <1>1, Frame

\* Only locals of t change: the channel's part of the invariant is as before.
LEMMA ChanSame ==
    ASSUME NEW c \in Chans, ChanInv(c), ~Moving(c)' => ~Moving(c), vm' = vm,
           chan'[c] = chan[c], sent'[c] = sent[c], log'[c] = log[c]
    PROVE  ChanInv(c)'
<1>1. RingOK(c)'
  BY DEF ChanInv, RingOK, Last, VaAt, LenAt, Unrung
<1>2. RestOK(c)'
  BY DEF ChanInv, RestOK, LogUpTo, VaAt, Last
<1>3. LogOK(c)'
  BY DEF ChanInv, LogOK, Last
<1> QED
  BY <1>1, <1>2, <1>3 DEF ChanInv

\* What a step of the handler of c may use, and what it must show when it leaves
\* the channel as it is.
LEMMA StepFacts ==
    ASSUME TableInv, ReadoutInv, NEW t \in Threads, NEW c \in Chans, c = th[t].c,
           th[t].pc # "user"
    PROVE  /\ <<t, c>> \in Rings /\ ChanInv(c) /\ ThreadInv(t)
           /\ Last(c) \in Nat /\ chan[c].rung \in Nat /\ chan[c].rung <= Last(c)
           /\ Last(c) < chan[c].rung + RingSize
<1>1. <<t, c>> \in Rings /\ ChanInv(c) /\ ThreadInv(t)
  BY HandlerFacts DEF ReadoutInv
<1> QED
  BY <1>1, SubmissionFacts DEF ChanInv, RingOK

LEMMA LogFacts ==
    ASSUME TableInv, NEW c \in Chans
    PROVE  /\ log[c] \in Seq(Record) /\ Len(log[c]) \in Nat /\ DOMAIN log[c] = 1 .. Len(log[c])
           /\ \A i \in DOMAIN log[c] : log[c][i] \in Record /\ log[c][i].n \in Nat /\ log[c][i].gen \in Nat
<1>1. log[c] \in Seq(Record)
  BY DEF TableInv, TypeOK
<1>2. \A i \in DOMAIN log[c] : log[c][i] \in Record
  BY <1>1
<1>3. \A i \in DOMAIN log[c] : log[c][i].n \in Nat /\ log[c][i].gen \in Nat
  BY <1>2 DEF Record
<1> QED
  BY <1>1, <1>2, <1>3

LEMMA LocalStep ==
    ASSUME SingleWriter, TableInv, TableInv', ReadoutInv, NEW t \in Threads, NEW c \in Chans,
           c = th[t].c, th[t].pc # "user", th'[t].c = c, th'[t].pc # "user",
           \A u \in Threads : u # t => th'[u] = th[u],
           UNCHANGED <<rows, vm, kva, chan, sent, log>>,
           th[t].pc \in MovingPcs => th'[t].pc \in MovingPcs,
           ThreadInv(t)'
    PROVE  ReadoutInv'
<1>1. <<t, c>> \in Rings /\ ChanInv(c)
  BY StepFacts
<1>2. Moving(c) => th[t].pc \in MovingPcs
  BY <1>1, MovingAlone
<1>3. th'[t].pc \in MovingPcs => Moving(c)'
  BY DEF Moving, MovingPcs
<1>4. ChanInv(c)'
  BY <1>1, <1>2, <1>3, ChanSame
<1>5. th[t].pc = "user" \/ th[t].c = c
  OBVIOUS
<1> QED
  BY <1>1, <1>4, <1>5, HandlerReadout

LEMMA ReadGpPutReadout ==
    ASSUME SingleWriter, TableInv, ReadoutInv, NEW t \in Threads, NEW c \in Chans, c = th[t].c,
           ReadGpPut(t)
    PROVE  ReadoutInv'
<1>1. th[t].pc = "put" /\ UNCHANGED <<rows, vm, kva, chan, sent, log>>
  BY DEF ReadGpPut
<1>2. /\ TableInv'
      /\ th'[t] = [th[t] EXCEPT !.pc = "e0", !.idx = Latest(chan[th[t].c].put),
                                !.n = Len(sent[th[t].c])]
      /\ \A u \in Threads : u # t => th'[u] = th[u]
  BY ReadGpPutTable
<1>3. th'[t].pc = "e0" /\ th'[t].c = c /\ th'[t].n = Last(c) /\ th'[t].idx = Latest(chan[c].put)
  BY <1>2, HandlerFacts DEF Handler, Last
<1>4. Latest(chan[c].put) = IdxAt(Last(c))
  BY <1>1, StepFacts DEF ChanInv, RingOK, IdxAt
<1>5. ThreadInv(t)'
  <2>1. DecodeOK(t)'
    BY <1>1, <1>3, <1>4 DEF DecodeOK, Last
  <2> QED
    BY <1>3, <2>1 DEF ThreadInv, MoveOK, FreshOK, SourceOK, EmitOK
<1>6. th[t].pc \notin MovingPcs /\ th[t].pc # "user" /\ th'[t].pc # "user"
  BY <1>1, <1>3 DEF MovingPcs
<1> QED
  BY <1>1, <1>2, <1>3, <1>5, <1>6, LocalStep

LEMMA ReadEntry0Readout ==
    ASSUME SingleWriter, TableInv, ReadoutInv, NEW t \in Threads, NEW c \in Chans, c = th[t].c,
           ReadEntry0(t)
    PROVE  ReadoutInv'
<1>1. th[t].pc = "e0" /\ UNCHANGED <<rows, vm, kva, chan, sent, log>>
  BY DEF ReadEntry0
<1>2. /\ TableInv'
      /\ th'[t] = [th[t] EXCEPT !.pc = "e1", !.va = chan[th[t].c].ring[th[t].idx].e0]
      /\ \A u \in Threads : u # t => th'[u] = th[u]
  BY ReadEntry0Table
<1>3. /\ th'[t].pc = "e1" /\ th'[t].c = c /\ th'[t].n = th[t].n /\ th'[t].idx = th[t].idx
      /\ th'[t].va = chan[c].ring[th[t].idx].e0
  BY <1>2, HandlerFacts DEF Handler
<1>4. th[t].n = Last(c) /\ th[t].idx = IdxAt(Last(c))
  BY <1>1, StepFacts DEF ThreadInv, DecodeOK
<1>5. chan[c].ring[IdxAt(Last(c))].e0 = VaAt(c, Last(c)) % WordBase
  <2>1. RingOK(c)
    BY <1>1, StepFacts DEF ChanInv
  <2> QED
    BY <2>1 DEF RingOK, EntryOf
<1>6. ThreadInv(t)'
  <2>1. DecodeOK(t)'
    BY <1>1, <1>3, <1>4, <1>5 DEF DecodeOK, Last, VaAt
  <2> QED
    BY <1>3, <2>1 DEF ThreadInv, MoveOK, FreshOK, SourceOK, EmitOK
<1>7. th[t].pc \notin MovingPcs /\ th[t].pc # "user" /\ th'[t].pc # "user"
  BY <1>1, <1>3 DEF MovingPcs
<1> QED
  BY <1>1, <1>2, <1>3, <1>6, <1>7, LocalStep

\* The two halves of the entry make the address that was submitted.
LEMMA ReadEntry1Readout ==
    ASSUME SingleWriter, TableInv, ReadoutInv, NEW t \in Threads, NEW c \in Chans, c = th[t].c,
           ReadEntry1(t)
    PROVE  ReadoutInv'
<1>1. th[t].pc = "e1" /\ UNCHANGED <<rows, vm, kva, chan, sent, log>>
  BY DEF ReadEntry1
<1> DEFINE e1 == chan[c].ring[th[t].idx].e1
<1>2. /\ TableInv'
      /\ th'[t] = [th[t] EXCEPT !.pc = "idx", !.va = e1.hi * WordBase + th[t].va, !.len = e1.len]
      /\ \A u \in Threads : u # t => th'[u] = th[u]
  BY ReadEntry1Table
<1>3. /\ th'[t].pc = "idx" /\ th'[t].c = c /\ th'[t].n = th[t].n /\ th'[t].idx = th[t].idx
      /\ th'[t].va = e1.hi * WordBase + th[t].va /\ th'[t].len = e1.len
  BY <1>2, HandlerFacts DEF Handler
<1>4. /\ th[t].n = Last(c) /\ th[t].idx = IdxAt(Last(c))
      /\ th[t].va = VaAt(c, Last(c)) % WordBase
  BY <1>1, StepFacts DEF ThreadInv, DecodeOK
<1>5. e1.hi = VaAt(c, Last(c)) \div WordBase /\ e1.len = LenAt(c, Last(c))
  <2>1. RingOK(c)
    BY <1>1, StepFacts DEF ChanInv
  <2>2. chan[c].ring[th[t].idx] = EntryOf(VaAt(c, Last(c)), LenAt(c, Last(c)))
    BY <1>4, <2>1 DEF RingOK
  <2> QED
    BY <2>2 DEF EntryOf
<1>6. e1.hi * WordBase + th[t].va = VaAt(c, Last(c))
  <2> DEFINE x == VaAt(c, Last(c))
  <2>1. x \in Nat
    BY <1>1, StepFacts, SubmissionFacts, ConstantFacts DEF VaAt
  <2>2. WordBase \in Nat /\ WordBase > 0
    BY ChunkAssumption
  <2> HIDE DEF x
  <2>3. PICK q \in Nat, r \in Nat : /\ q = x \div WordBase /\ r = x % WordBase
                                   /\ x = WordBase * q + r
    BY <2>1, <2>2, DivMod
  <2>4. WordBase * q = q * WordBase
    BY <2>2
  <2>5. e1.hi = q /\ th[t].va = r
    BY <1>4, <1>5, <2>3 DEF x
  <2> QED
    BY <2>3, <2>4, <2>5 DEF x
<1>7. ThreadInv(t)'
  <2> HIDE DEF e1
  <2>1. DecodeOK(t)'
    BY <1>1, <1>3, <1>4, <1>5, <1>6 DEF DecodeOK, Last, VaAt, LenAt
  <2> QED
    BY <1>3, <2>1 DEF ThreadInv, MoveOK, FreshOK, SourceOK, EmitOK
<1>8. th[t].pc \notin MovingPcs /\ th[t].pc # "user" /\ th'[t].pc # "user"
  BY <1>1, <1>3 DEF MovingPcs
<1> QED
  BY <1>1, <1>2, <1>3, <1>7, <1>8, LocalStep

\* A cursor at another index means that the submission is ahead of the trace.
LEMMA TestIdxReadout ==
    ASSUME SingleWriter, TableInv, ReadoutInv, NEW t \in Threads, NEW c \in Chans, c = th[t].c,
           TestIdx(t)
    PROVE  ReadoutInv'
<1>1. th[t].pc = "idx" /\ UNCHANGED <<rows, vm, kva, chan, sent, log>>
  BY DEF TestIdx
<1> DEFINE pc == IF chan[c].lastIdx # th[t].idx THEN "setidx" ELSE "va"
<1>2. /\ TableInv' /\ th'[t] = [th[t] EXCEPT !.pc = pc]
      /\ \A u \in Threads : u # t => th'[u] = th[u]
  BY TestIdxTable
<1>3. /\ th'[t].pc = pc /\ th'[t].c = c /\ th'[t].n = th[t].n /\ th'[t].idx = th[t].idx
      /\ th'[t].va = th[t].va /\ th'[t].len = th[t].len
  <2> HIDE DEF pc
  <2> QED
    BY <1>2, HandlerFacts DEF Handler
<1>4. /\ th[t].n = Last(c) /\ th[t].idx = IdxAt(Last(c))
      /\ th[t].va = VaAt(c, Last(c)) /\ th[t].len = LenAt(c, Last(c))
  BY <1>1, StepFacts DEF ThreadInv, DecodeOK
<1>5. ~Moving(c)
  BY <1>1, StepFacts, MovingAlone DEF MovingPcs
<1> DEFINE Fresh == chan[c].again \/ chan[c].rung < th[t].n \/ th[t].n = 0
<1>6. chan[c].lastIdx # th[t].idx => LogBelow(c, th[t].n) /\ Fresh
  <2> SUFFICES ASSUME chan[c].lastIdx # th[t].idx PROVE LogBelow(c, th[t].n) /\ Fresh
    OBVIOUS
  <2>0. Last(c) \in Nat /\ chan[c].rung \in Nat /\ chan[c].rung <= Last(c)
    BY SubmissionFacts
  <2>4. \A i \in DOMAIN log[c] : log[c][i].n \in Nat
    BY LogFacts
  <2>1. CASE chan[c].lastIdx = Never
    <3>1. /\ LogUpTo(c, chan[c].rung)
          /\ \A i \in DOMAIN log[c] : log[c][i].gen < chan[c].gen
          /\ chan[c].again \/ chan[c].rung < Last(c) \/ Last(c) = 0
      BY <1>1, <1>5, <2>1, StepFacts DEF ChanInv, RestOK
    <3>2. \A i \in DOMAIN log[c] : log[c][i].n <= Last(c)
      BY <2>0, <2>4, <3>1 DEF LogUpTo
    <3>3. LogBelow(c, Last(c))
      BY <2>0, <2>4, <3>1, <3>2 DEF LogBelow
    <3> QED
      BY <1>4, <3>1, <3>3
  <2>2. CASE chan[c].lastIdx # Never
    <3>1. chan[c].lastIdx = IdxAt(chan[c].rung) /\ LogUpTo(c, chan[c].rung)
      BY <1>1, <1>5, <2>2, StepFacts DEF ChanInv, RestOK
    <3>2. chan[c].rung # Last(c)
      BY <1>4, <3>1
    <3>3. chan[c].rung < Last(c)
      BY <2>0, <3>2
    <3>4. LogBelow(c, Last(c))
      BY <2>0, <2>4, <3>1, <3>3 DEF LogBelow, LogUpTo
    <3> QED
      BY <1>4, <3>3, <3>4
  <2> QED
    BY <2>1, <2>2
<1>7. ThreadInv(t)'
  <2>1. th'[t].pc \in {"setidx", "va"} /\ (th'[t].pc = "setidx" <=> chan[c].lastIdx # th[t].idx)
    BY <1>3
  <2> HIDE DEF pc
  <2>2. DecodeOK(t)'
    BY <1>1, <1>3, <1>4, <2>1 DEF DecodeOK, Last, VaAt, LenAt
  <2>3. MoveOK(t)'
    BY <1>1, <1>3, <1>6, <2>1 DEF MoveOK, LogBelow
  <2>4. FreshOK(t)'
    BY <1>1, <1>3, <1>6, <2>1 DEF FreshOK
  <2> QED
    BY <2>1, <2>2, <2>3, <2>4 DEF ThreadInv, SourceOK, EmitOK
<1>8. th[t].pc \notin MovingPcs /\ th[t].pc # "user" /\ th'[t].pc # "user"
  BY <1>1, <1>3 DEF MovingPcs
<1> QED
  BY <1>1, <1>2, <1>3, <1>7, <1>8, LocalStep

\* A cursor at the same index is at this submission: it was rung before.
LEMMA TestVaReadout ==
    ASSUME SingleWriter, TableInv, ReadoutInv, NEW t \in Threads, NEW c \in Chans, c = th[t].c,
           TestVa(t)
    PROVE  ReadoutInv'
<1>1. th[t].pc = "va" /\ UNCHANGED <<rows, vm, kva, chan, sent, log>>
  BY DEF TestVa
<1>2. /\ th[t].n = Last(c) /\ th[t].idx = IdxAt(Last(c))
      /\ th[t].va = VaAt(c, Last(c)) /\ th[t].len = LenAt(c, Last(c))
      /\ chan[c].lastIdx = th[t].idx
  BY <1>1, StepFacts DEF ThreadInv, DecodeOK, MoveOK
<1>3. chan[c].lastIdx # Never
  <2>1. th[t].idx \in Indices
    BY HandlerFacts DEF Handler
  <2> QED
    BY <1>2, <2>1, RingFacts DEF Indices, Never
<1>4. ~Moving(c)
  BY <1>1, StepFacts, MovingAlone DEF MovingPcs
<1>5. /\ chan[c].lastIdx = IdxAt(chan[c].rung) /\ LogUpTo(c, chan[c].rung)
      /\ chan[c].lastVa = VaAt(c, chan[c].rung)
  BY <1>1, <1>3, <1>4, StepFacts DEF ChanInv, RestOK
<1>6. chan[c].rung = Last(c)
  <2>1. /\ Last(c) \in Nat /\ chan[c].rung \in Nat /\ chan[c].rung <= Last(c)
        /\ Last(c) < chan[c].rung + RingSize
    BY <1>1, StepFacts
  <2>2. IdxAt(Last(c)) = IdxAt(chan[c].rung)
    BY <1>2, <1>5
  <2> QED
    BY <2>1, <2>2, IdxDistinct
<1>7. chan[c].lastVa = th[t].va
  BY <1>2, <1>5, <1>6
<1>8. /\ TableInv' /\ th'[t] = [th[t] EXCEPT !.pc = "forward"]
      /\ \A u \in Threads : u # t => th'[u] = th[u]
  BY <1>7, TestVaTable
<1>9. /\ th'[t].pc = "forward" /\ th'[t].c = c /\ th'[t].n = th[t].n /\ th'[t].idx = th[t].idx
      /\ th'[t].va = th[t].va /\ th'[t].len = th[t].len
  BY <1>8, HandlerFacts DEF Handler
<1>10. ThreadInv(t)'
  <2>1. DecodeOK(t)'
    BY <1>1, <1>2, <1>9 DEF DecodeOK, Last, VaAt, LenAt
  <2>2. MoveOK(t)'
    BY <1>1, <1>2, <1>5, <1>6, <1>7, <1>9 DEF MoveOK, LogUpTo
  <2>3. ~(th'[t].n > chan'[c].rung)
    <3>1. th'[t].n = Last(c) /\ chan'[c].rung = Last(c)
      BY <1>1, <1>2, <1>6, <1>9
    <3>2. Last(c) \in Nat
      BY SubmissionFacts
    <3> QED
      BY <3>1, <3>2
  <2> QED
    BY <1>9, <2>1, <2>2, <2>3 DEF ThreadInv, FreshOK, SourceOK, EmitOK
<1>11. th[t].pc \notin MovingPcs /\ th[t].pc # "user" /\ th'[t].pc # "user"
  BY <1>1, <1>9 DEF MovingPcs
<1> QED
  BY <1>1, <1>8, <1>9, <1>10, <1>11, LocalStep

\* The cursor is being moved; ring, count and trace are as before.
LEMMA ChanMoving ==
    ASSUME NEW c \in Chans, ChanInv(c), Moving(c)', vm' = vm, sent'[c] = sent[c], log'[c] = log[c],
           chan'[c].ring = chan[c].ring, chan'[c].put = chan[c].put, chan'[c].rung = chan[c].rung,
           chan'[c].gen = chan[c].gen
    PROVE  ChanInv(c)'
<1>1. RingOK(c)'
  BY DEF ChanInv, RingOK, Last, VaAt, LenAt, Unrung
<1>2. RestOK(c)'
  BY DEF RestOK
<1>3. LogOK(c)'
  BY DEF ChanInv, LogOK, Last
<1> QED
  BY <1>1, <1>2, <1>3 DEF ChanInv

LEMMA SetIdxReadout ==
    ASSUME SingleWriter, TableInv, ReadoutInv, NEW t \in Threads, NEW c \in Chans, c = th[t].c,
           SetIdx(t)
    PROVE  ReadoutInv'
<1>1. th[t].pc = "setidx" /\ UNCHANGED <<rows, vm, kva, sent, log>>
  BY DEF SetIdx
<1>2. /\ TableInv' /\ th'[t] = [th[t] EXCEPT !.pc = "setva"]
      /\ \A u \in Threads : u # t => th'[u] = th[u]
      /\ chan'[c] = [chan[c] EXCEPT !.lastIdx = th[t].idx]
      /\ \A d \in Chans : d # c => chan'[d] = chan[d]
  BY SetIdxTable
<1>3. /\ th'[t].pc = "setva" /\ th'[t].c = c /\ th'[t].n = th[t].n /\ th'[t].idx = th[t].idx
      /\ th'[t].va = th[t].va /\ th'[t].len = th[t].len
  BY <1>2, HandlerFacts DEF Handler
<1>4. /\ chan'[c].ring = chan[c].ring /\ chan'[c].put = chan[c].put
      /\ chan'[c].rung = chan[c].rung /\ chan'[c].lastIdx = th[t].idx
      /\ chan'[c].gen = chan[c].gen /\ chan'[c].again = chan[c].again
  BY <1>2, HandlerFacts DEF Channel
<1>5. <<t, c>> \in Rings /\ ChanInv(c) /\ ThreadInv(t)
  BY <1>1, StepFacts
<1>6. Moving(c)'
  BY <1>3 DEF Moving
<1>7. ChanInv(c)'
  BY <1>1, <1>4, <1>5, <1>6, ChanMoving
<1>8. ThreadInv(t)'
  <2>1. DecodeOK(t)'
    BY <1>1, <1>3, <1>5 DEF ThreadInv, DecodeOK, Last, VaAt, LenAt
  <2>2. MoveOK(t)'
    BY <1>1, <1>3, <1>4, <1>5 DEF ThreadInv, MoveOK, LogBelow
  <2>3. FreshOK(t)'
    BY <1>1, <1>3, <1>4, <1>5 DEF ThreadInv, FreshOK
  <2> QED
    BY <1>3, <2>1, <2>2, <2>3 DEF ThreadInv, SourceOK, EmitOK
<1> QED
  BY <1>1, <1>2, <1>3, <1>5, <1>7, <1>8, HandlerReadout

LEMMA SetVaReadout ==
    ASSUME SingleWriter, TableInv, ReadoutInv, NEW t \in Threads, NEW c \in Chans, c = th[t].c,
           SetVa(t)
    PROVE  ReadoutInv'
<1>1. th[t].pc = "setva" /\ UNCHANGED <<rows, vm, kva, sent, log>>
  BY DEF SetVa
<1> DEFINE pc == IF Shown(th[t].len) THEN "lookup" ELSE "forward"
<1>2. /\ TableInv' /\ th'[t] = [th[t] EXCEPT !.pc = pc]
      /\ \A u \in Threads : u # t => th'[u] = th[u]
      /\ chan'[c] = [chan[c] EXCEPT !.lastVa = th[t].va]
      /\ \A d \in Chans : d # c => chan'[d] = chan[d]
  BY SetVaTable
<1>3. /\ th'[t].pc = pc /\ th'[t].c = c /\ th'[t].n = th[t].n /\ th'[t].idx = th[t].idx
      /\ th'[t].va = th[t].va /\ th'[t].len = th[t].len
  <2> HIDE DEF pc
  <2> QED
    BY <1>2, HandlerFacts DEF Handler
<1>4. pc \in {"lookup", "forward"} /\ (pc = "forward" => ~Shown(th[t].len))
  OBVIOUS
<1> HIDE DEF pc
<1>5. /\ chan'[c].ring = chan[c].ring /\ chan'[c].put = chan[c].put
      /\ chan'[c].rung = chan[c].rung /\ chan'[c].lastVa = th[t].va
      /\ chan'[c].lastIdx = chan[c].lastIdx
      /\ chan'[c].gen = chan[c].gen /\ chan'[c].again = chan[c].again
  BY <1>2, HandlerFacts DEF Channel
<1>6. <<t, c>> \in Rings /\ ChanInv(c) /\ ThreadInv(t)
  BY <1>1, StepFacts
<1>7. Moving(c)'
  BY <1>3, <1>4 DEF Moving
<1>8. ChanInv(c)'
  BY <1>1, <1>5, <1>6, <1>7, ChanMoving
<1>9. ThreadInv(t)'
  <2>1. DecodeOK(t)'
    BY <1>1, <1>3, <1>4, <1>6 DEF ThreadInv, DecodeOK, Last, VaAt, LenAt
  <2>2. LogBelow(c, th[t].n) /\ chan[c].lastIdx = th[t].idx
    BY <1>1, <1>6 DEF ThreadInv, MoveOK
  <2>3. LogUpTo(c, th[t].n)
    <3>1. th[t].n \in Nat
      BY HandlerFacts DEF Handler
    <3> QED
      BY <2>2, <3>1, LogFacts DEF LogBelow, LogUpTo
  <2>4. MoveOK(t)'
    BY <1>1, <1>3, <1>4, <1>5, <2>2, <2>3 DEF MoveOK, LogBelow, LogUpTo
  <2>5. EmitOK(t)'
    <3> SUFFICES ASSUME pc = "forward", th[t].n > chan[c].rung,
                        sent[c][th[t].n].len \in 1 .. MaxWords
                 PROVE  FALSE
      BY <1>1, <1>3, <1>5 DEF EmitOK
    <3>1. th[t].n = Last(c) /\ th[t].len = LenAt(c, Last(c))
      BY <1>1, <1>6 DEF ThreadInv, DecodeOK
    <3>2. th[t].n # 0
      BY SubmissionFacts, <3>1
    <3>3. th[t].len = sent[c][th[t].n].len
      BY <3>1, <3>2 DEF LenAt
    <3> QED
      BY <1>4, <3>3 DEF Shown
  <2>6. FreshOK(t)'
    BY <1>1, <1>3, <1>5, <1>6 DEF ThreadInv, FreshOK
  <2> QED
    BY <1>3, <1>4, <2>1, <2>4, <2>5, <2>6 DEF ThreadInv, SourceOK
<1> QED
  BY <1>1, <1>2, <1>3, <1>6, <1>8, <1>9, HandlerReadout

\* The row found is the submission's mapping, since no other covers its words; and
\* when no row covers them, the mapping is not tracked.
LEMMA LookupReadout ==
    ASSUME SingleWriter, DisjointMappings, TableInv, ReadoutInv, NEW t \in Threads, NEW c \in Chans,
           c = th[t].c, nv_dbell_sysmem_gpu_va_to_kva(t)
    PROVE  ReadoutInv'
<1>1. th[t].pc = "lookup" /\ UNCHANGED <<rows, vm, kva, chan, sent, log>>
  BY DEF nv_dbell_sysmem_gpu_va_to_kva
<1>2. /\ TableInv' /\ \A u \in Threads : u # t => th'[u] = th[u]
      /\ \/ \E j \in Rows : /\ Covers(j, th[t].va, th[t].len)
                            /\ th'[t] = [th[t] EXCEPT !.pc = "copy", !.buf = rows[j]]
         \/ /\ \A j \in Rows : ~Covers(j, th[t].va, th[t].len)
            /\ th'[t] = [th[t] EXCEPT !.pc = "forward"]
  BY LookupTable
<1>3. <<t, c>> \in Rings /\ ChanInv(c) /\ ThreadInv(t)
  BY <1>1, StepFacts
<1> DEFINE p == sent[c][th[t].n]
<1>4. /\ th[t].n = Last(c) /\ th[t].n \in 1 .. Last(c)
      /\ th[t].va = Address(p) /\ th[t].len = p.len /\ th[t].len > 0
  BY <1>1, ShowsLast
<1>5. p \in Pushbufs /\ p.buf \in Bufs /\ p.len \in Nat /\ Address(p) \in Nat
  BY <1>4, SubmissionFacts, ConstantFacts
<1>6. Start[p.buf] <= Address(p) /\ Address(p) + p.len <= End[p.buf]
  <2>1. Start[p.buf] + p.off + p.len <= End[p.buf]
    BY <1>5, LayoutAssumption
  <2> QED
    BY <1>5, <2>1, ConstantFacts DEF Address
<1>7. /\ DecodeOK(t) /\ chan[c].lastIdx = th[t].idx /\ chan[c].lastVa = th[t].va
      /\ LogBelow(c, th[t].n) /\ FreshOK(t)
  BY <1>1, <1>3 DEF ThreadInv, MoveOK
<1> HIDE DEF p
<1>8. CASE \E j \in Rows : /\ Covers(j, th[t].va, th[t].len)
                            /\ th'[t] = [th[t] EXCEPT !.pc = "copy", !.buf = rows[j]]
  <2>1. PICK j \in Rows : /\ Covers(j, th[t].va, th[t].len)
                          /\ th'[t] = [th[t] EXCEPT !.pc = "copy", !.buf = rows[j]]
    BY <1>8
  <2>2. /\ th'[t].pc = "copy" /\ th'[t].c = c /\ th'[t].n = th[t].n /\ th'[t].idx = th[t].idx
        /\ th'[t].va = th[t].va /\ th'[t].len = th[t].len /\ th'[t].buf = rows[j]
    BY <2>1, HandlerFacts DEF Handler
  <2>3. rows[j] \in Bufs /\ Start[rows[j]] <= Address(p) /\ Address(p) + p.len <= End[rows[j]]
    BY <1>4, <2>1 DEF Covers, TableInv, TypeOK
  <2>4. rows[j] = p.buf
    <3> SUFFICES ASSUME rows[j] # p.buf PROVE FALSE
      OBVIOUS
    <3>1. End[rows[j]] <= Start[p.buf] \/ End[p.buf] <= Start[rows[j]]
      BY <1>5, <2>3 DEF DisjointMappings
    <3>2. /\ Start[p.buf] \in Nat /\ End[p.buf] \in Nat
          /\ Start[rows[j]] \in Nat /\ End[rows[j]] \in Nat
      BY <1>5, <2>3, ConstantFacts
    <3>3. p.len > 0
      BY <1>4
    <3> QED
      BY <1>5, <1>6, <2>3, <3>1, <3>2, <3>3
  <2>5. DecodeOK(t)'
    BY <1>1, <1>7, <2>2 DEF DecodeOK, Last, VaAt, LenAt
  <2>6. MoveOK(t)'
    BY <1>1, <1>7, <2>2 DEF MoveOK, LogBelow
  <2>7. SourceOK(t)'
    BY <1>1, <2>2, <2>4 DEF SourceOK, Tracked, p
  <2>10. FreshOK(t)'
    BY <1>1, <1>7, <2>2 DEF FreshOK
  <2>8. ThreadInv(t)'
    BY <2>2, <2>5, <2>6, <2>7, <2>10 DEF ThreadInv, EmitOK
  <2>9. th'[t].pc \in MovingPcs /\ th[t].pc # "user" /\ th'[t].pc # "user"
    BY <1>1, <2>2 DEF MovingPcs
  <2> QED
    BY <1>1, <1>2, <2>2, <2>8, <2>9, LocalStep
<1>9. CASE /\ \A j \in Rows : ~Covers(j, th[t].va, th[t].len)
           /\ th'[t] = [th[t] EXCEPT !.pc = "forward"]
  <2>1. /\ th'[t].pc = "forward" /\ th'[t].c = c /\ th'[t].n = th[t].n /\ th'[t].idx = th[t].idx
        /\ th'[t].va = th[t].va /\ th'[t].len = th[t].len
    BY <1>9, HandlerFacts DEF Handler
  <2>2. ~Tracked(p.buf)
    <3> SUFFICES ASSUME NEW j \in Rows, rows[j] = p.buf PROVE FALSE
      BY DEF Tracked
    <3>1. Covers(j, th[t].va, th[t].len)
      BY <1>4, <1>5, <1>6, ConstantFacts DEF Covers
    <3> QED
      BY <1>9, <3>1
  <2>3. DecodeOK(t)'
    BY <1>1, <1>7, <2>1 DEF DecodeOK, Last, VaAt, LenAt
  <2>4. LogUpTo(c, th[t].n)
    <3>1. th[t].n \in Nat
      BY HandlerFacts DEF Handler
    <3> QED
      BY <1>7, <3>1, LogFacts DEF LogBelow, LogUpTo
  <2>5. MoveOK(t)'
    BY <1>1, <1>7, <2>1, <2>4 DEF MoveOK, LogUpTo
  <2>6. EmitOK(t)'
    BY <1>1, <2>1, <2>2 DEF EmitOK, Tracked, p
  <2>7. ThreadInv(t)'
    BY <2>1, <2>3, <2>5, <2>6 DEF ThreadInv, FreshOK, SourceOK
  <2>8. th'[t].pc \in MovingPcs /\ th[t].pc # "user" /\ th'[t].pc # "user"
    BY <1>1, <2>1 DEF MovingPcs
  <2> QED
    BY <1>1, <1>2, <2>1, <2>7, <2>8, LocalStep
<1> QED
  BY <1>2, <1>8, <1>9

LEMMA EmitChunkReadout ==
    ASSUME SingleWriter, TableInv, ReadoutInv, NEW t \in Threads, NEW c \in Chans, c = th[t].c,
           EmitChunk(t)
    PROVE  ReadoutInv'
<1>1. th[t].pc = "copy" /\ UNCHANGED <<rows, vm, kva, chan, sent, log>>
  BY DEF EmitChunk
<1>2. /\ TableInv' /\ \A u \in Threads : u # t => th'[u] = th[u]
      /\ th'[t] = [th[t] EXCEPT !.off = th[t].off + Chunk,
                                !.copied = th[t].copied + ChunkLen(t), !.ck = th[t].ck + 1]
  BY EmitChunkTable
<1>3. /\ th'[t].pc = "copy" /\ th'[t].c = c /\ th'[t].n = th[t].n /\ th'[t].idx = th[t].idx
      /\ th'[t].va = th[t].va /\ th'[t].len = th[t].len /\ th'[t].buf = th[t].buf
  BY <1>1, <1>2, HandlerFacts DEF Handler
<1>4. ThreadInv(t)
  BY <1>1, StepFacts
<1>5. ThreadInv(t)'
  <2>1. DecodeOK(t)'
    BY <1>1, <1>3, <1>4 DEF ThreadInv, DecodeOK, Last, VaAt, LenAt
  <2>2. MoveOK(t)'
    BY <1>1, <1>3, <1>4 DEF ThreadInv, MoveOK, LogBelow
  <2>3. SourceOK(t)'
    BY <1>1, <1>3, <1>4 DEF ThreadInv, SourceOK, Tracked
  <2>4. FreshOK(t)'
    BY <1>1, <1>3, <1>4 DEF ThreadInv, FreshOK
  <2> QED
    BY <1>3, <2>1, <2>2, <2>3, <2>4 DEF ThreadInv, EmitOK
<1>6. th'[t].pc \in MovingPcs /\ th[t].pc # "user" /\ th'[t].pc # "user"
  BY <1>1, <1>3 DEF MovingPcs
<1> QED
  BY <1>1, <1>2, <1>3, <1>5, <1>6, LocalStep

\* The record appended is the last submission's, whole, and ahead of the others.
LEMMA EmitDoneReadout ==
    ASSUME SingleWriter, TableInv, ReadoutInv, NEW t \in Threads, NEW c \in Chans, c = th[t].c,
           EmitDone(t)
    PROVE  ReadoutInv'
<1>1. th[t].pc = "copy" /\ UNCHANGED <<rows, vm, kva, chan, sent>>
  BY DEF EmitDone
<1>2. /\ TableInv' /\ th'[t] = [th[t] EXCEPT !.pc = "forward"]
      /\ \A u \in Threads : u # t => th'[u] = th[u]
      /\ Emitted(t) \in Record
      /\ Emitted(t).len = th[t].len /\ Emitted(t).chunks = Emitted(t).total
      /\ log'[c] = Append(log[c], Emitted(t))
      /\ \A d \in Chans : d # c => log'[d] = log[d]
  BY EmitDoneTable
<1>3. /\ th'[t].pc = "forward" /\ th'[t].c = c /\ th'[t].n = th[t].n /\ th'[t].idx = th[t].idx
      /\ th'[t].va = th[t].va /\ th'[t].len = th[t].len
  BY <1>2, HandlerFacts DEF Handler
<1>4. <<t, c>> \in Rings /\ ChanInv(c) /\ ThreadInv(t)
  BY <1>1, StepFacts
<1> DEFINE p == sent[c][th[t].n]
           k == Len(log[c]) + 1
           x == Emitted(t)
<1>5. /\ th[t].n = Last(c) /\ th[t].n \in 1 .. Last(c)
      /\ th[t].va = Address(p) /\ th[t].len = p.len
  BY <1>1, ShowsLast
<1>6. p \in Pushbufs /\ p.buf \in Bufs /\ p.off \in Nat /\ p = [buf |-> p.buf, off |-> p.off, len |-> p.len]
  BY <1>5, SubmissionFacts, ConstantFacts
<1>7. th[t].buf = p.buf
  BY <1>1, <1>4 DEF ThreadInv, SourceOK
<1>8. /\ [buf |-> x.buf, off |-> x.off, len |-> x.len] = p /\ x.n = th[t].n
      /\ x.gen = chan[c].gen
  <2> HIDE DEF p
  <2>1. x.buf = p.buf /\ x.len = p.len /\ x.n = th[t].n /\ x.gen = chan[c].gen
    BY <1>2, <1>5, <1>7 DEF Emitted
  <2>2. x.off = p.off
    BY <1>5, <1>6, <1>7, ConstantFacts DEF Emitted, Address
  <2> QED
    BY <1>6, <2>1, <2>2
<1>9. /\ DOMAIN log'[c] = 1 .. k /\ log'[c][k] = x /\ k \in Nat /\ k \in 1 .. k
      /\ DOMAIN log[c] = 1 .. k - 1
      /\ \A i \in 1 .. k - 1 : log'[c][i] = log[c][i] /\ i # k /\ i < k /\ i \in DOMAIN log[c]
      /\ \A i \in 1 .. k : i = k \/ i \in 1 .. k - 1
  <2>1. log[c] \in Seq(Record) /\ Len(log[c]) \in Nat /\ DOMAIN log[c] = 1 .. Len(log[c])
    BY LogFacts
  <2> QED
    BY <1>2, <2>1
<1>10. /\ DecodeOK(t) /\ LogOK(c) /\ LogBelow(c, th[t].n)
       /\ chan[c].lastIdx = th[t].idx /\ chan[c].lastVa = th[t].va
  BY <1>1, <1>4 DEF ThreadInv, MoveOK, ChanInv
<1> HIDE DEF p, x, k
<1>11. LogOK(c)'
  <2> SUFFICES ASSUME NEW i \in 1 .. k
               PROVE  /\ log'[c][i].n \in 1 .. Last(c)
                      /\ log'[c][i].gen <= chan[c].gen
                      /\ \A j \in 1 .. k : i < j => InOrder(log'[c][i], log'[c][j])
                      /\ [buf |-> log'[c][i].buf, off |-> log'[c][i].off, len |-> log'[c][i].len]
                            = sent[c][log'[c][i].n]
                      /\ log'[c][i].chunks = log'[c][i].total
    BY <1>1, <1>9 DEF LogOK, Last, InOrder
  <2>1. CASE i = k
    <3>1. log'[c][i] = x
      BY <1>9, <2>1
    <3>2. x.chunks = x.total
      BY <1>2 DEF x
    <3>3. \A j \in 1 .. k : ~(i < j)
      BY <1>9, <2>1
    <3>4. chan[c].gen \in Nat
      BY HandlerFacts DEF Channel
    <3> QED
      BY <1>5, <1>8, <3>1, <3>2, <3>3, <3>4 DEF p
  <2>2. CASE i \in 1 .. k - 1
    <3>1. log'[c][i] = log[c][i] /\ i \in DOMAIN log[c]
      BY <1>9, <2>2
    <3>2. \A j \in 1 .. k : i < j => InOrder(log'[c][i], log'[c][j])
      <4> SUFFICES ASSUME NEW j \in 1 .. k, i < j PROVE InOrder(log'[c][i], log'[c][j])
        OBVIOUS
      <4>1. CASE j = k
        BY <1>8, <1>9, <1>10, <3>1, <4>1 DEF LogBelow, InOrder
      <4>2. CASE j \in 1 .. k - 1
        <5>1. log'[c][j] = log[c][j] /\ j \in DOMAIN log[c]
          BY <1>9, <4>2
        <5> QED
          BY <1>10, <3>1, <5>1 DEF LogOK
      <4> QED
        BY <1>9, <4>1, <4>2
    <3>3. /\ log[c][i].n \in 1 .. Last(c) /\ log[c][i].gen <= chan[c].gen
          /\ [buf |-> log[c][i].buf, off |-> log[c][i].off, len |-> log[c][i].len]
                = sent[c][log[c][i].n]
          /\ log[c][i].chunks = log[c][i].total
      BY <1>10, <3>1 DEF LogOK
    <3> QED
      BY <3>1, <3>2, <3>3
  <2> QED
    BY <1>9, <2>1, <2>2
<1>12. ChanInv(c)'
  <2>1. RingOK(c)'
    BY <1>1, <1>4 DEF ChanInv, RingOK, Last, VaAt, LenAt, Unrung
  <2>2. RestOK(c)'
    BY <1>3 DEF RestOK, Moving
  <2> QED
    BY <1>11, <2>1, <2>2 DEF ChanInv
<1>13. ThreadInv(t)'
  <2>1. DecodeOK(t)'
    BY <1>1, <1>3, <1>10 DEF DecodeOK, Last, VaAt, LenAt
  <2>2. \A i \in DOMAIN log'[c] : log'[c][i].n <= th[t].n
    <3> SUFFICES ASSUME NEW i \in 1 .. k PROVE log'[c][i].n <= th[t].n
      BY <1>9
    <3>1. th[t].n \in Nat
      BY HandlerFacts DEF Handler
    <3>2. CASE i = k
      BY <1>8, <1>9, <3>1, <3>2
    <3>3. CASE i \in 1 .. k - 1
      <4>1. log'[c][i] = log[c][i] /\ i \in DOMAIN log[c]
        BY <1>9, <3>3
      <4>2. (log[c][i].n < th[t].n \/ log[c][i].n = th[t].n) /\ log[c][i].n \in Nat
        BY <1>10, <4>1, LogFacts DEF LogBelow
      <4> QED
        BY <3>1, <4>1, <4>2
    <3> QED
      BY <1>9, <3>2, <3>3
  <2>3. MoveOK(t)'
    BY <1>1, <1>3, <1>10, <2>2 DEF MoveOK, LogUpTo
  <2>4. EmitOK(t)'
    <3>1. k \in DOMAIN log'[c] /\ log'[c][k].n = th[t].n
      BY <1>8, <1>9
    <3> QED
      BY <1>3, <3>1 DEF EmitOK
  <2> QED
    BY <1>3, <2>1, <2>3, <2>4 DEF ThreadInv, FreshOK, SourceOK
<1> QED
  BY <1>1, <1>2, <1>3, <1>4, <1>12, <1>13, HandlerReadout

\* The cursor comes to rest at the submission that was rung.
LEMMA ForwardReadout ==
    ASSUME SingleWriter, TableInv, ReadoutInv, NEW t \in Threads, NEW c \in Chans, c = th[t].c,
           Forward(t)
    PROVE  ReadoutInv'
<1>1. th[t].pc = "forward" /\ UNCHANGED <<rows, vm, kva, sent, log>>
  BY DEF Forward
<1>2. /\ TableInv' /\ th'[t] = InUser
      /\ \A u \in Threads : u # t => th'[u] = th[u]
      /\ chan'[c] = [chan[c] EXCEPT !.rung = th[t].n, !.again = FALSE]
      /\ \A d \in Chans : d # c => chan'[d] = chan[d]
  BY ForwardTable
<1>3. th'[t].pc = "user"
  BY <1>2 DEF InUser
<1>4. /\ chan'[c].ring = chan[c].ring /\ chan'[c].put = chan[c].put
      /\ chan'[c].lastIdx = chan[c].lastIdx /\ chan'[c].lastVa = chan[c].lastVa
      /\ chan'[c].rung = th[t].n /\ chan'[c].gen = chan[c].gen
  BY <1>2, HandlerFacts DEF Channel
<1>5. <<t, c>> \in Rings /\ ChanInv(c) /\ ThreadInv(t)
  BY <1>1, StepFacts
<1>6. /\ th[t].n = Last(c) /\ th[t].idx = IdxAt(Last(c)) /\ th[t].va = VaAt(c, Last(c))
      /\ chan[c].lastIdx = th[t].idx /\ chan[c].lastVa = th[t].va /\ LogUpTo(c, th[t].n)
  BY <1>1, <1>5 DEF ThreadInv, DecodeOK, MoveOK
<1>7. RingOK(c)'
  <2>1. Last(c) \in Nat /\ Last(c) < th[t].n + RingSize
    BY <1>6, SubmissionFacts, RingFacts
  <2>2. Unrung(c)' = {}
    BY <1>1, <1>4, <1>6, <2>1 DEF Unrung, Last
  <2>3. /\ chan[c].put = Last(c) % RingSize
        /\ chan[c].ring[IdxAt(Last(c))] = EntryOf(VaAt(c, Last(c)), LenAt(c, Last(c)))
    BY <1>5 DEF ChanInv, RingOK
  <2> QED
    BY <1>1, <1>4, <2>1, <2>2, <2>3 DEF RingOK, Last, VaAt, LenAt
<1>8. RestOK(c)'
  <2>1. th[t].idx # Never
    <3>1. th[t].idx \in Indices
      BY HandlerFacts DEF Handler
    <3> QED
      BY <3>1, RingFacts DEF Indices, Never
  <2> QED
    BY <1>1, <1>4, <1>6, <2>1 DEF RestOK, LogUpTo, VaAt, Last
<1>9. LogOK(c)'
  <2>1. LogOK(c)
    BY <1>5 DEF ChanInv
  <2>2. log'[c] = log[c] /\ sent'[c] = sent[c] /\ chan'[c].gen = chan[c].gen
    BY <1>1, <1>4
  <2>3. Last(c)' = Last(c)
    BY <2>2 DEF Last
  <2> SUFFICES ASSUME NEW i \in DOMAIN log[c]
               PROVE  /\ log[c][i].n \in 1 .. Last(c)
                      /\ log[c][i].gen <= chan[c].gen
                      /\ \A j \in DOMAIN log[c] : i < j => InOrder(log[c][i], log[c][j])
                      /\ [buf |-> log[c][i].buf, off |-> log[c][i].off, len |-> log[c][i].len]
                            = sent[c][log[c][i].n]
                      /\ log[c][i].chunks = log[c][i].total
    BY <2>2, <2>3 DEF LogOK
  <2> QED
    BY <2>1 DEF LogOK
<1>10. ThreadInv(t)'
  BY <1>3 DEF ThreadInv, DecodeOK, MoveOK, FreshOK, SourceOK, EmitOK
<1>11. ChanInv(c)'
  BY <1>7, <1>8, <1>9 DEF ChanInv
<1> QED
  BY <1>1, <1>2, <1>3, <1>5, <1>10, <1>11, HandlerReadout

LEMMA RingReadout ==
    ASSUME SingleWriter, TableInv, ReadoutInv, NEW t \in Threads, NEW c \in Chans, Ring(t, c)
    PROVE  ReadoutInv'
<1>1. /\ <<t, c>> \in Rings /\ th[t].pc = "user"
      /\ UNCHANGED <<rows, vm, kva, chan, sent, log>>
  BY DEF Ring
<1>2. /\ TableInv' /\ th'[t] = [InUser EXCEPT !.pc = "put", !.c = c]
      /\ \A u \in Threads : u # t => th'[u] = th[u]
  BY RingTable
<1>3. th'[t].pc = "put" /\ th'[t].c = c
  BY <1>2 DEF InUser
<1>4. ThreadInv(t)'
  BY <1>3 DEF ThreadInv, DecodeOK, MoveOK, FreshOK, SourceOK, EmitOK
<1>5. ~Moving(c)
  BY <1>1, MovingAlone DEF MovingPcs
<1>6. ChanInv(c)'
  BY <1>1, <1>5, ChanSame DEF ReadoutInv
<1> QED
  BY <1>1, <1>2, <1>3, <1>4, <1>6, HandlerReadout

\* A submission fills the slot at GP_PUT, which then is the one before it.
LEMMA SubmitReadout ==
    ASSUME SingleWriter, TableInv, ReadoutInv, NEW t \in Threads, NEW c \in Chans,
           NEW p \in Pushbufs, Submit(t, c, p)
    PROVE  ReadoutInv'
<1>1. /\ <<t, c>> \in Rings /\ th[t].pc = "user" /\ vm[p.buf] = "on"
      /\ Cardinality(Unrung(c)) < RingSize - 1
      /\ UNCHANGED <<rows, vm, kva, log, th>>
  BY DEF Submit
<1> DEFINE e == [e0 |-> Entry0(p), e1 |-> Entry1(p)]
<1>2. /\ TableInv' /\ sent'[c] = Append(sent[c], p)
      /\ chan'[c] = [chan[c] EXCEPT !.ring[chan[c].put] = e,
                                    !.put = (chan[c].put + 1) % RingSize, !.again = FALSE]
      /\ \A d \in Chans : d # c => chan'[d] = chan[d] /\ sent'[d] = sent[d]
  BY SubmitTable
<1>3. chan[c] \in Channel /\ chan[c].put \in Indices
  BY DEF TableInv, TypeOK, Channel
<1>4. /\ chan'[c].lastIdx = chan[c].lastIdx /\ chan'[c].lastVa = chan[c].lastVa
      /\ chan'[c].rung = chan[c].rung /\ chan'[c].put = (chan[c].put + 1) % RingSize
      /\ chan'[c].ring = [chan[c].ring EXCEPT ![chan[c].put] = e]
      /\ chan'[c].gen = chan[c].gen
  <2> HIDE DEF e
  <2> QED
    BY <1>2, <1>3 DEF Channel
<1>5. chan'[c].ring[chan[c].put] = e
  <2> HIDE DEF e
  <2>1. chan[c].ring \in [Indices -> [e0 : 0 .. WordBase - 1, e1 : [hi : Nat, len : Lengths]]]
    BY <1>3 DEF Channel
  <2> QED
    BY <1>3, <1>4, <2>1
<1>6. PICK n \in Nat : n = Last(c)
  BY SubmissionFacts
<1>7. /\ chan[c].rung \in Nat /\ chan[c].rung <= n /\ sent[c] \in Seq(Pushbufs) /\ ChanInv(c)
  BY <1>6, SubmissionFacts DEF ReadoutInv
<1>8. /\ Last(c)' = n + 1 /\ sent'[c][n + 1] = p
      /\ \A i \in 1 .. n : sent'[c][i] = sent[c][i]
  BY <1>2, <1>6, <1>7 DEF Last
<1>9. RingOK(c)'
  <2>1. chan[c].put = n % RingSize
    BY <1>6, <1>7 DEF ChanInv, RingOK
  <2>2. chan'[c].put = (n + 1) % RingSize
    BY <1>4, <2>1, RingFacts, ModSucc
  <2>3. IdxAt(n + 1) = chan[c].put
    BY <2>1, IdxFacts
  <2>4. VaAt(c, n + 1)' = Address(p) /\ LenAt(c, n + 1)' = p.len
    BY <1>8 DEF VaAt, LenAt
  <2>5. e = EntryOf(Address(p), p.len)
    BY DEF EntryOf, Entry0, Entry1
  <2>6. n + 1 < chan[c].rung + RingSize
    <3>1. PICK r \in Nat : r = chan[c].rung /\ r <= n
      BY <1>7
    <3>2. Unrung(c) = r + 1 .. n
      BY <1>6, <3>1 DEF Unrung, Last
    <3>3. Cardinality(r + 1 .. n) = IF r + 1 > n THEN 0 ELSE n - (r + 1) + 1
      BY FS_Interval
    <3>4. Cardinality(Unrung(c)) = n - r
      BY <3>1, <3>2, <3>3
    <3> QED
      BY <1>1, <3>1, <3>4, RingFacts
  <2>7. \A i \in Unrung(c)' : vm'[sent'[c][i].buf] = "on"
    <3> SUFFICES ASSUME NEW i \in chan[c].rung + 1 .. n + 1 PROVE vm[sent'[c][i].buf] = "on"
      BY <1>1, <1>4, <1>8 DEF Unrung, Last
    <3>1. CASE i = n + 1
      BY <1>1, <1>8, <3>1
    <3>2. CASE i # n + 1
      <4>1. i \in 1 .. n /\ i \in Unrung(c)
        BY <1>6, <1>7, <3>2 DEF Unrung, Last
      <4>2. vm[sent[c][i].buf] = "on"
        BY <1>7, <4>1 DEF ChanInv, RingOK
      <4> QED
        BY <1>8, <4>1, <4>2
    <3> QED
      BY <3>1, <3>2
  <2> HIDE DEF e
  <2> QED
    BY <1>4, <1>5, <1>8, <2>2, <2>3, <2>4, <2>5, <2>6, <2>7 DEF RingOK
<1>10. RestOK(c)'
  <2>1. Moving(c)' <=> Moving(c)
    BY <1>1 DEF Moving
  <2>2. PICK r \in Nat : r = chan[c].rung /\ r <= n
    BY <1>7
  <2>3. VaAt(c, r)' = VaAt(c, r)
    BY <1>8, <2>2 DEF VaAt
  <2>4. chan'[c].rung < Last(c)'
    BY <1>4, <1>8, <2>2
  <2> QED
    BY <1>1, <1>4, <1>7, <2>1, <2>2, <2>3, <2>4 DEF ChanInv, RestOK, LogUpTo
<1>11. LogOK(c)'
  <2> SUFFICES ASSUME NEW i \in DOMAIN log[c]
               PROVE  /\ log[c][i].n \in 1 .. n + 1
                      /\ log[c][i].gen <= chan[c].gen
                      /\ \A j \in DOMAIN log[c] : i < j => InOrder(log[c][i], log[c][j])
                      /\ [buf |-> log[c][i].buf, off |-> log[c][i].off, len |-> log[c][i].len]
                            = sent'[c][log[c][i].n]
                      /\ log[c][i].chunks = log[c][i].total
    BY <1>1, <1>4, <1>8 DEF LogOK
  <2>1. /\ log[c][i].n \in 1 .. n
        /\ log[c][i].gen <= chan[c].gen
        /\ \A j \in DOMAIN log[c] : i < j => InOrder(log[c][i], log[c][j])
        /\ [buf |-> log[c][i].buf, off |-> log[c][i].off, len |-> log[c][i].len]
              = sent[c][log[c][i].n]
        /\ log[c][i].chunks = log[c][i].total
    BY <1>6, <1>7 DEF ChanInv, LogOK
  <2> QED
    BY <1>8, <2>1
<1>12. ChanInv(c)'
  BY <1>9, <1>10, <1>11 DEF ChanInv
<1> DEFINE T == {}
<1>13. /\ \A u \in Threads \ T : th'[u] = th[u] /\ (th[u].pc = "user" \/ th[u].c # c)
       /\ \A u \in Threads : th[u].c \in Chans
  BY <1>1, Alone
<1>14. /\ T \in SUBSET Threads /\ \A u \in T : ThreadInv(u)'
       /\ \A u \in T : /\ th[u].pc = "user" \/ th[u].c = c
                       /\ th'[u].pc = "user" \/ th'[u].c = c
  OBVIOUS
<1> HIDE DEF T
<1> QED
  BY <1>1, <1>2, <1>12, <1>13, <1>14, Frame

\* A channel resolved anew has an unset cursor, and what it emits from now on counts as
\* a new resolution's.
LEMMA ReresolveReadout ==
    ASSUME TableInv, ReadoutInv, NEW c \in Chans, Reresolve(c)
    PROVE  ReadoutInv'
<1>1. /\ \A t \in Threads : th[t].pc = "user" \/ th[t].c # c
      /\ UNCHANGED <<rows, vm, kva, sent, log, th>>
  BY DEF Reresolve
<1>2. /\ TableInv'
      /\ chan'[c] = [chan[c] EXCEPT !.lastIdx = Never, !.lastVa = 0,
                                    !.gen = chan[c].gen + 1, !.again = TRUE]
      /\ \A d \in Chans : d # c => chan'[d] = chan[d]
  BY ReresolveTable
<1>3. /\ chan'[c].ring = chan[c].ring /\ chan'[c].put = chan[c].put
      /\ chan'[c].rung = chan[c].rung /\ chan'[c].lastIdx = Never
      /\ chan[c].gen \in Nat /\ chan'[c].gen = chan[c].gen + 1 /\ chan'[c].again
  BY <1>2 DEF TableInv, TypeOK, Channel
<1>4. ChanInv(c)'
  <2>1. RingOK(c)'
    BY <1>1, <1>3 DEF ReadoutInv, ChanInv, RingOK, Last, VaAt, LenAt, Unrung
  <2>4. ~Moving(c) /\ RestOK(c) /\ LogOK(c)
    BY <1>1 DEF Moving, ReadoutInv, ChanInv
  <2>5. \A i \in DOMAIN log[c] : log[c][i].gen \in Nat /\ log[c][i].gen <= chan[c].gen
    BY <2>4, LogFacts DEF LogOK
  <2>6. \A i \in DOMAIN log[c] : log[c][i].gen < chan'[c].gen /\ log[c][i].gen <= chan'[c].gen
    BY <1>3, <2>5
  <2>2. RestOK(c)'
    BY <1>1, <1>3, <2>4, <2>6 DEF RestOK, LogUpTo
  <2>3. LogOK(c)'
    BY <1>1, <1>3, <2>4, <2>6 DEF LogOK, Last
  <2> QED
    BY <2>1, <2>2, <2>3 DEF ChanInv
<1> DEFINE T == {}
<1>5. /\ \A u \in Threads \ T : th'[u] = th[u] /\ (th[u].pc = "user" \/ th[u].c # c)
      /\ \A u \in Threads : th[u].c \in Chans
  BY <1>1, HandlerFacts
<1>6. /\ T \in SUBSET Threads /\ \A u \in T : ThreadInv(u)'
      /\ \A u \in T : /\ th[u].pc = "user" \/ th[u].c = c
                      /\ th'[u].pc = "user" \/ th'[u].c = c
  OBVIOUS
<1> HIDE DEF T
<1> QED
  BY <1>1, <1>2, <1>4, <1>5, <1>6, Frame

LEMMA ReadoutNext ==
    ASSUME SingleWriter, DisjointMappings
    PROVE  TableInv /\ ReadoutInv /\ [Next]_vars => ReadoutInv'
<1> SUFFICES ASSUME TableInv, ReadoutInv, [Next]_vars PROVE ReadoutInv'
  OBVIOUS
<1>1. CASE UNCHANGED vars
  <2>1. UNCHANGED <<rows, vm, kva, chan, sent, log, th>>
    BY <1>1 DEF vars
  <2>2. \A m : Tracked(m)' <=> Tracked(m)
    BY <2>1 DEF Tracked
  <2>3. \A c \in Chans : \A n \in Unrung(c) : vm'[sent[c][n].buf] = "on"
    BY <2>1 DEF ReadoutInv, ChanInv, RingOK
  <2>4. \A t \in Threads : th[t].pc = "copy" /\ ~chan[th[t].c].again => Tracked(th[t].buf)'
    BY <2>1 DEF ReadoutInv, ThreadInv, SourceOK, Tracked
  <2> QED
    BY <2>1, <2>2, <2>3, <2>4, TrackerReadout
<1>2. ASSUME NEW m \in Bufs, nv_dbell_sysmem_track_add(m) \/ nv_dbell_sysmem_track_remove(m)
      PROVE  ReadoutInv'
  BY <1>2, TrackAddReadout, TrackRemoveReadout
<1>3. ASSUME NEW t \in Threads, HandlerStep(t) PROVE ReadoutInv'
  <2>1. PICK c \in Chans : c = th[t].c
    BY HandlerFacts
  <2> QED
    BY <1>3, <2>1, ReadGpPutReadout, ReadEntry0Readout, ReadEntry1Readout, TestIdxReadout,
       TestVaReadout, SetIdxReadout, SetVaReadout, LookupReadout, EmitChunkReadout,
       EmitDoneReadout, ForwardReadout DEF HandlerStep
<1>4. ASSUME NEW t \in Threads, NEW c \in Chans, Ring(t, c) PROVE ReadoutInv'
  BY <1>4, RingReadout
<1>5. ASSUME NEW t \in Threads, NEW c \in Chans, NEW p \in Pushbufs, Submit(t, c, p)
      PROVE  ReadoutInv'
  BY <1>5, SubmitReadout
<1>6. ASSUME NEW c \in Chans, Reresolve(c) PROVE ReadoutInv'
  BY <1>6, ReresolveReadout
<1> QED
  BY <1>1, <1>2, <1>3, <1>4, <1>5, <1>6 DEF Next

-----------------------------------------------------------------------------
(* The theorems about the readout.                                             *)

\* ReadoutInv holds in every reachable state when each channel has a single writer
\* (the comment on the cursor in nv_dbell_db_handler) and mappings do not overlap.
THEOREM ReadoutInvariance ==
    ASSUME SingleWriter, DisjointMappings
    PROVE  Spec => []ReadoutInv
<1> QED
  BY TableInit, TableNext, ReadoutInit, ReadoutNext, PTL DEF Spec

\* The handler reads pushbuffer words only inside its mapping and, but for the first
\* doorbell after a reset of the cursor, through a live vmap, although
\* nv_dbell_sysmem_gpu_va_to_kva has dropped the lock and nv_dbell_sysmem_track_remove
\* may run beside it as soon as the mapping's submissions are rung: the cursor keeps
\* the pokes that follow away from the stale ring entry.
THEOREM ReadsMappedHolds ==
    ASSUME SingleWriter, DisjointMappings
    PROVE  Spec => []ReadsMapped
<1>1. ASSUME TableInv, ReadoutInv PROVE ReadsMapped
  <2> SUFFICES ASSUME NEW t \in Threads, th[t].pc = "copy", th[t].off < th[t].len
               PROVE  /\ chan[th[t].c].again \/ th[t].buf \in kva
                      /\ Start[th[t].buf] <= th[t].va
                      /\ th[t].va + th[t].off + ChunkLen(t) <= End[th[t].buf]
    BY DEF ReadsMapped
  <2>1. Copying(th[t]) /\ th[t] \in Handler
    BY <1>1, HandlerFacts DEF LocalOK
  <2>2. (chan[th[t].c].again \/ Tracked(th[t].buf)) /\ th[t].buf \in Bufs
    BY <1>1, <2>1 DEF ReadoutInv, ThreadInv, SourceOK, Copying
  <2>3. chan[th[t].c].again \/ th[t].buf \in kva
    BY <1>1, <2>2 DEF TableInv, RowInv
  <2>4. /\ th[t].va \in Nat /\ th[t].len \in Nat /\ th[t].off \in Nat /\ Chunk \in Nat
        /\ End[th[t].buf] \in Nat
    <3>1. th[t].va \in Nat /\ th[t].len \in Lengths /\ th[t].off \in Words
      BY <2>1 DEF Handler
    <3> QED
      BY <2>2, <3>1, ConstantFacts, ChunkAssumption DEF Words
  <2>5. th[t].off + ChunkLen(t) <= th[t].len /\ ChunkLen(t) \in Nat
    BY <2>4 DEF ChunkLen
  <2>6. th[t].va + th[t].len <= End[th[t].buf] /\ Start[th[t].buf] <= th[t].va
    BY <2>1 DEF Copying
  <2> QED
    BY <2>3, <2>4, <2>5, <2>6
<1> QED
  BY <1>1, TableInvariance, ReadoutInvariance, PTL

\* However often a doorbell is poked, the dedup cursor of nv_dbell_db_handler lets
\* each submission into the trace once per resolution of its channel, in the order of
\* submission, for any ring size and however often ring indices and addresses recur.
THEOREM EmittedOnceInOrderHolds ==
    ASSUME SingleWriter, DisjointMappings
    PROVE  Spec => []EmittedOnceInOrder
<1>1. ASSUME ReadoutInv PROVE EmittedOnceInOrder
  BY <1>1 DEF ReadoutInv, ChanInv, LogOK, InOrder, EmittedOnceInOrder
<1> QED
  BY <1>1, ReadoutInvariance, PTL

\* A record in the trace shows the words of the submission it names, whole and in
\* the announced number of chunks: entry0 and entry1 are put together right, the
\* row looked up is the submission's, and the chunk loop stops at its end.
THEOREM RecordsFaithfulHolds ==
    ASSUME SingleWriter, DisjointMappings
    PROVE  Spec => []RecordsFaithful
<1>1. ASSUME ReadoutInv PROVE RecordsFaithful
  BY <1>1 DEF ReadoutInv, ChanInv, LogOK, RecordsFaithful
<1> QED
  BY <1>1, ReadoutInvariance, PTL

\* The dedup cursor never hides a submission: when nv_dbell_db_handler forwards the
\* doorbell of one that can be shown, its record is in the trace.
THEOREM RungIsEmittedHolds ==
    ASSUME SingleWriter, DisjointMappings
    PROVE  Spec => []RungIsEmitted
<1>1. ASSUME ReadoutInv PROVE RungIsEmitted
  BY <1>1 DEF ReadoutInv, ThreadInv, EmitOK, RungIsEmitted
<1> QED
  BY <1>1, ReadoutInvariance, PTL
=============================================================================

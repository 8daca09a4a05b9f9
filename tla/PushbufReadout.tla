--------------------------- MODULE PushbufReadout ---------------------------
(***************************************************************************)
(* What a trapped doorbell makes of a channel that the cache has resolved:  *)
(* the handler reads GP_PUT and the GPFIFO entry before it, skips an entry   *)
(* it has already emitted (the dedup cursor), translates the pushbuffer's    *)
(* address with the sysmem tracker and emits its words in chunks.  Beside    *)
(* it, mmap and munmap add rows to the tracker and remove them.              *)
(*                                                                         *)
(* Addresses and lengths are in dwords.  The handler is one shared access    *)
(* per action; the tracker's spinlock makes its scans atomic, while vmap     *)
(* and vunmap happen outside the lock.  Applications are external: they fill *)
(* a ring entry and advance GP_PUT before they ring, leave one ring entry    *)
(* unused, and unmap a pushbuffer only when its submissions were rung; the   *)
(* doorbell may still be poked, and a handler run, while they unmap it.      *)
(***************************************************************************)
EXTENDS Naturals, Sequences, FiniteSets

CONSTANTS
    Threads,    \* application threads, trapped one doorbell at a time
    Chans,      \* resolved channels
    Rings,      \* <<t, c>>: thread t submits to channel c
    Bufs,       \* sysmem mappings (VMAs)
    NULL,       \* no mapping
    Start,      \* vm_start of each mapping
    End,        \* vm_end
    Large,      \* mappings of at least 256 pages
    Pushbufs,   \* pushbuffers: a mapping, an offset into it and a length
    RingSize,   \* gpfifo_entries, a power of two
    TableSize,  \* NV_DBELL_SYSMEM_TABLE_SIZE
    Chunk,      \* words per emitted line
    MaxWords,   \* the longest pushbuffer that is emitted
    WordBase,   \* the addresses that entry0 can tell apart; entry1 holds the rest
    MaxSubs,    \* bound: submissions per channel
    MaxGen      \* bound: times a channel is resolved anew

Rows == 1 .. TableSize
Never == RingSize  \* the cursor's sentinel 0xFFFFFFFF: no ring index

ASSUME RingAssumption ==
    RingSize \in Nat \ {0, 1} /\ TableSize \in Nat \ {0}
    /\ MaxSubs \in Nat /\ MaxGen \in Nat
ASSUME ChunkAssumption ==
    Chunk \in Nat \ {0} /\ MaxWords \in Nat \ {0} /\ WordBase \in Nat \ {0}
ASSUME LayoutAssumption ==
    /\ Rings \subseteq Threads \X Chans /\ Large \subseteq Bufs /\ NULL \notin Bufs
    /\ Start \in [Bufs -> Nat \ {0}] /\ End \in [Bufs -> Nat]
    /\ \A m \in Bufs : Start[m] < End[m]
    /\ Pushbufs \subseteq [buf : Bufs, off : Nat, len : Nat] /\ Chans # {}
    /\ \A p \in Pushbufs : Start[p.buf] + p.off + p.len <= End[p.buf]

VARIABLES
    rows,   \* g_sysmem_tracked: the mapping in each row, or NULL
    vm,     \* progress of each mapping through mmap and munmap
    kva,    \* mappings with a live vmap
    chan,   \* GPFIFO ring, GP_PUT, dedup cursor, and how much was rung; ghosts: how
            \* often resolved anew, and whether since the last submission and doorbell
    sent,   \* ghost: the pushbuffers submitted to each channel
    log,    \* ghost: the records emitted for each channel
    th      \* program counter and locals of each thread's handler

vars == <<rows, vm, kva, chan, sent, log, th>>

Indices == 0 .. RingSize - 1
Words == 0 .. MaxWords + Chunk - 1
Address(p) == Start[p.buf] + p.off

\* entry0 holds the low part of the address, entry1 the high part and the length.
Entry0(p) == Address(p) % WordBase
Entry1(p) == [hi |-> Address(p) \div WordBase, len |-> p.len]
Lengths == {p.len : p \in Pushbufs} \cup {0}

Channel == [ring : [Indices -> [e0 : 0 .. WordBase - 1, e1 : [hi : Nat, len : Lengths]]],
            put : Indices, lastIdx : Indices \cup {Never}, lastVa : Nat, rung : Nat,
            gen : Nat, again : BOOLEAN]

Handler == [pc : {"user", "put", "e0", "e1", "idx", "va", "setidx", "setva", "lookup",
                  "copy", "forward"},
            c : Chans, n : Nat, idx : Indices, va : Nat, len : Lengths,
            buf : Bufs \cup {NULL}, off : Words, copied : 0 .. MaxWords, ck : Nat]

Record == [n : Nat, gen : Nat, buf : Bufs, off : Nat, len : 0 .. MaxWords,
           chunks : Nat, total : Nat]

TypeOK ==
    /\ rows \in [Rows -> Bufs \cup {NULL}]
    /\ vm \in [Bufs -> {"off", "insert", "full", "on", "vunmap"}]
    /\ kva \subseteq Bufs
    /\ chan \in [Chans -> Channel]
    /\ sent \in [Chans -> Seq(Pushbufs)]
    /\ \A c \in Chans : chan[c].rung <= Len(sent[c])
    /\ log \in [Chans -> Seq(Record)]
    /\ th \in [Threads -> Handler]

InUser == [pc |-> "user", c |-> CHOOSE c \in Chans : TRUE, n |-> 0, idx |-> 0, va |-> 0,
           len |-> 0, buf |-> NULL, off |-> 0, copied |-> 0, ck |-> 0]

ZeroEntry == [e0 |-> 0, e1 |-> [hi |-> 0, len |-> 0]]
NewChannel == [ring |-> [i \in Indices |-> ZeroEntry], put |-> 0,
               lastIdx |-> Never, lastVa |-> 0, rung |-> 0, gen |-> 0, again |-> FALSE]

Init ==
    /\ rows = [j \in Rows |-> NULL]
    /\ vm = [m \in Bufs |-> "off"]
    /\ kva = {}
    /\ chan = [c \in Chans |-> NewChannel]
    /\ sent = [c \in Chans |-> << >>]
    /\ log = [c \in Chans |-> << >>]
    /\ th = [t \in Threads |-> InUser]

-----------------------------------------------------------------------------
(* nv_dbell_sysmem_track_add and nv_dbell_sysmem_track_remove.                 *)

\* nvidia_mmap_helper maps m; a large mapping is vmapped first, outside the lock.
\* A small one, or one whose page array or vmap cannot be had, stays untracked.
Mmap(m) ==
    /\ vm[m] = "off"
    /\ \/ /\ m \in Large
          /\ vm' = [vm EXCEPT ![m] = "insert"] /\ kva' = kva \cup {m}
       \/ vm' = [vm EXCEPT ![m] = "on"] /\ UNCHANGED kva
    /\ UNCHANGED <<rows, chan, sent, log, th>>

FreeRow(j) == rows[j] = NULL /\ \A l \in Rows : rows[l] = NULL => j <= l

\* Mutant of TrackInsert: a full table is not noticed.
TrackInsertUnchecked(m) ==
    /\ vm[m] = "insert"
    /\ \/ \E j \in Rows : FreeRow(j) /\ rows' = [rows EXCEPT ![j] = m]
       \/ (\A j \in Rows : rows[j] # NULL) /\ UNCHANGED rows
    /\ vm' = [vm EXCEPT ![m] = "on"]
    /\ UNCHANGED <<kva, chan, sent, log, th>>

\* The locked part: take the first free row, if there is one.
TrackInsert(m) ==
    /\ vm[m] = "insert"
    /\ \/ \E j \in Rows :
             /\ FreeRow(j)
             /\ rows' = [rows EXCEPT ![j] = m] /\ vm' = [vm EXCEPT ![m] = "on"]
       \/ /\ \A j \in Rows : rows[j] # NULL
          /\ vm' = [vm EXCEPT ![m] = "full"] /\ UNCHANGED rows
    /\ UNCHANGED <<kva, chan, sent, log, th>>

\* Without a row the vmap is undone.
TrackFull(m) ==
    /\ vm[m] = "full"
    /\ vm' = [vm EXCEPT ![m] = "on"] /\ kva' = kva \ {m}
    /\ UNCHANGED <<rows, chan, sent, log, th>>

Unrung(c) == chan[c].rung + 1 .. Len(sent[c])

\* The application's discipline: it has rung everything it submitted from m.
Drained(m) == \A c \in Chans : \A n \in Unrung(c) : sent[c][n].buf # m

\* nvidia_vma_release: the row of m, if any, is cleared under the lock ...
Untrack(m) ==
    /\ vm[m] = "on" /\ Drained(m)
    /\ rows' = [j \in Rows |-> IF rows[j] = m THEN NULL ELSE rows[j]]
    /\ vm' = [vm EXCEPT ![m] = IF \E j \in Rows : rows[j] = m THEN "vunmap" ELSE "off"]
    /\ UNCHANGED <<kva, chan, sent, log, th>>

\* ... and then vunmapped, outside it: "vunmap sleeps".
Vunmap(m) ==
    /\ vm[m] = "vunmap"
    /\ vm' = [vm EXCEPT ![m] = "off"] /\ kva' = kva \ {m}
    /\ UNCHANGED <<rows, chan, sent, log, th>>

nv_dbell_sysmem_track_add(m) == Mmap(m) \/ TrackInsert(m) \/ TrackFull(m)
nv_dbell_sysmem_track_remove(m) == Untrack(m) \/ Vunmap(m)

-----------------------------------------------------------------------------
(* The application.                                                            *)

Submit(t, c, p) ==
    /\ <<t, c>> \in Rings /\ th[t].pc = "user" /\ vm[p.buf] = "on"
    /\ Len(sent[c]) < MaxSubs /\ Cardinality(Unrung(c)) < RingSize - 1
    /\ sent' = [sent EXCEPT ![c] = Append(@, p)]
    /\ chan' = [chan EXCEPT ![c].ring[chan[c].put] = [e0 |-> Entry0(p), e1 |-> Entry1(p)],
                            ![c].put = (@ + 1) % RingSize, ![c].again = FALSE]
    /\ UNCHANGED <<rows, vm, kva, log, th>>

\* A doorbell write, the first for a submission or one of the many that follow
\* while the application polls.
Ring(t, c) ==
    /\ <<t, c>> \in Rings /\ th[t].pc = "user"
    /\ th' = [th EXCEPT ![t] = [InUser EXCEPT !.pc = "put", !.c = c]]
    /\ UNCHANGED <<rows, vm, kva, chan, sent, log>>

\* The cache entry was invalidated and the channel is resolved anew, which resets the
\* cursor.  The entry is reserved by a doorbell of the channel itself, which decodes
\* nothing: no handler of c is under way.
Reresolve(c) ==
    /\ \A t \in Threads : th[t].pc = "user" \/ th[t].c # c
    /\ chan[c].lastIdx # Never /\ chan[c].gen < MaxGen
    /\ chan' = [chan EXCEPT ![c].lastIdx = Never, ![c].lastVa = 0,
                            ![c].gen = @ + 1, ![c].again = TRUE]
    /\ UNCHANGED <<rows, vm, kva, sent, log, th>>

-----------------------------------------------------------------------------
(* nv_dbell_db_handler, from GP_PUT to the forward.                            *)

Goto(t, pc) == th' = [th EXCEPT ![t].pc = pc]

\* Mutant of Latest: the entry at GP_PUT itself.
LatestOffByOne(put) == put

\* (gp_put - 1) & (entries - 1), which wraps at 0.
Latest(put) == (put + RingSize - 1) % RingSize

ReadGpPut(t) ==
    /\ th[t].pc = "put"
    /\ th' = [th EXCEPT ![t].pc = "e0", ![t].idx = Latest(chan[th[t].c].put),
                        ![t].n = Len(sent[th[t].c])]
    /\ UNCHANGED <<rows, vm, kva, chan, sent, log>>

ReadEntry0(t) ==
    /\ th[t].pc = "e0"
    /\ th' = [th EXCEPT ![t].pc = "e1", ![t].va = chan[th[t].c].ring[th[t].idx].e0]
    /\ UNCHANGED <<rows, vm, kva, chan, sent, log>>

ReadEntry1(t) ==
    LET e1 == chan[th[t].c].ring[th[t].idx].e1 IN
    /\ th[t].pc = "e1"
    /\ th' = [th EXCEPT ![t].pc = "idx", ![t].va = e1.hi * WordBase + @, ![t].len = e1.len]
    /\ UNCHANGED <<rows, vm, kva, chan, sent, log>>

\* Mutant of TestIdx: only the address is compared.
TestIdxSkipped(t) ==
    /\ th[t].pc = "idx"
    /\ Goto(t, "va")
    /\ UNCHANGED <<rows, vm, kva, chan, sent, log>>

\* The dedup test: an index or an address other than the cursor's is news.
TestIdx(t) ==
    /\ th[t].pc = "idx"
    /\ Goto(t, IF chan[th[t].c].lastIdx # th[t].idx THEN "setidx" ELSE "va")
    /\ UNCHANGED <<rows, vm, kva, chan, sent, log>>

TestVa(t) ==
    /\ th[t].pc = "va"
    /\ Goto(t, IF chan[th[t].c].lastVa # th[t].va THEN "setidx" ELSE "forward")
    /\ UNCHANGED <<rows, vm, kva, chan, sent, log>>

SetIdx(t) ==
    /\ th[t].pc = "setidx"
    /\ chan' = [chan EXCEPT ![th[t].c].lastIdx = th[t].idx]
    /\ Goto(t, "setva")
    /\ UNCHANGED <<rows, vm, kva, sent, log>>

\* Mutant of SetVa: the address is not recorded.
SetVaForgotten(t) ==
    /\ th[t].pc = "setva"
    /\ Goto(t, IF th[t].len > 0 /\ th[t].len <= MaxWords THEN "lookup" ELSE "forward")
    /\ UNCHANGED <<rows, vm, kva, chan, sent, log>>

\* The second store of the cursor, and the filter on the length.
SetVa(t) ==
    /\ th[t].pc = "setva"
    /\ chan' = [chan EXCEPT ![th[t].c].lastVa = th[t].va]
    /\ Goto(t, IF th[t].len > 0 /\ th[t].len <= MaxWords THEN "lookup" ELSE "forward")
    /\ UNCHANGED <<rows, vm, kva, sent, log>>

Covers(j, va, len) == rows[j] # NULL /\ Start[rows[j]] <= va /\ va + len <= End[rows[j]]

\* nv_dbell_sysmem_gpu_va_to_kva: the first tracked mapping that covers the
\* pushbuffer, found under the lock; a miss is reported and given up.
nv_dbell_sysmem_gpu_va_to_kva(t) ==
    /\ th[t].pc = "lookup"
    /\ \/ \E j \in Rows :
             /\ Covers(j, th[t].va, th[t].len)
             /\ \A l \in Rows : Covers(l, th[t].va, th[t].len) => j <= l
             /\ th' = [th EXCEPT ![t].pc = "copy", ![t].buf = rows[j]]
       \/ /\ \A j \in Rows : ~Covers(j, th[t].va, th[t].len)
          /\ Goto(t, "forward")
    /\ UNCHANGED <<rows, vm, kva, chan, sent, log>>

\* Mutant of ChunkLen: the last chunk is emitted whole.
ChunkLenWhole(t) == Chunk

ChunkLen(t) == IF th[t].len - th[t].off < Chunk THEN th[t].len - th[t].off ELSE Chunk

\* One line of output: the words [off, off + this_len) of the pushbuffer.
EmitChunk(t) ==
    /\ th[t].pc = "copy" /\ th[t].off < th[t].len
    /\ th' = [th EXCEPT ![t].off = @ + Chunk, ![t].copied = @ + ChunkLen(t), ![t].ck = @ + 1]
    /\ UNCHANGED <<rows, vm, kva, chan, sent, log>>

\* The loop is over: the record of submission n is complete.
EmitDone(t) ==
    /\ th[t].pc = "copy" /\ th[t].off >= th[t].len
    /\ log' = [log EXCEPT ![th[t].c] = Append(@,
          [n |-> th[t].n, gen |-> chan[th[t].c].gen, buf |-> th[t].buf,
           off |-> th[t].va - Start[th[t].buf], len |-> th[t].copied, chunks |-> th[t].ck,
           total |-> (th[t].len + Chunk - 1) \div Chunk])]
    /\ Goto(t, "forward")
    /\ UNCHANGED <<rows, vm, kva, chan, sent>>

\* The doorbell reaches the GPU, which may now consume what was submitted.
Forward(t) ==
    /\ th[t].pc = "forward"
    /\ chan' = [chan EXCEPT ![th[t].c].rung = th[t].n, ![th[t].c].again = FALSE]
    /\ th' = [th EXCEPT ![t] = InUser]
    /\ UNCHANGED <<rows, vm, kva, sent, log>>

HandlerStep(t) ==
    \/ ReadGpPut(t) \/ ReadEntry0(t) \/ ReadEntry1(t)
    \/ TestIdx(t) \/ TestVa(t) \/ SetIdx(t) \/ SetVa(t)
    \/ nv_dbell_sysmem_gpu_va_to_kva(t) \/ EmitChunk(t) \/ EmitDone(t)
    \/ Forward(t)

-----------------------------------------------------------------------------
Next ==
    \/ \E m \in Bufs : nv_dbell_sysmem_track_add(m) \/ nv_dbell_sysmem_track_remove(m)
    \/ \E t \in Threads : HandlerStep(t)
    \/ \E t \in Threads, c \in Chans : Ring(t, c) \/ \E p \in Pushbufs : Submit(t, c, p)
    \/ \E c \in Chans : Reresolve(c)

Spec == Init /\ [][Next]_vars

-----------------------------------------------------------------------------
\* The handler reads pushbuffer words only inside its mapping, and through a vmap that
\* is alive, although it dropped the lock it looked the address up under and munmap
\* may run beside it: pokes find the ring entry of what was rung and unmapped, and
\* only the dedup cursor keeps them from reading it.  The first doorbell after the
\* cursor was reset has no such protection.
ReadsMapped ==
    \A t \in Threads : th[t].pc = "copy" /\ th[t].off < th[t].len =>
        /\ chan[th[t].c].again \/ th[t].buf \in kva
        /\ Start[th[t].buf] <= th[t].va
        /\ th[t].va + th[t].off + ChunkLen(t) <= End[th[t].buf]

\* However often the doorbell of a submission is poked, its words are emitted at most
\* once per resolution of the channel, and later submissions come later in the trace.
EmittedOnceInOrder ==
    \A c \in Chans : \A i, j \in DOMAIN log[c] : i < j =>
        \/ log[c][i].n < log[c][j].n
        \/ log[c][i].n = log[c][j].n /\ log[c][i].gen < log[c][j].gen

\* A record shows the submission it names: the right words of the right mapping,
\* whole, in the announced number of chunks.
RecordsFaithful ==
    \A c \in Chans : \A i \in DOMAIN log[c] :
        LET r == log[c][i] IN
        /\ [buf |-> r.buf, off |-> r.off, len |-> r.len] = sent[c][r.n]
        /\ r.chunks = r.total

Tracked(m) == \E j \in Rows : rows[j] = m

\* The dedup cursor suppresses repeats only: when the doorbell of a submission that
\* can be shown (tracked mapping, acceptable length) goes to the GPU, the submission
\* is in the trace, although ring indices and addresses recur.
RungIsEmitted ==
    \A t \in Threads :
        LET c == th[t].c  n == th[t].n IN
        /\ th[t].pc = "forward" /\ n > chan[c].rung
        /\ sent[c][n].len \in 1 .. MaxWords /\ Tracked(sent[c][n].buf)
        => \E i \in DOMAIN log[c] : log[c][i].n = n

\* Kernel address space is not leaked: a vmap is alive exactly while one row holds
\* it, or while the mmap that made it or the munmap that takes it down is under way.
VmapsAccounted ==
    \A m \in Bufs :
        Cardinality({j \in Rows : rows[j] = m})
        + (IF vm[m] \in {"insert", "full", "vunmap"} THEN 1 ELSE 0)
            = IF m \in kva THEN 1 ELSE 0
=============================================================================

----------------------------- MODULE PbcapProofs -----------------------------
(***************************************************************************)
(* What TLAPS proves of Pbcap, for every number of threads, windows and rows.*)
(*                                                                         *)
(* None of the safety properties is inductive.  The strengthening says how   *)
(* the table and the page protections follow each other (TableInv): a closed *)
(* window has a row unless the table was full or munmap has just forgotten   *)
(* it, and a mapped window with a row is armed, or about to be, unless the   *)
(* row is older than the mapping; what a thread inside a hook or a scan has  *)
(* done so far (HookOK); and what a thread on its way through a fault may    *)
(* rely on while it walks the table (FaultOK, LookupOK, TraceOK).            *)
(***************************************************************************)
EXTENDS Pbcap, TLAPS

Armers == {"arm", "scanarm"}
QuietPCs == {"step", "trap", "rearm", "close"}
FaultPCs == {"segv", "open"} \cup QuietPCs
LookupPCs == {"segv", "open", "rearm", "close", "crash"}

\* The window will be armed, was armed, or its row is older than its mapping.
SeenTo(w) == w \in armed \cup stale \/ Busy(Armers, w)

TableInv ==
    \A w \in Windows :
        /\ prot[w] = "r" => w \in armed
        /\ w \in armed => prot[w] # "none"
        /\ prot[w] = "r" => Entered(w) \/ w \in dropped \/ Busy({"unmap"}, w)
        /\ Entered(w) /\ prot[w] # "none" => SeenTo(w)

HookOK(t) ==
    /\ th[t].pc \in {"record", "unmap"} \cup Armers => th[t].w \in Windows
    /\ th[t].pc \in Armers => Entered(th[t].w) \/ th[t].w \in dropped
    /\ \A w \in th[t].seen : prot[w] # "none" /\ (w \in th[t].todo \/ SeenTo(w))

\* A window that is being stored to is armed, and nobody unmaps it.
FaultOK(t) ==
    th[t].pc \in FaultPCs => th[t].w \in Windows /\ th[t].w \in armed /\ ~Busy({"unmap"}, th[t].w)

\* The walk over the table has not passed the row of the window.
Ahead(t) == \E j \in Rows : th[t].i <= j /\ rows[j] = th[t].w

LookupOK(t) ==
    /\ th[t].pc = "segv" => th[t].w \in dropped \/ Ahead(t)
    /\ th[t].pc = "open" =>
          (th[t].i \in Rows /\ rows[th[t].i] = th[t].w) \/ (th[t].i \notin Rows /\ th[t].w \in dropped)
    /\ th[t].pc \in {"step", "trap"} => Entered(th[t].w)
    /\ th[t].pc = "rearm" => Ahead(t)
    /\ th[t].pc = "close" => th[t].i \in Rows /\ rows[th[t].i] = th[t].w
    /\ th[t].pc = "crash" => th[t].w \in dropped

TraceOK(t) ==
    /\ th[t].pc \notin LookupPCs => th[t].i = 1
    /\ th[t].pc \in {"step", "trap"} => th[t].pending = th[t].w
    /\ th[t].events = IF th[t].pc \in {"rearm", "close"} THEN <<th[t].w>> ELSE <<>>

ThreadInv == \A t \in Threads : HookOK(t) /\ FaultOK(t) /\ LookupOK(t) /\ TraceOK(t)

Inv == TypeOK /\ TableInv /\ ThreadInv /\ QuietArmed

-----------------------------------------------------------------------------
(* Steps that change one thread.                                               *)

LEMMA UserState ==
    /\ InUser \in Thread /\ InUser.pc = "user" /\ InUser.i = 1 /\ InUser.events = <<>>
    /\ InUser.w = NULL /\ InUser.todo = {} /\ InUser.seen = {} /\ InUser.pending = NULL
  BY TableAssumption DEF InUser, Thread, PCs

LEMMA InitInv == Init => Inv
<1> SUFFICES ASSUME Init PROVE Inv
  OBVIOUS
<1>1. \A t \in Threads : th[t] = InUser
  BY DEF Init
<1>3. TypeOK
  BY UserState DEF Init, TypeOK
<1>4. \A w \in Windows : ~Entered(w)
  BY TableAssumption DEF Init, Entered
<1>5. TableInv /\ QuietArmed
  BY <1>4 DEF Init, TableInv, QuietArmed
<1>6. ThreadInv
  BY <1>1, UserState DEF ThreadInv, HookOK, FaultOK, LookupOK, TraceOK, FaultPCs, LookupPCs,
     QuietPCs, Armers
<1> QED
  BY <1>3, <1>5, <1>6 DEF Inv

\* What an update of one thread's record says of the threads' records.
LEMMA ThreadUpdate ==
    ASSUME TypeOK, NEW t \in Threads, NEW r \in Thread, th' = [th EXCEPT ![t] = r]
    PROVE  /\ th' \in [Threads -> Thread] /\ th'[t] = r
           /\ \A u \in Threads : u # t => th'[u] = th[u]
  BY DEF TypeOK

\* Moving a thread to another point changes nothing else of it.
LEMMA AtFields ==
    ASSUME TypeOK, NEW t \in Threads, NEW pc \in PCs, NEW w \in Windows \cup {NULL}, At(t, pc, w)
    PROVE  \E r \in Thread :
              /\ th' = [th EXCEPT ![t] = r]
              /\ r.pc = pc /\ r.w = w /\ r.i = th[t].i /\ r.pending = th[t].pending
              /\ r.events = th[t].events /\ r.todo = th[t].todo /\ r.seen = th[t].seen
<1> DEFINE r == [th[t] EXCEPT !.pc = pc, !.w = w]
<1>1. th[t] \in Thread
  BY DEF TypeOK
<1>2. /\ r \in Thread
      /\ r.pc = pc /\ r.w = w /\ r.i = th[t].i /\ r.pending = th[t].pending
      /\ r.events = th[t].events /\ r.todo = th[t].todo /\ r.seen = th[t].seen
  BY <1>1 DEF Thread
<1>3. th' = [th EXCEPT ![t] = r]
  BY DEF At
<1> HIDE DEF r
<1>4. /\ th' = [th EXCEPT ![t] = r]
      /\ r.pc = pc /\ r.w = w /\ r.i = th[t].i /\ r.pending = th[t].pending
      /\ r.events = th[t].events /\ r.todo = th[t].todo /\ r.seen = th[t].seen
  BY <1>2, <1>3
<1> QED
  BY <1>2, <1>4

\* The walk of a thread that does not move survives a step that keeps the rows of
\* its window.
LEMMA LookupKept ==
    ASSUME NEW u \in Threads, LookupOK(u), th'[u].pc = th[u].pc, th'[u].w = th[u].w,
           th'[u].i = th[u].i, dropped \subseteq dropped',
           th[u].pc \in FaultPCs => \A j \in Rows : rows[j] = th[u].w => rows'[j] = th[u].w
    PROVE  LookupOK(u)'
<1>1. th[u].pc \in FaultPCs => (Ahead(u) => Ahead(u)')
  BY DEF Ahead
<1>2. th[u].pc \in FaultPCs => (Entered(th[u].w) => \E j \in Rows : rows'[j] = th'[u].w)
  BY DEF Entered
<1> QED
  BY <1>1, <1>2 DEF LookupOK, FaultPCs, QuietPCs, Entered

\* A step of a thread that leaves the table, the protections and the ghosts alone.
LEMMA ThreadStep ==
    ASSUME Inv, NEW t \in Threads, NEW r \in Thread, th' = [th EXCEPT ![t] = r],
           UNCHANGED <<rows, prot, armed, stale, dropped>>,
           th[t].pc \notin {"unmap"} \cup Armers, r.pc # "unmap",
           th[t].pc \in QuietPCs => (r.pc \in QuietPCs /\ r.w = th[t].w) \/ prot[th[t].w] = "r",
           HookOK(t)', FaultOK(t)', LookupOK(t)', TraceOK(t)'
    PROVE  Inv'
<1>1. /\ th' \in [Threads -> Thread] /\ th'[t] = r
      /\ \A u \in Threads : u # t => th'[u] = th[u]
  BY ThreadUpdate DEF Inv
<1>2. TypeOK'
  BY <1>1 DEF Inv, TypeOK
<1>3. \A w : Entered(w)' <=> Entered(w)
  BY DEF Entered
<1>4. \A w : Busy({"unmap"}, w)' <=> Busy({"unmap"}, w)
  BY <1>1 DEF Busy
<1>5. \A w : Busy(Armers, w) => Busy(Armers, w)'
  BY <1>1 DEF Busy, Armers
<1>6. \A w : SeenTo(w) => SeenTo(w)'
  BY <1>5 DEF SeenTo
<1>7. TableInv'
  BY <1>3, <1>4, <1>6 DEF Inv, TableInv
<1>8. ASSUME NEW u \in Threads, u # t
      PROVE  HookOK(u)' /\ FaultOK(u)' /\ LookupOK(u)' /\ TraceOK(u)'
  <2>1. th'[u] = th[u] /\ HookOK(u) /\ FaultOK(u) /\ LookupOK(u) /\ TraceOK(u)
    BY <1>1, <1>8 DEF Inv, ThreadInv
  <2>2. HookOK(u)'
    BY <1>3, <1>6, <2>1 DEF HookOK
  <2>3. FaultOK(u)'
    BY <1>4, <2>1 DEF FaultOK
  <2>4. LookupOK(u)'
    BY <2>1, LookupKept
  <2>5. TraceOK(u)'
    BY <2>1 DEF TraceOK
  <2> QED
    BY <2>2, <2>3, <2>4, <2>5
<1>9. ThreadInv'
  BY <1>8 DEF ThreadInv
<1>10. QuietArmed'
  <2>1. SUFFICES ASSUME NEW w \in armed, prot[w] # "r" PROVE Busy(QuietPCs, w)'
    BY DEF QuietArmed, QuietPCs
  <2>2. PICK u \in Threads : th[u].pc \in QuietPCs /\ th[u].w = w
    BY <2>1 DEF Inv, QuietArmed, Busy, QuietPCs
  <2> QED
    BY <1>1, <2>1, <2>2 DEF Busy
<1> QED
  BY <1>2, <1>7, <1>9, <1>10 DEF Inv

-----------------------------------------------------------------------------
(* Steps that change one thread only.                                          *)

LEMMA ScanBeginInv ==
    ASSUME Inv, NEW t \in Threads, ScanBegin(t)
    PROVE  Inv'
<1> DEFINE r == [InUser EXCEPT !.pc = "scan",
                    !.todo = {w \in Windows : prot[w] = "rw"},
                    !.seen = {w \in Windows : prot[w] # "none"}]
<1>1. /\ r \in Thread /\ r.pc = "scan" /\ r.events = <<>> /\ r.i = 1
      /\ r.todo = {w \in Windows : prot[w] = "rw"}
      /\ r.seen = {w \in Windows : prot[w] # "none"}
  <2>1. "scan" \in PCs
    BY DEF PCs
  <2> QED
    BY <2>1, UserState DEF Thread
<1>2. th' = [th EXCEPT ![t] = r] /\ th[t].pc = "user"
  BY DEF ScanBegin
<1> HIDE DEF r
<1>3. th'[t] = r /\ UNCHANGED <<rows, prot, armed, stale, dropped>>
  BY <1>1, <1>2, ThreadUpdate DEF Inv, ScanBegin
<1>4. \A w \in r.seen : prot[w] # "none" /\ (w \in r.todo \/ w \in armed)
  BY <1>1 DEF Inv, TableInv, TypeOK
<1>5. HookOK(t)'
  BY <1>1, <1>3, <1>4 DEF HookOK, Armers, SeenTo
<1>6. FaultOK(t)' /\ LookupOK(t)' /\ TraceOK(t)'
  BY <1>1, <1>3 DEF FaultOK, LookupOK, TraceOK, FaultPCs, QuietPCs, LookupPCs
<1> QED
  BY <1>1, <1>2, <1>3, <1>5, <1>6, ThreadStep DEF Armers, QuietPCs

LEMMA ScanKnownInv ==
    ASSUME Inv, NEW t \in Threads, NEW w \in Windows, ScanKnown(t, w)
    PROVE  Inv'
<1> DEFINE r == [th[t] EXCEPT !.todo = @ \ {w}]
<1>1. th[t] \in Thread /\ th[t].pc = "scan" /\ HookOK(t) /\ TraceOK(t)
  BY DEF Inv, TypeOK, ThreadInv, ScanKnown
<1>2. /\ r \in Thread /\ r.pc = "scan" /\ r.events = th[t].events /\ r.i = th[t].i
      /\ r.todo = th[t].todo \ {w} /\ r.seen = th[t].seen
  BY <1>1 DEF Thread
<1>3. th' = [th EXCEPT ![t] = r]
  BY DEF ScanKnown
<1> HIDE DEF r
<1>4. th'[t] = r /\ UNCHANGED <<rows, prot, armed, stale, dropped>>
  BY <1>2, <1>3, ThreadUpdate DEF Inv, ScanKnown
<1>5. \A v : SeenTo(v) => SeenTo(v)'
  <2>1. \A u \in Threads : u # t => th'[u] = th[u]
    BY <1>2, <1>3, ThreadUpdate DEF Inv
  <2> QED
    BY <1>1, <1>4, <2>1 DEF SeenTo, Busy, Armers
<1>6. prot[w] # "none" => SeenTo(w)
  BY DEF Inv, TableInv, ScanKnown
<1>7. HookOK(t)'
  BY <1>1, <1>2, <1>4, <1>5, <1>6 DEF HookOK, Armers
<1>8. FaultOK(t)' /\ LookupOK(t)' /\ TraceOK(t)'
  BY <1>1, <1>2, <1>4 DEF FaultOK, LookupOK, TraceOK, FaultPCs, QuietPCs, LookupPCs
<1> QED
  BY <1>1, <1>2, <1>3, <1>4, <1>7, <1>8, ThreadStep DEF Armers, QuietPCs

\* A thread that goes back to its program has nothing left to keep.
LEMMA UserOK ==
    ASSUME NEW t \in Threads, th'[t] = InUser
    PROVE  HookOK(t)' /\ FaultOK(t)' /\ LookupOK(t)' /\ TraceOK(t)'
  BY UserState DEF HookOK, FaultOK, LookupOK, TraceOK, FaultPCs, QuietPCs, LookupPCs, Armers

LEMMA ScanEndInv ==
    ASSUME Inv, NEW t \in Threads, ScanEnd(t)
    PROVE  Inv'
<1>1. th'[t] = InUser
  BY UserState, ThreadUpdate DEF Inv, ScanEnd
<1> QED
  BY <1>1, UserState, UserOK, ThreadStep DEF ScanEnd, Armers, QuietPCs

LEMMA StoreStepInv ==
    ASSUME Inv, NEW t \in Threads, NEW w \in Windows, Store(t, w)
    PROVE  Inv'
<1>1. PICK r \in Thread : /\ th' = [th EXCEPT ![t] = r] /\ r.pc = "segv" /\ r.w = w
                          /\ r.i = th[t].i /\ r.events = th[t].events
                          /\ r.todo = th[t].todo /\ r.seen = th[t].seen
  BY AtFields DEF Store, PCs, Inv
<1>2. /\ th'[t] = r /\ th[t].pc = "user" /\ UNCHANGED <<rows, prot, armed, stale, dropped>>
      /\ \A u \in Threads : u # t => th'[u] = th[u]
  BY <1>1, ThreadUpdate DEF Inv, Store
<1>3. HookOK(t) /\ TraceOK(t)
  BY DEF Inv, ThreadInv
<1>4. w \in armed /\ ~Busy({"unmap"}, w) /\ (Entered(w) \/ w \in dropped)
  BY DEF Inv, TableInv, Store, Busy
<1>5. \A v : SeenTo(v) => SeenTo(v)'
  BY <1>2 DEF SeenTo, Busy, Armers
<1>6. HookOK(t)'
  BY <1>1, <1>2, <1>3, <1>5 DEF HookOK, Armers
<1>7. FaultOK(t)'
  BY <1>1, <1>2, <1>4 DEF FaultOK, Busy
<1>8. LookupOK(t)'
  <2>1. w \in dropped \/ \E j \in Rows : 1 <= j /\ rows[j] = w
    BY <1>4, TableAssumption DEF Entered, Rows
  <2>2. r.i = 1
    BY <1>1, <1>2, <1>3 DEF TraceOK, LookupPCs
  <2>3. w \in dropped \/ Ahead(t)'
    BY <1>1, <1>2, <2>1, <2>2 DEF Ahead
  <2> QED
    BY <1>1, <1>2, <2>3 DEF LookupOK
<1>9. TraceOK(t)'
  BY <1>1, <1>2, <1>3 DEF TraceOK, LookupPCs
<1> QED
  BY <1>1, <1>2, <1>6, <1>7, <1>8, <1>9, ThreadStep DEF Armers, QuietPCs

LEMMA ReplayInv ==
    ASSUME Inv, NEW t \in Threads, Replay(t)
    PROVE  Inv'
<1> DEFINE pc == IF prot[th[t].w] = "rw" THEN "trap" ELSE "segv"
<1>1. HookOK(t) /\ FaultOK(t) /\ LookupOK(t) /\ TraceOK(t) /\ th[t].pc = "step"
  BY DEF Inv, ThreadInv, Replay
<1>2. /\ th[t].w \in Windows /\ th[t].w \in armed /\ ~Busy({"unmap"}, th[t].w)
      /\ Entered(th[t].w) /\ th[t].i = 1
  BY <1>1 DEF FaultOK, LookupOK, TraceOK, FaultPCs, QuietPCs, LookupPCs
<1>3. At(t, pc, th[t].w) /\ pc \in PCs
  BY DEF Replay, PCs
<1>4. pc = "trap" \/ (pc = "segv" /\ prot[th[t].w] = "r")
  BY <1>2 DEF Inv, TableInv, TypeOK
<1> HIDE DEF pc
<1>5. PICK r \in Thread : /\ th' = [th EXCEPT ![t] = r] /\ r.pc = pc /\ r.w = th[t].w
                          /\ r.i = th[t].i /\ r.events = th[t].events /\ r.pending = th[t].pending
                          /\ r.todo = th[t].todo /\ r.seen = th[t].seen
  BY <1>2, <1>3, AtFields DEF Inv
<1>6. /\ th'[t] = r /\ UNCHANGED <<rows, prot, armed, stale, dropped>>
      /\ \A u \in Threads : u # t => th'[u] = th[u]
  BY <1>5, ThreadUpdate DEF Inv, Replay
<1>7. \A v : SeenTo(v) => SeenTo(v)'
  BY <1>1, <1>6 DEF SeenTo, Busy, Armers
<1>8. HookOK(t)'
  BY <1>1, <1>4, <1>5, <1>6, <1>7 DEF HookOK, Armers
<1>9. FaultOK(t)'
  BY <1>2, <1>4, <1>5, <1>6 DEF FaultOK, Busy
<1>10. LookupOK(t)'
  <2>1. Entered(th[t].w)'
    BY <1>2, <1>5, <1>6 DEF Entered
  <2>2. \E j \in Rows : 1 <= j /\ rows[j] = th[t].w
    BY <1>2, TableAssumption DEF Entered, Rows
  <2>3. Ahead(t)'
    BY <1>2, <1>5, <1>6, <2>2 DEF Ahead
  <2> QED
    BY <1>4, <1>5, <1>6, <2>1, <2>3 DEF LookupOK
<1>11. TraceOK(t)'
  BY <1>1, <1>4, <1>5, <1>6 DEF TraceOK, LookupPCs
<1> QED
  BY <1>1, <1>4, <1>5, <1>6, <1>8, <1>9, <1>10, <1>11, ThreadStep DEF Armers, QuietPCs

\* One row of the walk over the table.
LEMMA LookupStep ==
    ASSUME Inv, NEW t \in Threads, NEW pc \in {"open", "close"}, dbell_find_mapping(t, pc),
           pc = "open" => th[t].pc = "segv", pc = "close" => th[t].pc = "rearm"
    PROVE  Inv'
<1> DEFINE skip == th[t].i \in Rows /\ rows[th[t].i] # th[t].w
           r == IF skip THEN [th[t] EXCEPT !.i = th[t].i + 1] ELSE [th[t] EXCEPT !.pc = pc]
<1>1. /\ th[t] \in Thread /\ th[t].i \in 1 .. TableSize + 1
      /\ HookOK(t) /\ FaultOK(t) /\ LookupOK(t) /\ TraceOK(t)
  BY DEF Inv, TypeOK, ThreadInv, Thread
<1>2. /\ skip => th[t].i + 1 \in 1 .. TableSize + 1
      /\ pc \in PCs
  BY <1>1, TableAssumption DEF Rows, PCs
<1>3. /\ r \in Thread /\ r.w = th[t].w /\ r.events = th[t].events /\ r.pending = th[t].pending
      /\ r.todo = th[t].todo /\ r.seen = th[t].seen
      /\ skip => r.i = th[t].i + 1 /\ r.pc = th[t].pc
      /\ ~skip => r.i = th[t].i /\ r.pc = pc
  BY <1>1, <1>2 DEF Thread
<1>4. th' = [th EXCEPT ![t] = r]
  BY DEF dbell_find_mapping
<1> HIDE DEF r
<1>5. /\ th'[t] = r /\ UNCHANGED <<rows, prot, armed, stale, dropped>>
      /\ \A u \in Threads : u # t => th'[u] = th[u]
  BY <1>3, <1>4, ThreadUpdate DEF Inv, dbell_find_mapping
<1>6. \A v : SeenTo(v) => SeenTo(v)'
  BY <1>5 DEF SeenTo, Busy, Armers
<1>7. HookOK(t)'
  BY <1>1, <1>3, <1>5, <1>6 DEF HookOK, Armers
<1>8. FaultOK(t)'
  <2>1. th[t].pc \in FaultPCs
    BY DEF FaultPCs, QuietPCs
  <2> QED
    BY <1>1, <1>3, <1>5, <2>1 DEF FaultOK, Busy
<1>9. LookupOK(t)'
  <2>1. CASE skip
    <3>1. Ahead(t) => \E j \in Rows : th[t].i + 1 <= j /\ rows[j] = th[t].w
      BY <1>1, <2>1, TableAssumption DEF Ahead, Rows
    <3>2. Ahead(t) => Ahead(t)'
      BY <1>3, <1>5, <2>1, <3>1 DEF Ahead
    <3> QED
      BY <1>1, <1>3, <1>5, <2>1, <3>2 DEF LookupOK
  <2>2. CASE ~skip
    <3>1. Ahead(t) => th[t].i \in Rows /\ rows[th[t].i] = th[t].w
      BY <1>1, <2>2, TableAssumption DEF Ahead, Rows
    <3> QED
      BY <1>1, <1>3, <1>5, <2>2, <3>1 DEF LookupOK
  <2> QED
    BY <2>1, <2>2
<1>10. TraceOK(t)'
  BY <1>1, <1>3, <1>5 DEF TraceOK, LookupPCs
<1> HIDE DEF skip
<1> QED
  BY <1>3, <1>4, <1>5, <1>7, <1>8, <1>9, <1>10, ThreadStep DEF Armers, QuietPCs

LEMMA LookupInv ==
    ASSUME Inv, NEW t \in Threads, SegvLookup(t) \/ RearmLookup(t)
    PROVE  Inv'
  BY LookupStep DEF SegvLookup, RearmLookup

LEMMA SigTrapInv ==
    ASSUME Inv, NEW t \in Threads, sig_trap(t)
    PROVE  Inv'
<1> DEFINE r == [th[t] EXCEPT !.pc = "rearm", !.w = th[t].pending, !.pending = NULL,
                              !.events = Append(@, th[t].pending)]
<1>1. HookOK(t) /\ FaultOK(t) /\ LookupOK(t) /\ TraceOK(t) /\ th[t].pc = "trap" /\ th[t] \in Thread
  BY DEF Inv, TypeOK, ThreadInv, sig_trap
<1>2. /\ th[t].w \in Windows /\ th[t].w \in armed /\ ~Busy({"unmap"}, th[t].w)
      /\ Entered(th[t].w) /\ th[t].i = 1 /\ th[t].pending = th[t].w /\ th[t].events = <<>>
  BY <1>1 DEF FaultOK, LookupOK, TraceOK, FaultPCs, QuietPCs, LookupPCs
<1>3. Append(<<>>, th[t].w) = <<th[t].w>>
  BY <1>2
<1>4. /\ r \in Thread /\ r.pc = "rearm" /\ r.w = th[t].w /\ r.events = <<th[t].w>>
      /\ r.i = 1 /\ r.todo = th[t].todo /\ r.seen = th[t].seen
  BY <1>1, <1>2, <1>3 DEF Thread, PCs
<1>5. th' = [th EXCEPT ![t] = r]
  BY <1>2, TableAssumption DEF sig_trap
<1> HIDE DEF r
<1>6. /\ th'[t] = r /\ UNCHANGED <<rows, prot, armed, stale, dropped>>
      /\ \A u \in Threads : u # t => th'[u] = th[u]
  BY <1>4, <1>5, ThreadUpdate DEF Inv, sig_trap
<1>7. \A v : SeenTo(v) => SeenTo(v)'
  BY <1>1, <1>6 DEF SeenTo, Busy, Armers
<1>8. HookOK(t)'
  BY <1>1, <1>4, <1>6, <1>7 DEF HookOK, Armers
<1>9. FaultOK(t)'
  BY <1>2, <1>4, <1>6 DEF FaultOK, Busy
<1>10. LookupOK(t)'
  <2>1. \E j \in Rows : 1 <= j /\ rows[j] = th[t].w
    BY <1>2, TableAssumption DEF Entered, Rows
  <2>2. Ahead(t)'
    BY <1>4, <1>6, <2>1 DEF Ahead
  <2> QED
    BY <1>4, <1>6, <2>2 DEF LookupOK
<1>11. TraceOK(t)'
  BY <1>4, <1>6 DEF TraceOK, LookupPCs
<1> QED
  BY <1>1, <1>4, <1>5, <1>6, <1>8, <1>9, <1>10, <1>11, ThreadStep DEF Armers, QuietPCs

\* A fault whose lookup has failed: the table was full when the window came.
LEMMA CrashInv ==
    ASSUME Inv, NEW t \in Threads, sig_segv(t), th[t].i \notin Rows
    PROVE  Inv'
<1>1. HookOK(t) /\ FaultOK(t) /\ LookupOK(t) /\ TraceOK(t) /\ th[t].pc = "open"
  BY DEF Inv, ThreadInv, sig_segv
<1>2. th[t].w \in Windows /\ th[t].w \in dropped
  BY <1>1 DEF FaultOK, LookupOK, FaultPCs
<1>3. PICK r \in Thread : /\ th' = [th EXCEPT ![t] = r] /\ r.pc = "crash" /\ r.w = th[t].w
                          /\ r.i = th[t].i /\ r.events = th[t].events
                          /\ r.todo = th[t].todo /\ r.seen = th[t].seen
  BY <1>2, AtFields DEF Inv, sig_segv, PCs
<1>4. /\ th'[t] = r /\ UNCHANGED <<rows, prot, armed, stale, dropped>>
      /\ \A u \in Threads : u # t => th'[u] = th[u]
  BY <1>3, ThreadUpdate DEF Inv, sig_segv
<1>5. \A v : SeenTo(v) => SeenTo(v)'
  BY <1>1, <1>4 DEF SeenTo, Busy, Armers
<1>6. HookOK(t)'
  BY <1>1, <1>3, <1>4, <1>5 DEF HookOK, Armers
<1>7. FaultOK(t)' /\ LookupOK(t)'
  BY <1>2, <1>3, <1>4 DEF FaultOK, LookupOK, FaultPCs, QuietPCs
<1>8. TraceOK(t)'
  BY <1>1, <1>3, <1>4 DEF TraceOK, LookupPCs
<1> QED
  BY <1>1, <1>3, <1>4, <1>6, <1>7, <1>8, ThreadStep DEF Armers, QuietPCs

-----------------------------------------------------------------------------
(* Steps that change the table, or a window's protection.                      *)

\* AddRow moves no row, and enters the window unless the table is full.
LEMMA RowAdded ==
    ASSUME TypeOK, NEW w \in Windows, AddRow(w)
    PROVE  /\ rows' \in [Rows -> Windows \cup {NULL}]
           /\ dropped' \subseteq Windows /\ dropped \subseteq dropped'
           /\ \A v \in Windows, j \in Rows : rows[j] = v => rows'[j] = v
           /\ Entered(w)' \/ w \in dropped'
           /\ \A v \in Windows : v # w => (Entered(v)' <=> Entered(v))
<1>1. rows \in [Rows -> Windows \cup {NULL}] /\ dropped \subseteq Windows
  BY DEF TypeOK
<1>2. CASE \E j \in Rows : FirstRow(j, NULL) /\ rows' = [rows EXCEPT ![j] = w]
  <2>1. PICK j \in Rows : rows[j] = NULL /\ rows' = [rows EXCEPT ![j] = w]
    BY <1>2 DEF FirstRow
  <2>2. rows'[j] = w /\ \A l \in Rows : l # j => rows'[l] = rows[l]
    BY <1>1, <2>1
  <2>3. dropped \subseteq dropped' /\ dropped' \subseteq Windows
    BY <1>1 DEF AddRow
  <2>4. \A v \in Windows, l \in Rows : rows[l] = v => rows'[l] = v
    BY <2>1, <2>2, TableAssumption
  <2>5. Entered(w)'
    BY <2>2 DEF Entered
  <2>6. \A v \in Windows : v # w => (Entered(v)' <=> Entered(v))
    BY <2>1, <2>2, TableAssumption DEF Entered
  <2> QED
    BY <1>1, <2>1, <2>3, <2>4, <2>5, <2>6
<1>3. CASE dropped' = dropped \cup {w} /\ UNCHANGED rows
  BY <1>1, <1>3 DEF Entered
<1> QED
  BY <1>2, <1>3 DEF AddRow

\* A window is entered by a thread that is about to arm it.
LEMMA EnterStep ==
    ASSUME Inv, NEW t \in Threads, NEW w \in Windows, NEW r \in Thread,
           th[t].pc \in {"record", "scan"}, r.pc \in Armers, r.w = w, r.i = th[t].i,
           r.events = th[t].events, r.seen = th[t].seen, th[t].todo \subseteq r.todo \cup {w},
           AddRow(w), th' = [th EXCEPT ![t] = r], UNCHANGED <<prot, armed, stale>>
    PROVE  Inv'
<1>1. /\ th' \in [Threads -> Thread] /\ th'[t] = r
      /\ \A u \in Threads : u # t => th'[u] = th[u]
  BY ThreadUpdate DEF Inv
<1>2. /\ rows' \in [Rows -> Windows \cup {NULL}]
      /\ dropped' \subseteq Windows /\ dropped \subseteq dropped'
      /\ \A v \in Windows, j \in Rows : rows[j] = v => rows'[j] = v
      /\ Entered(w)' \/ w \in dropped'
      /\ \A v \in Windows : v # w => (Entered(v)' <=> Entered(v))
  BY RowAdded DEF Inv
<1>3. TypeOK'
  BY <1>1, <1>2 DEF Inv, TypeOK
<1>4. \A v : Busy({"unmap"}, v)' <=> Busy({"unmap"}, v)
  BY <1>1 DEF Busy, Armers
<1>5. Busy(Armers, w)' /\ \A v : Busy(Armers, v) => Busy(Armers, v)'
  BY <1>1 DEF Busy, Armers
<1>6. SeenTo(w)' /\ \A v : SeenTo(v) => SeenTo(v)'
  BY <1>5 DEF SeenTo
<1>7. \A v \in Windows : Entered(v) => Entered(v)'
  BY <1>2 DEF Entered
<1>8. TableInv'
  BY <1>2, <1>4, <1>6, <1>7 DEF Inv, TableInv
<1>9. ASSUME NEW u \in Threads
      PROVE  HookOK(u)' /\ FaultOK(u)' /\ LookupOK(u)' /\ TraceOK(u)'
  <2>1. HookOK(u) /\ FaultOK(u) /\ LookupOK(u) /\ TraceOK(u)
    BY DEF Inv, ThreadInv
  <2>2. CASE u = t
    <3>1. HookOK(t)'
      BY <1>1, <1>2, <1>6, <2>1, <2>2 DEF HookOK, Armers
    <3>2. FaultOK(t)' /\ LookupOK(t)' /\ TraceOK(t)'
      BY <1>1, <2>1, <2>2 DEF FaultOK, LookupOK, TraceOK, Armers, FaultPCs, QuietPCs, LookupPCs
    <3> QED
      BY <2>2, <3>1, <3>2
  <2>3. CASE u # t
    <3>1. th'[u] = th[u]
      BY <1>1, <2>3
    <3>2. HookOK(u)'
      <4>1. th[u].pc \in Armers => th[u].w \in Windows /\ (Entered(th[u].w) \/ th[u].w \in dropped)
        BY <2>1 DEF HookOK
      <4>2. th[u].pc \in Armers => (\E j \in Rows : rows'[j] = th'[u].w) \/ th'[u].w \in dropped'
        BY <1>2, <3>1, <4>1 DEF Entered
      <4>3. \A v \in th[u].seen : prot[v] # "none" /\ (v \in th[u].todo \/ SeenTo(v)')
        BY <1>6, <2>1 DEF HookOK
      <4>4. th[u].pc \in {"record", "unmap"} \cup Armers => th[u].w \in Windows
        BY <2>1 DEF HookOK
      <4> QED
        BY <3>1, <4>2, <4>3, <4>4 DEF HookOK, Entered
    <3>3. FaultOK(u)'
      BY <1>4, <2>1, <3>1 DEF FaultOK
    <3>4. LookupOK(u)'
      BY <1>2, <2>1, <3>1, LookupKept DEF FaultOK
    <3>5. TraceOK(u)'
      BY <2>1, <3>1 DEF TraceOK
    <3> QED
      BY <3>2, <3>3, <3>4, <3>5
  <2> QED
    BY <2>2, <2>3
<1>10. ThreadInv'
  BY <1>9 DEF ThreadInv
<1>11. QuietArmed'
  BY <1>1 DEF Inv, QuietArmed, Busy, Armers
<1> QED
  BY <1>3, <1>8, <1>10, <1>11 DEF Inv

LEMMA RecordInv ==
    ASSUME Inv, NEW t \in Threads, Record(t)
    PROVE  Inv'
<1>1. th[t].w \in Windows
  BY DEF Inv, ThreadInv, HookOK, Record
<1>2. PICK r \in Thread : /\ th' = [th EXCEPT ![t] = r] /\ r.pc = "arm" /\ r.w = th[t].w
                          /\ r.i = th[t].i /\ r.events = th[t].events
                          /\ r.todo = th[t].todo /\ r.seen = th[t].seen
  BY <1>1, AtFields DEF Record, PCs, Inv
<1> QED
  BY <1>1, <1>2, EnterStep DEF Record, Armers

LEMMA ScanNewInv ==
    ASSUME Inv, NEW t \in Threads, NEW w \in Windows, ScanNew(t, w)
    PROVE  Inv'
<1> DEFINE r == [th[t] EXCEPT !.pc = "scanarm", !.w = w, !.todo = @ \ {w}]
<1>1. th[t] \in Thread
  BY DEF Inv, TypeOK
<1>2. /\ r \in Thread /\ r.pc = "scanarm" /\ r.w = w /\ r.i = th[t].i
      /\ r.events = th[t].events /\ r.seen = th[t].seen /\ th[t].todo \subseteq r.todo \cup {w}
  BY <1>1 DEF Thread, PCs
<1>3. th' = [th EXCEPT ![t] = r]
  BY DEF ScanNew
<1> HIDE DEF r
<1> QED
  BY <1>2, <1>3, EnterStep DEF ScanNew, Armers

\* A window is mapped.
LEMMA MapStep ==
    ASSUME Inv, NEW t \in Threads, NEW w \in Windows, NEW r \in Thread, Map(w),
           th[t].pc = "user", r.pc \in {"user", "record"}, r.pc = "record" => r.w = w,
           r.i = th[t].i, r.events = th[t].events, r.todo = th[t].todo, r.seen = th[t].seen,
           th' = [th EXCEPT ![t] = r]
    PROVE  Inv'
<1>1. /\ th' \in [Threads -> Thread] /\ th'[t] = r
      /\ \A u \in Threads : u # t => th'[u] = th[u]
  BY ThreadUpdate DEF Inv
<1>2. /\ prot' \in [Windows -> {"none", "rw", "r"}] /\ prot'[w] = "rw"
      /\ \A v \in Windows : v # w => prot'[v] = prot[v]
      /\ prot[w] = "none" /\ UNCHANGED <<rows, armed, dropped>>
  BY DEF Inv, TypeOK, Map
<1>3. stale \subseteq stale' /\ stale' \subseteq Windows /\ (Entered(w) => w \in stale')
  BY DEF Inv, TypeOK, Map
<1>4. TypeOK'
  BY <1>1, <1>2, <1>3 DEF Inv, TypeOK
<1>5. \A v : Entered(v)' <=> Entered(v)
  BY <1>2 DEF Entered
<1>6. \A v : Busy({"unmap"}, v)' <=> Busy({"unmap"}, v)
  BY <1>1 DEF Busy
<1>7. \A v : SeenTo(v) => SeenTo(v)'
  BY <1>1, <1>2, <1>3 DEF SeenTo, Busy, Armers
<1>8. Entered(w) => SeenTo(w)'
  BY <1>3 DEF SeenTo
<1>9. TableInv'
  BY <1>2, <1>5, <1>6, <1>7, <1>8 DEF Inv, TableInv
<1>10. ASSUME NEW u \in Threads
       PROVE  HookOK(u)' /\ FaultOK(u)' /\ LookupOK(u)' /\ TraceOK(u)'
  <2>1. HookOK(u) /\ FaultOK(u) /\ LookupOK(u) /\ TraceOK(u) /\ th[u].seen \subseteq Windows
    BY DEF Inv, ThreadInv, TypeOK, Thread
  <2>2. \A v \in th[u].seen : prot'[v] # "none" /\ (v \in th[u].todo \/ SeenTo(v)')
    BY <1>2, <1>7, <2>1 DEF HookOK
  <2>3. CASE u = t
    <3>1. HookOK(t)'
      BY <1>1, <2>2, <2>3 DEF HookOK, Armers
    <3>2. FaultOK(t)' /\ LookupOK(t)' /\ TraceOK(t)'
      BY <1>1, <2>1, <2>3 DEF FaultOK, LookupOK, TraceOK, FaultPCs, QuietPCs, LookupPCs
    <3> QED
      BY <2>3, <3>1, <3>2
  <2>4. CASE u # t
    <3>1. th'[u] = th[u]
      BY <1>1, <2>4
    <3>2. HookOK(u)'
      BY <1>2, <1>5, <2>1, <2>2, <3>1 DEF HookOK
    <3>3. FaultOK(u)'
      BY <1>2, <1>6, <2>1, <3>1 DEF FaultOK
    <3>4. LookupOK(u)'
      BY <1>2, <2>1, <3>1, LookupKept
    <3>5. TraceOK(u)'
      BY <2>1, <3>1 DEF TraceOK
    <3> QED
      BY <3>2, <3>3, <3>4, <3>5
  <2> QED
    BY <2>3, <2>4
<1>11. ThreadInv'
  BY <1>10 DEF ThreadInv
<1>12. QuietArmed'
  <2>1. \A v \in armed : v # w /\ v \in Windows
    BY <1>2 DEF Inv, TableInv, TypeOK
  <2>2. \A v : Busy(QuietPCs, v) => Busy(QuietPCs, v)'
    BY <1>1 DEF Busy, QuietPCs
  <2> QED
    BY <1>2, <2>1, <2>2 DEF Inv, QuietArmed, QuietPCs
<1> QED
  BY <1>4, <1>9, <1>11, <1>12 DEF Inv

LEMMA MmapInv ==
    ASSUME Inv, NEW t \in Threads, NEW w \in Windows, MmapHook(t, w) \/ MmapDirect(t, w)
    PROVE  Inv'
<1>1. CASE MmapHook(t, w)
  <2>1. PICK r \in Thread : /\ th' = [th EXCEPT ![t] = r] /\ r.pc = "record" /\ r.w = w
                            /\ r.i = th[t].i /\ r.events = th[t].events
                            /\ r.todo = th[t].todo /\ r.seen = th[t].seen
    BY <1>1, AtFields DEF MmapHook, PCs, Inv
  <2> QED
    BY <1>1, <2>1, MapStep DEF MmapHook
<1>2. CASE MmapDirect(t, w)
  <2>1. th[t] \in Thread /\ th' = [th EXCEPT ![t] = th[t]]
    BY <1>2 DEF Inv, TypeOK, MmapDirect
  <2> QED
    BY <1>2, <2>1, MapStep DEF MmapDirect
<1> QED
  BY <1>1, <1>2

\* A thread arms the window it has entered, if it is still mapped.
LEMMA ArmStep ==
    ASSUME Inv, NEW t \in Threads, NEW r \in Thread,
           th[t].pc \in Armers, r.pc \in {"user", "scan"}, r.i = th[t].i,
           r.events = th[t].events, r.todo = th[t].todo, r.seen = th[t].seen,
           dbell_arm_mapping(th[t].w), th' = [th EXCEPT ![t] = r],
           UNCHANGED <<rows, stale, dropped>>
    PROVE  Inv'
<1> DEFINE w == th[t].w
<1>1. /\ th' \in [Threads -> Thread] /\ th'[t] = r
      /\ \A u \in Threads : u # t => th'[u] = th[u]
  BY ThreadUpdate DEF Inv
<1>2. w \in Windows /\ (Entered(w) \/ w \in dropped)
  BY DEF Inv, ThreadInv, HookOK
<1>3. /\ prot' \in [Windows -> {"none", "rw", "r"}] /\ armed' \subseteq Windows
      /\ prot[w] # "none" => prot'[w] = "r" /\ w \in armed'
      /\ prot[w] = "none" => prot'[w] = "none"
      /\ \A v \in Windows : v # w => prot'[v] = prot[v] /\ (v \in armed' <=> v \in armed)
      /\ armed \subseteq armed' /\ (prot[w] = "none" => armed' = armed)
  BY <1>2 DEF Inv, TypeOK, dbell_arm_mapping
<1> HIDE DEF w
<1>4. TypeOK'
  BY <1>1, <1>3 DEF Inv, TypeOK
<1>5. \A v : Entered(v)' <=> Entered(v)
  BY DEF Entered
<1>6. \A v : Busy({"unmap"}, v)' <=> Busy({"unmap"}, v)
  BY <1>1 DEF Busy, Armers
<1>7. \A v : v # w /\ Busy(Armers, v) => Busy(Armers, v)'
  BY <1>1 DEF Busy, Armers, w
<1>8. \A v \in Windows : prot[v] # "none" /\ SeenTo(v) => SeenTo(v)'
  BY <1>3, <1>7 DEF SeenTo
<1>9. TableInv'
  BY <1>2, <1>3, <1>5, <1>6, <1>8 DEF Inv, TableInv
<1>10. ASSUME NEW u \in Threads
       PROVE  HookOK(u)' /\ FaultOK(u)' /\ LookupOK(u)' /\ TraceOK(u)'
  <2>1. HookOK(u) /\ FaultOK(u) /\ LookupOK(u) /\ TraceOK(u) /\ th[u].seen \subseteq Windows
    BY DEF Inv, ThreadInv, TypeOK, Thread
  <2>2. \A v \in th[u].seen : prot'[v] # "none" /\ (v \in th[u].todo \/ SeenTo(v)')
    BY <1>3, <1>8, <2>1 DEF HookOK
  <2>3. CASE u = t
    <3>1. HookOK(t)'
      BY <1>1, <2>2, <2>3 DEF HookOK, Armers
    <3>2. FaultOK(t)' /\ LookupOK(t)' /\ TraceOK(t)'
      BY <1>1, <2>1, <2>3 DEF FaultOK, LookupOK, TraceOK, Armers, FaultPCs, QuietPCs, LookupPCs
    <3> QED
      BY <2>3, <3>1, <3>2
  <2>4. CASE u # t
    <3>1. th'[u] = th[u]
      BY <1>1, <2>4
    <3>2. HookOK(u)'
      BY <1>5, <2>1, <2>2, <3>1 DEF HookOK
    <3>3. FaultOK(u)'
      BY <1>3, <1>6, <2>1, <3>1 DEF FaultOK
    <3>4. LookupOK(u)'
      BY <2>1, <3>1, LookupKept
    <3>5. TraceOK(u)'
      BY <2>1, <3>1 DEF TraceOK
    <3> QED
      BY <3>2, <3>3, <3>4, <3>5
  <2> QED
    BY <2>3, <2>4
<1>11. ThreadInv'
  BY <1>10 DEF ThreadInv
<1>12. QuietArmed'
  <2>1. \A v : Busy(QuietPCs, v) => Busy(QuietPCs, v)'
    BY <1>1 DEF Busy, QuietPCs, Armers
  <2>2. \A v \in armed' : v = w => prot'[v] = "r"
    BY <1>2, <1>3 DEF Inv, TableInv
  <2>3. \A v \in armed' : v # w => v \in armed /\ prot'[v] = prot[v]
    BY <1>3
  <2> QED
    BY <2>1, <2>2, <2>3 DEF Inv, QuietArmed, QuietPCs
<1> QED
  BY <1>4, <1>9, <1>11, <1>12 DEF Inv

LEMMA ArmInv ==
    ASSUME Inv, NEW t \in Threads, ArmRecorded(t) \/ ScanArm(t)
    PROVE  Inv'
<1>1. CASE ArmRecorded(t)
  <2>1. PICK r \in Thread : /\ th' = [th EXCEPT ![t] = r] /\ r.pc = "user" /\ r.i = th[t].i
                            /\ r.events = th[t].events /\ r.todo = th[t].todo /\ r.seen = th[t].seen
    BY <1>1, AtFields DEF ArmRecorded, PCs, Inv
  <2> QED
    BY <1>1, <2>1, ArmStep DEF ArmRecorded, Armers
<1>2. CASE ScanArm(t)
  <2>1. PICK r \in Thread : /\ th' = [th EXCEPT ![t] = r] /\ r.pc = "scan" /\ r.i = th[t].i
                            /\ r.events = th[t].events /\ r.todo = th[t].todo /\ r.seen = th[t].seen
    BY <1>2, AtFields DEF ScanArm, PCs, Inv
  <2> QED
    BY <1>2, <2>1, ArmStep DEF ScanArm, Armers
<1> QED
  BY <1>1, <1>2

\* Only rows of the window are emptied.
LEMMA RowForgotten ==
    ASSUME TypeOK, NEW w \in Windows, map_forget(w)
    PROVE  /\ rows' \in [Rows -> Windows \cup {NULL}]
           /\ \A v \in Windows, j \in Rows : v # w /\ rows[j] = v => rows'[j] = v
           /\ \A v \in Windows : Entered(v)' => Entered(v)
<1>1. rows \in [Rows -> Windows \cup {NULL}] /\ NULL \notin Windows
  BY TableAssumption DEF TypeOK
<1>2. CASE \E j \in Rows : FirstRow(j, w) /\ rows' = [rows EXCEPT ![j] = NULL]
  <2>1. PICK j \in Rows : rows[j] = w /\ rows' = [rows EXCEPT ![j] = NULL]
    BY <1>2 DEF FirstRow
  <2>2. rows'[j] = NULL /\ \A l \in Rows : l # j => rows'[l] = rows[l]
    BY <1>1, <2>1
  <2>3. \A v \in Windows : Entered(v)' => Entered(v)
    BY <1>1, <2>2 DEF Entered
  <2> QED
    BY <1>1, <2>1, <2>2, <2>3
<1>3. CASE UNCHANGED rows
  BY <1>1, <1>3 DEF Entered
<1> QED
  BY <1>2, <1>3 DEF map_forget

LEMMA MunmapHookInv ==
    ASSUME Inv, NEW t \in Threads, NEW w \in Windows, MunmapHook(t, w)
    PROVE  Inv'
<1>1. PICK r \in Thread : /\ th' = [th EXCEPT ![t] = r] /\ r.pc = "unmap" /\ r.w = w
                          /\ r.i = th[t].i /\ r.events = th[t].events
                          /\ r.todo = th[t].todo /\ r.seen = th[t].seen
  BY AtFields DEF MunmapHook, PCs, Inv
<1>2. /\ th' \in [Threads -> Thread] /\ th'[t] = r /\ th[t].pc = "user"
      /\ \A u \in Threads : u # t => th'[u] = th[u]
  BY <1>1, ThreadUpdate DEF Inv, MunmapHook
<1>3. UNCHANGED <<prot, armed, stale, dropped>>
  BY DEF MunmapHook
<1>4. /\ rows' \in [Rows -> Windows \cup {NULL}]
      /\ \A v \in Windows, j \in Rows : v # w /\ rows[j] = v => rows'[j] = v
      /\ \A v \in Windows : Entered(v)' => Entered(v)
  BY RowForgotten DEF MunmapHook, Inv
<1>5. \A u \in Threads : th[u].pc \in FaultPCs \cup Armers => th[u].w # w
  BY DEF MunmapHook, Idle, Busy, FaultPCs, QuietPCs, Armers, PCs
<1>6. TypeOK'
  BY <1>2, <1>3, <1>4 DEF Inv, TypeOK
<1>7. /\ Busy({"unmap"}, w)'
      /\ \A v : Busy({"unmap"}, v) => Busy({"unmap"}, v)'
      /\ \A v : v # w => (Busy({"unmap"}, v)' => Busy({"unmap"}, v))
  BY <1>1, <1>2 DEF Busy
<1>8. \A v : SeenTo(v) => SeenTo(v)'
  BY <1>2, <1>3 DEF SeenTo, Busy, Armers
<1>9. \A v \in Windows : v # w => (Entered(v) => Entered(v)')
  BY <1>4 DEF Entered
<1>10. TableInv'
  BY <1>3, <1>4, <1>7, <1>8, <1>9 DEF Inv, TableInv
<1>11. ASSUME NEW u \in Threads
       PROVE  HookOK(u)' /\ FaultOK(u)' /\ LookupOK(u)' /\ TraceOK(u)'
  <2>1. HookOK(u) /\ FaultOK(u) /\ LookupOK(u) /\ TraceOK(u)
    BY DEF Inv, ThreadInv
  <2>2. \A v \in th[u].seen : prot[v] # "none" /\ (v \in th[u].todo \/ SeenTo(v)')
    BY <1>8, <2>1 DEF HookOK
  <2>3. CASE u = t
    <3>1. HookOK(t)'
      BY <1>1, <1>2, <1>3, <2>2, <2>3 DEF HookOK, Armers
    <3>2. FaultOK(t)' /\ LookupOK(t)' /\ TraceOK(t)'
      BY <1>1, <1>2, <2>1, <2>3 DEF FaultOK, LookupOK, TraceOK, FaultPCs, QuietPCs, LookupPCs
    <3> QED
      BY <2>3, <3>1, <3>2
  <2>4. CASE u # t
    <3>1. th'[u] = th[u] /\ (th[u].pc \in FaultPCs \cup Armers => th[u].w # w)
      BY <1>2, <1>5, <2>4
    <3>2. HookOK(u)'
      <4>1. th[u].pc \in Armers => (\E j \in Rows : rows'[j] = th'[u].w) \/ th'[u].w \in dropped'
        <5>1. th[u].pc \in Armers => th[u].w \in Windows /\ (Entered(th[u].w) \/ th[u].w \in dropped)
          BY <2>1 DEF HookOK
        <5> QED
          BY <1>3, <1>4, <3>1, <5>1 DEF Entered
      <4>2. th[u].pc \in {"record", "unmap"} \cup Armers => th[u].w \in Windows
        BY <2>1 DEF HookOK
      <4> QED
        BY <1>3, <2>2, <3>1, <4>1, <4>2 DEF HookOK, Entered
    <3>3. FaultOK(u)'
      BY <1>3, <1>7, <2>1, <3>1 DEF FaultOK
    <3>4. LookupOK(u)'
      BY <1>3, <1>4, <2>1, <3>1, LookupKept DEF FaultOK
    <3>5. TraceOK(u)'
      BY <2>1, <3>1 DEF TraceOK
    <3> QED
      BY <3>2, <3>3, <3>4, <3>5
  <2> QED
    BY <2>3, <2>4
<1>12. ThreadInv'
  BY <1>11 DEF ThreadInv
<1>13. QuietArmed'
  <2>1. \A v : Busy(QuietPCs, v) => Busy(QuietPCs, v)'
    BY <1>2 DEF Busy, QuietPCs
  <2> QED
    BY <1>3, <2>1 DEF Inv, QuietArmed, QuietPCs
<1> QED
  BY <1>6, <1>10, <1>12, <1>13 DEF Inv

\* The pages of a window go away.
LEMMA UnmapStep ==
    ASSUME Inv, NEW t \in Threads, NEW w \in Windows, NEW f \in [Threads -> Thread],
           Unmap(f, w), UNCHANGED <<rows, dropped>>,
           \A u \in Threads : u # t => f[u] = th[u],
           \/ f[t] = th[t] /\ th[t].pc = "user"
           \/ f[t] = InUser /\ th[t].pc = "unmap" /\ th[t].w = w,
           \A u \in Threads : th[u].pc \in FaultPCs => th[u].w # w
    PROVE  Inv'
<1>1. \A u \in Threads :
         /\ th'[u] \in Thread /\ th'[u].pc = f[u].pc /\ th'[u].w = f[u].w /\ th'[u].i = f[u].i
         /\ th'[u].pending = f[u].pending /\ th'[u].events = f[u].events
         /\ th'[u].todo = f[u].todo /\ th'[u].seen = f[u].seen \ {w}
  <2>1. SUFFICES ASSUME NEW u \in Threads
                 PROVE  /\ th'[u] \in Thread /\ th'[u].pc = f[u].pc /\ th'[u].w = f[u].w
                        /\ th'[u].i = f[u].i /\ th'[u].pending = f[u].pending
                        /\ th'[u].events = f[u].events /\ th'[u].todo = f[u].todo
                        /\ th'[u].seen = f[u].seen \ {w}
    OBVIOUS
  <2>2. f[u] \in Thread /\ th'[u] = [f[u] EXCEPT !.seen = f[u].seen \ {w}]
    BY DEF Unmap
  <2> QED
    BY <2>2 DEF Thread
<1>2. th' \in [Threads -> Thread]
  <2>1. th' = [u \in Threads |-> th'[u]]
    BY DEF Unmap
  <2> QED
    BY <1>1, <2>1
<1>3. /\ prot' \in [Windows -> {"none", "rw", "r"}] /\ prot'[w] = "none"
      /\ \A v \in Windows : v # w => prot'[v] = prot[v]
      /\ armed' = armed \ {w} /\ stale' = stale \ {w}
  BY DEF Inv, TypeOK, Unmap
<1>4. TypeOK'
  BY <1>2, <1>3 DEF Inv, TypeOK
<1>5. \A v : Entered(v)' <=> Entered(v)
  BY DEF Entered
<1>6. \A u \in Threads : \/ th'[u].pc = th[u].pc /\ th'[u].w = th[u].w
                         \/ u = t /\ th'[u].pc = "user" /\ th[u].pc = "unmap" /\ th[u].w = w
  BY <1>1, UserState
<1>7. /\ \A v : Busy({"unmap"}, v)' => Busy({"unmap"}, v)
      /\ \A v : v # w => (Busy({"unmap"}, v) => Busy({"unmap"}, v)')
  BY <1>6 DEF Busy
<1>8. \A v : Busy(Armers, v) => Busy(Armers, v)'
  BY <1>6 DEF Busy, Armers
<1>9. \A v : v # w /\ SeenTo(v) => SeenTo(v)'
  BY <1>3, <1>8 DEF SeenTo
<1>10. TableInv'
  BY <1>3, <1>5, <1>7, <1>9 DEF Inv, TableInv
<1>11. ASSUME NEW u \in Threads
       PROVE  HookOK(u)' /\ FaultOK(u)' /\ LookupOK(u)' /\ TraceOK(u)'
  <2>1. HookOK(u) /\ FaultOK(u) /\ LookupOK(u) /\ TraceOK(u) /\ th[u].seen \subseteq Windows
    BY DEF Inv, ThreadInv, TypeOK, Thread
  <2>2. \A v \in th[u].seen \ {w} : prot'[v] # "none" /\ (v \in th[u].todo \/ SeenTo(v)')
    BY <1>3, <1>9, <2>1 DEF HookOK
  <2>3. CASE f[u] = InUser /\ th[u].pc = "unmap"
    <3>1. /\ th'[u].pc = "user" /\ th'[u].i = 1 /\ th'[u].events = <<>> /\ th'[u].seen = {}
      BY <1>1, <2>3, UserState
    <3> QED
      BY <3>1 DEF HookOK, FaultOK, LookupOK, TraceOK, FaultPCs, QuietPCs, LookupPCs, Armers
  <2>4. CASE f[u] = th[u]
    <3>1. /\ th'[u].pc = th[u].pc /\ th'[u].w = th[u].w /\ th'[u].i = th[u].i
          /\ th'[u].pending = th[u].pending /\ th'[u].events = th[u].events
          /\ th'[u].todo = th[u].todo /\ th'[u].seen = th[u].seen \ {w}
      BY <1>1, <2>4
    <3>2. HookOK(u)'
      <4>1. th[u].pc \in Armers => (\E j \in Rows : rows'[j] = th'[u].w) \/ th'[u].w \in dropped'
        BY <2>1, <3>1 DEF HookOK, Entered
      <4>2. th[u].pc \in {"record", "unmap"} \cup Armers => th[u].w \in Windows
        BY <2>1 DEF HookOK
      <4> QED
        BY <2>2, <3>1, <4>1, <4>2 DEF HookOK, Entered
    <3>3. FaultOK(u)'
      <4>1. SUFFICES ASSUME th[u].pc \in FaultPCs
                     PROVE  /\ th[u].w \in Windows /\ th[u].w \in armed'
                            /\ \A q \in Threads : th'[q].pc = "unmap" => th'[q].w # th[u].w
        BY <3>1 DEF FaultOK, Busy
      <4>2. th[u].w \in Windows /\ th[u].w \in armed /\ ~Busy({"unmap"}, th[u].w) /\ th[u].w # w
        BY <2>1, <4>1 DEF FaultOK
      <4> QED
        BY <1>3, <1>6, <4>2 DEF Busy
    <3>4. LookupOK(u)'
      BY <2>1, <3>1, LookupKept
    <3>5. TraceOK(u)'
      BY <2>1, <3>1 DEF TraceOK
    <3> QED
      BY <3>2, <3>3, <3>4, <3>5
  <2> QED
    BY <2>3, <2>4
<1>12. ThreadInv'
  BY <1>11 DEF ThreadInv
<1>13. QuietArmed'
  <2>1. \A v : Busy(QuietPCs, v) => Busy(QuietPCs, v)'
    BY <1>6 DEF Busy, QuietPCs
  <2>2. armed \subseteq Windows
    BY DEF Inv, TypeOK
  <2> QED
    BY <1>3, <2>1, <2>2 DEF Inv, QuietArmed, QuietPCs
<1> QED
  BY <1>4, <1>10, <1>12, <1>13 DEF Inv

LEMMA RealMunmapInv ==
    ASSUME Inv, NEW t \in Threads, RealMunmap(t)
    PROVE  Inv'
<1> DEFINE f == [th EXCEPT ![t] = InUser]
<1>1. f \in [Threads -> Thread] /\ f[t] = InUser /\ \A u \in Threads : u # t => f[u] = th[u]
  BY UserState DEF Inv, TypeOK
<1>2. th[t].pc = "unmap" /\ th[t].w \in Windows /\ Unmap(f, th[t].w) /\ UNCHANGED <<rows, dropped>>
  BY DEF Inv, ThreadInv, HookOK, RealMunmap
<1>3. \A u \in Threads : th[u].pc \in FaultPCs => th[u].w # th[t].w
  BY <1>2 DEF Inv, ThreadInv, FaultOK, Busy
<1> HIDE DEF f
<1> QED
  BY <1>1, <1>2, <1>3, UnmapStep

LEMMA MunmapDirectInv ==
    ASSUME Inv, NEW t \in Threads, NEW w \in Windows, MunmapDirect(t, w)
    PROVE  Inv'
<1>1. th \in [Threads -> Thread]
  BY DEF Inv, TypeOK
<1>2. \A u \in Threads : th[u].pc \in FaultPCs => th[u].w # w
  BY DEF MunmapDirect, Idle, Busy, FaultPCs, QuietPCs, PCs
<1> QED
  BY <1>1, <1>2, UnmapStep DEF MunmapDirect

\* A handler opens a window for its own store, or closes it after it.
LEMMA HandlerStep ==
    ASSUME Inv, NEW t \in Threads, NEW r \in Thread, NEW p \in {"rw", "r"},
           th[t].pc \in FaultPCs, Entered(th[t].w), prot' = [prot EXCEPT ![th[t].w] = p],
           p = "rw" => r.pc = "step" /\ r.w = th[t].w,
           th' = [th EXCEPT ![t] = r], UNCHANGED <<rows, armed, stale, dropped>>,
           r.pc \notin {"record", "unmap"} \cup Armers,
           \A v \in r.seen : v \in th[t].seen /\ (v \in th[t].todo => v \in r.todo),
           FaultOK(t)', LookupOK(t)', TraceOK(t)'
    PROVE  Inv'
<1> DEFINE w == th[t].w
<1>1. /\ th' \in [Threads -> Thread] /\ th'[t] = r
      /\ \A u \in Threads : u # t => th'[u] = th[u]
  BY ThreadUpdate DEF Inv
<1>2. w \in Windows /\ w \in armed /\ Entered(w) /\ prot[w] # "none"
  BY DEF Inv, ThreadInv, FaultOK, TableInv
<1>3. /\ prot' \in [Windows -> {"none", "rw", "r"}] /\ prot'[w] = p
      /\ \A v \in Windows : v # w => prot'[v] = prot[v]
  BY <1>2 DEF Inv, TypeOK
<1>4. TypeOK'
  BY <1>1, <1>3 DEF Inv, TypeOK
<1>5. \A v : Entered(v)' <=> Entered(v)
  BY DEF Entered
<1>6. \A v : Busy({"unmap"}, v)' <=> Busy({"unmap"}, v)
  BY <1>1 DEF Busy, FaultPCs, QuietPCs
<1>7. \A v : SeenTo(v) => SeenTo(v)'
  BY <1>1 DEF SeenTo, Busy, Armers, FaultPCs, QuietPCs
<1>8. TableInv'
  BY <1>2, <1>3, <1>5, <1>6, <1>7 DEF Inv, TableInv
<1>9. ASSUME NEW u \in Threads
      PROVE  HookOK(u)' /\ FaultOK(u)' /\ LookupOK(u)' /\ TraceOK(u)'
  <2>1. HookOK(u) /\ FaultOK(u) /\ LookupOK(u) /\ TraceOK(u) /\ th[u].seen \subseteq Windows
    BY DEF Inv, ThreadInv, TypeOK, Thread
  <2>2. \A v \in th[u].seen : prot'[v] # "none" /\ (v \in th[u].todo \/ SeenTo(v)')
    BY <1>3, <1>7, <2>1 DEF HookOK
  <2>3. CASE u = t
    <3>1. HookOK(t)'
      BY <1>1, <2>2, <2>3 DEF HookOK, Armers
    <3> QED
      BY <2>3, <3>1
  <2>4. CASE u # t
    <3>1. th'[u] = th[u]
      BY <1>1, <2>4
    <3>2. HookOK(u)'
      BY <1>5, <2>1, <2>2, <3>1 DEF HookOK
    <3>3. FaultOK(u)'
      BY <1>6, <2>1, <3>1 DEF FaultOK
    <3>4. LookupOK(u)'
      BY <2>1, <3>1, LookupKept
    <3>5. TraceOK(u)'
      BY <2>1, <3>1 DEF TraceOK
    <3> QED
      BY <3>2, <3>3, <3>4, <3>5
  <2> QED
    BY <2>3, <2>4
<1>10. ThreadInv'
  BY <1>9 DEF ThreadInv
<1>11. QuietArmed'
  <2>1. \A v : v # w /\ Busy(QuietPCs, v) => Busy(QuietPCs, v)'
    BY <1>1 DEF Busy
  <2>2. p = "rw" => Busy(QuietPCs, w)'
    BY <1>1 DEF Busy, QuietPCs
  <2>3. armed \subseteq Windows
    BY DEF Inv, TypeOK
  <2> QED
    BY <1>3, <2>1, <2>2, <2>3 DEF Inv, QuietArmed, QuietPCs
<1> QED
  BY <1>4, <1>8, <1>10, <1>11 DEF Inv

LEMMA SigSegvInv ==
    ASSUME Inv, NEW t \in Threads, sig_segv(t)
    PROVE  Inv'
<1>1. CASE th[t].i \notin Rows
  BY <1>1, CrashInv
<1>2. CASE th[t].i \in Rows
  <2> DEFINE r == [th[t] EXCEPT !.pc = "step", !.pending = th[t].w, !.i = 1]
  <2>1. FaultOK(t) /\ LookupOK(t) /\ TraceOK(t) /\ th[t].pc = "open" /\ th[t] \in Thread
    BY DEF Inv, TypeOK, ThreadInv, sig_segv
  <2>2. /\ th[t].w \in Windows /\ th[t].w \in armed /\ ~Busy({"unmap"}, th[t].w)
        /\ rows[th[t].i] = th[t].w /\ Entered(th[t].w) /\ th[t].events = <<>>
    BY <1>2, <2>1 DEF FaultOK, LookupOK, TraceOK, FaultPCs, Entered
  <2>3. 1 \in 1 .. TableSize + 1 /\ "step" \in PCs
    BY TableAssumption DEF PCs
  <2>4. /\ r \in Thread /\ r.pc = "step" /\ r.w = th[t].w /\ r.pending = th[t].w
        /\ r.i = 1 /\ r.events = <<>> /\ r.todo = th[t].todo /\ r.seen = th[t].seen
    BY <2>1, <2>2, <2>3 DEF Thread
  <2>5. prot[th[t].w] # "none"
    BY <2>2 DEF Inv, TableInv
  <2>6. th' = [th EXCEPT ![t] = r] /\ prot' = [prot EXCEPT ![th[t].w] = "rw"]
    BY <1>2, <2>2, <2>5 DEF sig_segv, Stepping, SetProt
  <2> HIDE DEF r
  <2>7. /\ th'[t] = r /\ UNCHANGED <<rows, armed, stale, dropped>>
        /\ \A u \in Threads : u # t => th'[u] = th[u]
    BY <2>4, <2>6, ThreadUpdate DEF Inv, sig_segv
  <2>8. FaultOK(t)'
    BY <2>2, <2>4, <2>7 DEF FaultOK, Busy
  <2>9. LookupOK(t)'
    BY <2>2, <2>4, <2>7 DEF LookupOK, Entered
  <2>10. TraceOK(t)'
    BY <2>4, <2>7 DEF TraceOK
  <2> QED
    BY <2>1, <2>2, <2>4, <2>6, <2>7, <2>8, <2>9, <2>10, HandlerStep DEF FaultPCs, Armers
<1> QED
  BY <1>1, <1>2

LEMMA RearmInv ==
    ASSUME Inv, NEW t \in Threads, Rearm(t)
    PROVE  Inv'
<1>1. FaultOK(t) /\ LookupOK(t) /\ th[t].pc = "close" /\ th[t].pc \in FaultPCs
  BY DEF Inv, ThreadInv, Rearm, FaultPCs, QuietPCs
<1>2. th[t].w \in Windows /\ th[t].i \in Rows /\ rows[th[t].i] = th[t].w /\ prot[th[t].w] # "none"
  BY <1>1 DEF FaultOK, LookupOK, Inv, TableInv
<1>3. th' = [th EXCEPT ![t] = InUser] /\ prot' = [prot EXCEPT ![th[t].w] = "r"]
  BY <1>2 DEF Rearm, SetProt
<1>4. th'[t] = InUser
  BY <1>3, UserState, ThreadUpdate DEF Inv
<1>5. Entered(th[t].w)
  BY <1>2 DEF Entered
<1> QED
  BY <1>1, <1>3, <1>4, <1>5, UserState, UserOK, HandlerStep DEF Rearm, Armers

-----------------------------------------------------------------------------
(* The theorems.                                                               *)

LEMMA NextInv == Inv /\ [Next]_vars => Inv'
<1> SUFFICES ASSUME Inv, [Next]_vars PROVE Inv'
  OBVIOUS
<1>1. CASE UNCHANGED vars
  <2>1. /\ rows' = rows /\ prot' = prot /\ armed' = armed /\ stale' = stale
        /\ dropped' = dropped /\ th' = th
    BY <1>1 DEF vars
  <2>2. TypeOK' /\ QuietArmed'
    BY <2>1 DEF Inv, TypeOK, QuietArmed, Busy
  <2>3. TableInv'
    BY <2>1 DEF Inv, TableInv, SeenTo, Entered, Busy
  <2>4. ASSUME NEW t \in Threads
        PROVE  HookOK(t)' /\ FaultOK(t)' /\ LookupOK(t)' /\ TraceOK(t)'
    <3>1. HookOK(t) /\ FaultOK(t) /\ LookupOK(t) /\ TraceOK(t)
      BY DEF Inv, ThreadInv
    <3>2. HookOK(t)' /\ FaultOK(t)'
      BY <2>1, <3>1 DEF HookOK, FaultOK, SeenTo, Entered, Busy
    <3>3. LookupOK(t)' /\ TraceOK(t)'
      BY <2>1, <3>1, LookupKept DEF TraceOK
    <3> QED
      BY <3>2, <3>3
  <2> QED
    BY <2>2, <2>3, <2>4 DEF Inv, ThreadInv
<1>2. CASE Next
  <2>1. PICK t \in Threads :
           \/ HookStep(t) \/ SignalStep(t) \/ ScanBegin(t)
           \/ \E w \in Windows :
                 \/ MmapHook(t, w) \/ MmapDirect(t, w)
                 \/ MunmapHook(t, w) \/ MunmapDirect(t, w) \/ Store(t, w)
    BY <1>2 DEF Next
  <2>2. CASE HookStep(t)
    <3>1. CASE dbell_scan_and_arm(t)
      BY <3>1, ScanKnownInv, ScanNewInv, ArmInv, ScanEndInv DEF dbell_scan_and_arm
    <3> QED
      BY <2>2, <3>1, RecordInv, ArmInv, RealMunmapInv DEF HookStep
  <2>3. CASE SignalStep(t)
    BY <2>3, LookupInv, SigSegvInv, ReplayInv, SigTrapInv, RearmInv DEF SignalStep
  <2>4. CASE ScanBegin(t)
    BY <2>4, ScanBeginInv
  <2>5. ASSUME NEW w \in Windows,
               \/ MmapHook(t, w) \/ MmapDirect(t, w)
               \/ MunmapHook(t, w) \/ MunmapDirect(t, w) \/ Store(t, w)
        PROVE  Inv'
    BY <2>5, MmapInv, MunmapHookInv, MunmapDirectInv, StoreStepInv
  <2> QED
    BY <2>1, <2>2, <2>3, <2>4, <2>5
<1> QED
  BY <1>1, <1>2

\* The table and the page protections stay in step with each other, with the hooks
\* and scans that are running and with every store in progress (map_record, the
\* munmap hook, dbell_scan_and_arm and the two signal handlers), whatever libcuda
\* maps and unmaps behind the hooks.
THEOREM Invariance == Spec => []Inv
<1>1. Inv /\ [Next]_vars => Inv'
  BY NextInv
<1> QED
  BY InitInv, <1>1, PTL DEF Spec

\* Every variable keeps the type of the C data it stands for.
THEOREM TypeCorrect == Spec => []TypeOK
<1>1. Inv => TypeOK
  BY DEF Inv
<1> QED
  BY Invariance, <1>1, PTL

\* For any number of mapping, scanning and ringing threads sig_segv takes a doorbell
\* fault for a fault of the program only when the table was full: the row-by-row,
\* lockless dbell_find_mapping meets the row of every other armed window.
THEOREM NoFalseCrashHolds == Spec => []NoFalseCrash
<1>1. Inv => NoFalseCrash
  BY DEF Inv, ThreadInv, LookupOK, NoFalseCrash
<1> QED
  BY Invariance, <1>1, PTL

\* Whatever the interleaving of the handlers of any number of threads, an armed
\* window is read-only again when the last of them has left it.
THEOREM QuietArmedHolds == Spec => []QuietArmed
<1>1. Inv => QuietArmed
  BY DEF Inv
<1> QED
  BY Invariance, <1>1, PTL

\* With any number of threads that scan, map and unmap at once, through the hooks or
\* behind them, dbell_scan_and_arm leaves no mapped window unarmed but one whose
\* row another thread has entered and is about to arm, or one that line 1221 skips
\* because a row was left from an earlier mapping of its address.
THEOREM ScanArmsHolds == Spec => []ScanArms
<1>1. Inv => ScanArms
  <2>1. SUFFICES ASSUME Inv, NEW t \in Threads, th[t].todo = {}, NEW w \in th[t].seen
                 PROVE  w \in armed \cup stale \/ Busy({"arm", "scanarm"}, w)
    BY DEF ScanArms
  <2>2. HookOK(t)
    BY <2>1 DEF Inv, ThreadInv
  <2> QED
    BY <2>1, <2>2 DEF HookOK, SeenTo, Armers
<1> QED
  BY Invariance, <1>1, PTL

\* A faulting store is traced once and as a store to its own window, for any number
\* of threads that close the window under it.
THEOREM OneEventPerFaultHolds == Spec => []OneEventPerFault
<1>1. Inv => OneEventPerFault
  BY DEF Inv, ThreadInv, TraceOK, OneEventPerFault
<1> QED
  BY Invariance, <1>1, PTL
=============================================================================

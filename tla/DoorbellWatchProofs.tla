------------------------- MODULE DoorbellWatchProofs -------------------------
(***************************************************************************)
(* What TLAPS proves of DoorbellWatch, for every number of windows,         *)
(* threads, slots and debug registers.                                      *)
(*                                                                         *)
(* The safety invariants of DoorbellWatch are not inductive.  The           *)
(* strengthening records, per window, what its stage in mmap or munmap      *)
(* implies (StageInv); that the kernel's breakpoints are in bp_events       *)
(* (BreakpointInv); that a running handler belongs to a breakpoint still in *)
(* bp_events, which is what keeps munmap from freeing the context           *)
(* (HandlerInv); and who is going to forward the value in the shadow page   *)
(* (TokenInv).                                                              *)
(***************************************************************************)
EXTENDS DoorbellWatch, TLAPS

\* What the stage of a context c says of its fields and of the values owed by
\* its window.
StageOK(c, o) ==
    /\ c.claimed <=> c.st \notin {"none", "claim", "direct"}
    /\ c.st \in {"iomap", "insert", "arm", "watched", "release"} => c.page
    /\ c.st \in {"insert", "arm", "watched", "release"} => c.iomap
    /\ c.st \notin {"arm", "watched", "release"} => c.bps = {}
    /\ c.st \notin {"watched", "release"} => o = {}

StageInv == \A v \in Vmas : StageOK(ctx[v], owed[v])

SlotInv ==
    /\ \A i \in Slots : slots[i] # NULL => ctx[slots[i]].claimed /\ ctx[slots[i]].slot = i
    /\ \A v \in Vmas : ctx[v].claimed => slots[ctx[v].slot] = v

BreakpointInv == \A t \in Threads : \A v \in hwbp[t] : t \in ctx[v].bps

HandlerInv ==
    \A t \in Threads : th[t].pc # "user" =>
        /\ th[t].vma \in Vmas
        /\ t \in ctx[th[t].vma].bps
        /\ ctx[th[t].vma].st \in {"watched", "release"}

\* t is in a handler that has yet to read the shadow page of v, or has read the
\* value that is there now.
WillForward(t, v) == InHandler(t, v) /\ (th[t].pc = "trap" \/ th[t].token = shadow[v])

TokenInv ==
    \A v \in Vmas :
        ctx[v].st = "watched" /\ ~absorbed[v] /\ shadow[v] \in owed[v]
            => \E t \in Threads : WillForward(t, v)

Inv == TypeOK /\ StageInv /\ SlotInv /\ BreakpointInv /\ HandlerInv /\ TokenInv

-----------------------------------------------------------------------------
(* The inductive invariant                                                    *)

LEMMA InitInv == Init => Inv
<1> SUFFICES ASSUME Init PROVE Inv
  OBVIOUS
<1>1. NoContext \in Context /\ StageOK(NoContext, {}) /\ ~NoContext.claimed
  BY BoundsAssumption DEF NoContext, Context, Stages, Slots, StageOK
<1>2. \A v \in Vmas : ctx[v] = NoContext /\ owed[v] = {}
  BY DEF Init
<1>3. \A t \in Threads : th[t].pc = "user" /\ hwbp[t] = {}
  BY DEF Init, RunningThread
<1>4. TypeOK
  BY <1>1, NamesAssumption DEF Init, TypeOK, RunningThread
<1>5. StageInv
  BY <1>1, <1>2 DEF StageInv
<1>6. SlotInv
  BY <1>1, <1>2 DEF SlotInv, Init
<1>7. BreakpointInv /\ HandlerInv
  BY <1>3 DEF BreakpointInv, HandlerInv
<1>8. TokenInv
  BY <1>2 DEF TokenInv
<1> QED
  BY <1>4, <1>5, <1>6, <1>7, <1>8 DEF Inv

\* A step that moves one context to another stage, keeping its slot and its
\* breakpoints, keeps the invariant: a window that is being watched or released
\* does not leave these stages, and one that becomes watched owes nothing.
LEMMA ContextStep ==
    ASSUME Inv, NEW v \in Vmas, NEW c \in Context,
           ctx' = [ctx EXCEPT ![v] = c],
           StageOK(c, owed[v]),
           c.claimed = ctx[v].claimed, c.claimed => c.slot = ctx[v].slot,
           c.bps = ctx[v].bps,
           ctx[v].st \in {"watched", "release"} => c.st = "release",
           shadow' \in [Vmas -> Tokens \cup {NoToken}],
           \A w \in Vmas : w # v => shadow'[w] = shadow[w],
           UNCHANGED <<slots, hwbp, born, th, owed, absorbed>>
    PROVE  Inv'
<1>1. /\ ctx' \in [Vmas -> Context]
      /\ ctx'[v] = c
      /\ \A w \in Vmas : w # v => ctx'[w] = ctx[w]
  BY DEF Inv, TypeOK
<1>2. TypeOK'
  BY <1>1 DEF Inv, TypeOK
<1>3. StageInv'
  BY <1>1 DEF Inv, StageInv
<1>4. SlotInv'
  BY <1>1, NamesAssumption DEF Inv, SlotInv, TypeOK
<1>5. BreakpointInv'
  BY <1>1 DEF Inv, BreakpointInv, TypeOK
<1>6. HandlerInv'
  BY <1>1 DEF Inv, HandlerInv
<1>7. TokenInv'
  <2> SUFFICES ASSUME NEW w \in Vmas, ctx'[w].st = "watched", ~absorbed[w], shadow'[w] \in owed[w]
               PROVE  \E t \in Threads : WillForward(t, w)'
    BY DEF TokenInv
  <2>1. w # v
    BY <1>1 DEF Inv, StageInv, StageOK
  <2>2. PICK t \in Threads : WillForward(t, w)
    BY <1>1, <2>1 DEF Inv, TokenInv
  <2>3. WillForward(t, w)'
    BY <2>1, <2>2 DEF WillForward, InHandler
  <2> QED
    BY <2>3
<1> QED
  BY <1>2, <1>3, <1>4, <1>5, <1>6, <1>7 DEF Inv

\* Moving a context to another stage changes nothing else of it.
LEMMA StageFields ==
    ASSUME TypeOK, NEW v \in Vmas, NEW st \in Stages, Stage(v, st)
    PROVE  \E c \in Context :
              /\ ctx' = [ctx EXCEPT ![v] = c]
              /\ c.st = st
              /\ c.slot = ctx[v].slot /\ c.claimed = ctx[v].claimed
              /\ c.page = ctx[v].page /\ c.iomap = ctx[v].iomap
              /\ c.bps = ctx[v].bps
<1> DEFINE c == [ctx[v] EXCEPT !.st = st]
<1>1. ctx[v] \in Context
  BY DEF TypeOK
<1>2. /\ c \in Context /\ c.st = st
      /\ c.slot = ctx[v].slot /\ c.claimed = ctx[v].claimed
      /\ c.page = ctx[v].page /\ c.iomap = ctx[v].iomap
      /\ c.bps = ctx[v].bps
  BY <1>1 DEF Context
<1>3. ctx' = [ctx EXCEPT ![v] = c]
  BY DEF Stage
<1> HIDE DEF c
<1> QED
  BY <1>2, <1>3

\* The stages of mmap and munmap that only move the context along.
LEMMA MmapInv ==
    ASSUME Inv, NEW v \in Vmas, Mmap(v)
    PROVE  Inv'
<1>1. PICK st \in {"direct", "claim"} : Stage(v, st)
  BY DEF Mmap
<1>2. PICK c \in Context :
         /\ ctx' = [ctx EXCEPT ![v] = c] /\ c.st = st
         /\ c.slot = ctx[v].slot /\ c.claimed = ctx[v].claimed
         /\ c.page = ctx[v].page /\ c.iomap = ctx[v].iomap /\ c.bps = ctx[v].bps
  BY <1>1, StageFields DEF Inv, Stages
<1>3. ctx[v].st = "none" /\ StageOK(ctx[v], owed[v])
  BY DEF Mmap, Inv, StageInv
<1>4. StageOK(c, owed[v])
  BY <1>1, <1>2, <1>3 DEF StageOK
<1> QED
  BY <1>2, <1>3, <1>4, ContextStep DEF Mmap, Inv, TypeOK

LEMMA MunmapInv ==
    ASSUME Inv, NEW v \in Vmas, Munmap(v)
    PROVE  Inv'
<1>1. PICK st \in {"release", "none"} :
         /\ Stage(v, st)
         /\ st = "release" <=> ctx[v].st = "watched"
  BY DEF Munmap
<1>2. PICK c \in Context :
         /\ ctx' = [ctx EXCEPT ![v] = c] /\ c.st = st
         /\ c.slot = ctx[v].slot /\ c.claimed = ctx[v].claimed
         /\ c.page = ctx[v].page /\ c.iomap = ctx[v].iomap /\ c.bps = ctx[v].bps
  BY <1>1, StageFields DEF Inv, Stages
<1>3. ctx[v].st \in {"watched", "direct"} /\ StageOK(ctx[v], owed[v])
  BY DEF Munmap, Inv, StageInv
<1>4. StageOK(c, owed[v])
  BY <1>1, <1>2, <1>3 DEF StageOK
<1> QED
  BY <1>1, <1>2, <1>3, <1>4, ContextStep DEF Munmap, Inv, TypeOK

\* Every failure of the interception goes to the fail label with its slot and
\* without a breakpoint.
LEMMA FailInv ==
    ASSUME Inv, NEW v \in Vmas, Stage(v, "fail"),
           ctx[v].st \in {"page", "iomap", "insert", "arm"}, ctx[v].bps = {},
           shadow' \in [Vmas -> Tokens \cup {NoToken}],
           \A w \in Vmas : w # v => shadow'[w] = shadow[w],
           UNCHANGED <<slots, hwbp, born, th, owed, absorbed>>
    PROVE  Inv'
<1>1. PICK c \in Context :
         /\ ctx' = [ctx EXCEPT ![v] = c] /\ c.st = "fail"
         /\ c.slot = ctx[v].slot /\ c.claimed = ctx[v].claimed
         /\ c.page = ctx[v].page /\ c.iomap = ctx[v].iomap /\ c.bps = ctx[v].bps
  BY StageFields DEF Inv, Stages
<1>2. StageOK(c, owed[v])
  BY <1>1 DEF Inv, StageInv, StageOK
<1> QED
  BY <1>1, <1>2, ContextStep

LEMMA AllocPageInv ==
    ASSUME Inv, NEW v \in Vmas, AllocPage(v)
    PROVE  Inv'
<1>1. /\ ctx[v] \in Context /\ ctx[v].st = "page" /\ StageOK(ctx[v], owed[v])
      /\ ctx[v].bps = {}
  BY DEF AllocPage, Inv, TypeOK, StageInv, StageOK
<1>2. /\ shadow' \in [Vmas -> Tokens \cup {NoToken}]
      /\ \A w \in Vmas : w # v => shadow'[w] = shadow[w]
  BY DEF AllocPage, Inv, TypeOK
<1>3. CASE Stage(v, "fail")
  BY <1>1, <1>2, <1>3, FailInv DEF AllocPage
<1>4. CASE ctx' = [ctx EXCEPT ![v].st = "iomap", ![v].page = TRUE]
  <2> DEFINE c == [ctx[v] EXCEPT !.st = "iomap", !.page = TRUE]
  <2>1. /\ c \in Context /\ c.st = "iomap" /\ c.page
        /\ c.slot = ctx[v].slot /\ c.claimed = ctx[v].claimed /\ c.bps = ctx[v].bps
    BY <1>1 DEF Context, Stages
  <2>2. ctx' = [ctx EXCEPT ![v] = c]
    BY <1>4 DEF Inv, TypeOK
  <2> HIDE DEF c
  <2>3. StageOK(c, owed[v])
    BY <1>1, <2>1 DEF StageOK
  <2> QED
    BY <1>1, <1>2, <2>1, <2>2, <2>3, ContextStep DEF AllocPage
<1> QED
  BY <1>3, <1>4 DEF AllocPage

LEMMA IoremapInv ==
    ASSUME Inv, NEW v \in Vmas, IoremapDoorbell(v)
    PROVE  Inv'
<1>1. /\ ctx[v] \in Context /\ ctx[v].st = "iomap" /\ StageOK(ctx[v], owed[v])
      /\ ctx[v].bps = {} /\ shadow' \in [Vmas -> Tokens \cup {NoToken}]
  BY DEF IoremapDoorbell, Inv, TypeOK, StageInv, StageOK
<1>2. CASE Stage(v, "fail")
  BY <1>1, <1>2, FailInv DEF IoremapDoorbell
<1>3. CASE ctx' = [ctx EXCEPT ![v].st = "insert", ![v].iomap = TRUE]
  <2> DEFINE c == [ctx[v] EXCEPT !.st = "insert", !.iomap = TRUE]
  <2>1. /\ c \in Context /\ c.st = "insert" /\ c.iomap /\ c.page = ctx[v].page
        /\ c.slot = ctx[v].slot /\ c.claimed = ctx[v].claimed /\ c.bps = ctx[v].bps
    BY <1>1 DEF Context, Stages
  <2>2. ctx' = [ctx EXCEPT ![v] = c]
    BY <1>3 DEF Inv, TypeOK
  <2> HIDE DEF c
  <2>3. StageOK(c, owed[v])
    BY <1>1, <2>1 DEF StageOK
  <2> QED
    BY <1>1, <2>1, <2>2, <2>3, ContextStep DEF IoremapDoorbell
<1> QED
  BY <1>2, <1>3 DEF IoremapDoorbell

LEMMA InsertPagesInv ==
    ASSUME Inv, NEW v \in Vmas, InsertPages(v)
    PROVE  Inv'
<1>1. /\ ctx[v].st = "insert" /\ StageOK(ctx[v], owed[v])
      /\ ctx[v].bps = {} /\ shadow' \in [Vmas -> Tokens \cup {NoToken}]
  BY DEF InsertPages, Inv, TypeOK, StageInv, StageOK
<1>2. CASE Stage(v, "fail")
  BY <1>1, <1>2, FailInv DEF InsertPages
<1>3. CASE Stage(v, "arm")
  <2>1. PICK c \in Context :
           /\ ctx' = [ctx EXCEPT ![v] = c] /\ c.st = "arm"
           /\ c.slot = ctx[v].slot /\ c.claimed = ctx[v].claimed
           /\ c.page = ctx[v].page /\ c.iomap = ctx[v].iomap /\ c.bps = ctx[v].bps
    BY <1>3, StageFields DEF Inv, Stages
  <2>2. StageOK(c, owed[v])
    BY <1>1, <2>1 DEF StageOK
  <2> QED
    BY <1>1, <2>1, <2>2, ContextStep DEF InsertPages
<1> QED
  BY <1>2, <1>3 DEF InsertPages

LEMMA ArmDoneInv ==
    ASSUME Inv, NEW v \in Vmas, ArmDone(v)
    PROVE  Inv'
<1>1. /\ ctx[v].st = "arm" /\ StageOK(ctx[v], owed[v])
      /\ shadow' \in [Vmas -> Tokens \cup {NoToken}]
  BY DEF ArmDone, Inv, TypeOK, StageInv
<1>2. CASE ctx[v].bps = {}
  BY <1>1, <1>2, FailInv DEF ArmDone
<1>3. CASE ctx[v].bps # {}
  <2>1. Stage(v, "watched")
    BY <1>3 DEF ArmDone
  <2>2. PICK c \in Context :
           /\ ctx' = [ctx EXCEPT ![v] = c] /\ c.st = "watched"
           /\ c.slot = ctx[v].slot /\ c.claimed = ctx[v].claimed
           /\ c.page = ctx[v].page /\ c.iomap = ctx[v].iomap /\ c.bps = ctx[v].bps
    BY <2>1, StageFields DEF Inv, Stages
  <2>3. StageOK(c, owed[v])
    BY <1>1, <2>2 DEF StageOK
  <2> QED
    BY <1>1, <2>2, <2>3, ContextStep DEF ArmDone
<1> QED
  BY <1>2, <1>3

-----------------------------------------------------------------------------
(* Slots and breakpoints                                                      *)

\* A step that touches neither a handler nor a value owed keeps the promise of
\* TokenInv, as long as no window becomes watched by it.
LEMMA TokenFrame ==
    ASSUME TokenInv, \A w \in Vmas : ctx'[w].st = "watched" => ctx[w].st = "watched",
           UNCHANGED <<th, owed, absorbed, shadow>>
    PROVE  TokenInv'
BY DEF TokenInv, WillForward, InHandler

LEMMA ClaimSlotInv ==
    ASSUME Inv, NEW v \in Vmas, ClaimSlot(v)
    PROVE  Inv'
<1> DEFINE i == ctx[v].slot
<1>1. /\ ctx[v] \in Context /\ ctx[v].st = "claim" /\ StageOK(ctx[v], owed[v])
      /\ ctx[v].bps = {} /\ ~ctx[v].claimed /\ i \in Slots
  BY DEF ClaimSlot, Inv, TypeOK, StageInv, StageOK, Context
<1>2. CASE slots[i] = NULL
  <2> DEFINE c == [ctx[v] EXCEPT !.st = "page", !.claimed = TRUE]
  <2>1. /\ c \in Context /\ c.st = "page" /\ c.claimed /\ c.page = ctx[v].page
        /\ c.iomap = ctx[v].iomap /\ c.slot = i /\ c.bps = {}
    BY <1>1 DEF Context, Stages
  <2>2. ctx' = [ctx EXCEPT ![v] = c]
    BY <1>2 DEF ClaimSlot, Inv, TypeOK
  <2> HIDE DEF c
  <2>3. /\ ctx' \in [Vmas -> Context] /\ ctx'[v] = c
        /\ \A w \in Vmas : w # v => ctx'[w] = ctx[w]
    BY <2>1, <2>2 DEF Inv, TypeOK
  <2>4. /\ slots' \in [Slots -> Vmas \cup {NULL}] /\ slots'[i] = v
        /\ \A j \in Slots : j # i => slots'[j] = slots[j]
    BY <1>1, <1>2 DEF ClaimSlot, Inv, TypeOK
  <2>5. TypeOK'
    BY <2>3, <2>4 DEF ClaimSlot, Inv, TypeOK
  <2>6. StageInv'
    BY <1>1, <2>1, <2>3 DEF ClaimSlot, Inv, StageInv, StageOK
  <2>7. SlotInv'
    <3>1. \A w \in Vmas : w # v /\ ctx[w].claimed => ctx[w].slot # i
      BY <1>2, NamesAssumption DEF Inv, SlotInv
    <3>2. \A w \in Vmas : ctx[w].slot \in Slots
      BY DEF Inv, TypeOK, Context
    <3>3. \A j \in Slots : slots[j] # v
      BY <1>1, NamesAssumption DEF Inv, SlotInv
    <3> QED
      BY <1>1, <2>1, <2>3, <2>4, <3>1, <3>2, <3>3 DEF Inv, SlotInv, TypeOK
  <2>8. BreakpointInv'
    BY <1>1, <2>3 DEF ClaimSlot, Inv, BreakpointInv, TypeOK
  <2>9. HandlerInv'
    BY <1>1, <2>3 DEF ClaimSlot, Inv, HandlerInv
  <2>10. TokenInv'
    BY <2>1, <2>3, TokenFrame DEF ClaimSlot, Inv
  <2> QED
    BY <2>5, <2>6, <2>7, <2>8, <2>9, <2>10 DEF Inv
<1>3. CASE slots[i] # NULL
  <2> DEFINE c == IF i < SlotCount THEN [ctx[v] EXCEPT !.slot = i + 1]
                                   ELSE [NoContext EXCEPT !.st = "direct"]
  <2>1. /\ c \in Context /\ ~c.claimed /\ c.bps = {}
        /\ c.st \in {"claim", "direct"}
    <3>1. CASE i < SlotCount
      <4>1. i + 1 \in Slots
        BY <1>1, <3>1, BoundsAssumption DEF Slots
      <4>2. c = [ctx[v] EXCEPT !.slot = i + 1]
        BY <3>1
      <4> QED
        BY <1>1, <4>1, <4>2 DEF Context
    <3>2. CASE ~(i < SlotCount)
      <4>1. NoContext \in Context /\ ~NoContext.claimed /\ NoContext.bps = {}
        BY BoundsAssumption DEF Context, Stages, NoContext, Slots
      <4>2. c = [NoContext EXCEPT !.st = "direct"]
        BY <3>2
      <4> QED
        BY <4>1, <4>2 DEF Context, Stages
    <3> QED
      BY <3>1, <3>2
  <2>2. ctx' = [ctx EXCEPT ![v] = c]
    BY <1>3 DEF ClaimSlot
  <2> HIDE DEF c
  <2>3. StageOK(c, owed[v])
    BY <1>1, <2>1 DEF StageOK
  <2>4. c.claimed = ctx[v].claimed
    BY <1>1, <2>1 DEF Context
  <2> QED
    BY <1>1, <1>3, <2>1, <2>2, <2>3, <2>4, ContextStep DEF ClaimSlot, Inv, TypeOK
<1> QED
  BY <1>2, <1>3

LEMMA ArmThreadInv ==
    ASSUME Inv, NEW v \in Vmas, NEW t \in Threads, ArmThread(v, t)
    PROVE  Inv'
<1>1. /\ ctx[v] \in Context /\ ctx[v].st = "arm" /\ StageOK(ctx[v], owed[v])
      /\ shadow' \in [Vmas -> Tokens \cup {NoToken}]
  BY DEF ArmThread, Inv, TypeOK, StageInv
<1>2. CASE /\ hwbp' = [hwbp EXCEPT ![t] = @ \cup {v}]
           /\ ctx' = [ctx EXCEPT ![v].bps = @ \cup {t}, ![v].seen = @ \cup {t}]
  <2> DEFINE c == [ctx[v] EXCEPT !.bps = @ \cup {t}, !.seen = @ \cup {t}]
  <2>1. /\ c \in Context /\ c.st = "arm" /\ c.claimed = ctx[v].claimed
        /\ c.page = ctx[v].page /\ c.iomap = ctx[v].iomap /\ c.slot = ctx[v].slot
        /\ c.bps = ctx[v].bps \cup {t}
    BY <1>1 DEF Context
  <2>2. ctx' = [ctx EXCEPT ![v] = c]
    BY <1>2 DEF Inv, TypeOK
  <2> HIDE DEF c
  <2>3. /\ ctx' \in [Vmas -> Context] /\ ctx'[v] = c
        /\ \A w \in Vmas : w # v => ctx'[w] = ctx[w]
    BY <2>1, <2>2 DEF Inv, TypeOK
  <2>4. /\ hwbp' \in [Threads -> SUBSET Vmas] /\ hwbp'[t] = hwbp[t] \cup {v}
        /\ \A u \in Threads : u # t => hwbp'[u] = hwbp[u]
    BY <1>2 DEF Inv, TypeOK
  <2>5. TypeOK'
    BY <2>3, <2>4 DEF ArmThread, Inv, TypeOK
  <2>6. StageInv'
    BY <1>1, <2>1, <2>3 DEF ArmThread, Inv, StageInv, StageOK
  <2>7. SlotInv'
    BY <2>1, <2>3, NamesAssumption DEF ArmThread, Inv, SlotInv, TypeOK
  <2>8. BreakpointInv'
    BY <2>1, <2>3, <2>4 DEF Inv, BreakpointInv, TypeOK
  <2>9. HandlerInv'
    BY <1>1, <2>3 DEF ArmThread, Inv, HandlerInv
  <2>10. TokenInv'
    BY <2>1, <2>3, TokenFrame DEF ArmThread, Inv
  <2> QED
    BY <2>5, <2>6, <2>7, <2>8, <2>9, <2>10 DEF Inv
<1>3. CASE ctx' = [ctx EXCEPT ![v].seen = @ \cup {t}] /\ hwbp' = hwbp
  <2> DEFINE c == [ctx[v] EXCEPT !.seen = @ \cup {t}]
  <2>1. /\ c \in Context /\ c.st = "arm" /\ c.claimed = ctx[v].claimed
        /\ c.page = ctx[v].page /\ c.iomap = ctx[v].iomap /\ c.slot = ctx[v].slot
        /\ c.bps = ctx[v].bps
    BY <1>1 DEF Context
  <2>2. ctx' = [ctx EXCEPT ![v] = c]
    BY <1>3 DEF Inv, TypeOK
  <2> HIDE DEF c
  <2>3. StageOK(c, owed[v])
    BY <1>1, <2>1 DEF StageOK
  <2> QED
    BY <1>1, <1>3, <2>1, <2>2, <2>3, ContextStep DEF ArmThread
<1> QED
  BY <1>2, <1>3 DEF ArmThread

\* Giving back the slot of a context that holds it and freeing the context keeps
\* every slot accounted for.
LEMMA FreeSlotInv ==
    ASSUME Inv, NEW v \in Vmas, ctx[v].claimed,
           ReleaseSlot(v), ctx' = [ctx EXCEPT ![v] = NoContext]
    PROVE  /\ slots' \in [Slots -> Vmas \cup {NULL}]
           /\ ctx' \in [Vmas -> Context]
           /\ ctx'[v] = NoContext /\ \A w \in Vmas : w # v => ctx'[w] = ctx[w]
           /\ SlotInv'
<1>1. NoContext \in Context /\ ~NoContext.claimed
  BY BoundsAssumption DEF NoContext, Context, Stages, Slots
<1>2. /\ ctx' \in [Vmas -> Context]
      /\ ctx'[v] = NoContext /\ \A w \in Vmas : w # v => ctx'[w] = ctx[w]
  BY <1>1 DEF Inv, TypeOK
<1>3. \A w \in Vmas : ctx[w].slot \in Slots
  BY DEF Inv, TypeOK, Context
<1>4. /\ slots' \in [Slots -> Vmas \cup {NULL}]
      /\ slots'[ctx[v].slot] = NULL
      /\ \A j \in Slots : j # ctx[v].slot => slots'[j] = slots[j]
  BY <1>3 DEF ReleaseSlot, Inv, TypeOK
<1>5. \A j \in Slots : slots[j] = v => j = ctx[v].slot
  BY NamesAssumption DEF Inv, SlotInv
<1>6. \A w \in Vmas : w # v /\ ctx[w].claimed => ctx[w].slot # ctx[v].slot
  BY DEF Inv, SlotInv
<1>7. SlotInv'
  BY <1>1, <1>2, <1>3, <1>4, <1>5, <1>6 DEF Inv, SlotInv, TypeOK
<1> QED
  BY <1>2, <1>4, <1>7

LEMMA InterceptFailInv ==
    ASSUME Inv, NEW v \in Vmas, InterceptFail(v)
    PROVE  Inv'
<1>1. ctx[v].st = "fail" /\ ctx[v].claimed /\ ctx[v].bps = {} /\ owed[v] = {}
  BY DEF InterceptFail, Inv, StageInv, StageOK
<1>2. /\ slots' \in [Slots -> Vmas \cup {NULL}]
      /\ ctx' \in [Vmas -> Context]
      /\ ctx'[v] = NoContext /\ \A w \in Vmas : w # v => ctx'[w] = ctx[w]
      /\ SlotInv'
  BY <1>1, FreeSlotInv DEF InterceptFail
<1>3. hwbp' \in [Threads -> SUBSET Vmas] /\ \A t \in Threads : hwbp'[t] = hwbp[t]
  BY <1>1 DEF InterceptFail, Inv, TypeOK
<1>4. TypeOK'
  BY <1>2, <1>3 DEF InterceptFail, Inv, TypeOK
<1>5. StageOK(NoContext, {}) /\ NoContext.st = "none"
  BY DEF StageOK, NoContext
<1>6. StageInv'
  BY <1>1, <1>2, <1>5 DEF InterceptFail, Inv, StageInv
<1>7. BreakpointInv'
  BY <1>1, <1>2, <1>3 DEF Inv, BreakpointInv, TypeOK
<1>8. HandlerInv'
  BY <1>1, <1>2 DEF InterceptFail, Inv, HandlerInv
<1>9. TokenInv'
  BY <1>2, <1>5, TokenFrame DEF InterceptFail, Inv
<1> QED
  BY <1>2, <1>4, <1>6, <1>7, <1>8, <1>9 DEF Inv

LEMMA FreeContextInv ==
    ASSUME Inv, NEW v \in Vmas, FreeContext(v)
    PROVE  Inv'
<1>1. ctx[v].st = "release" /\ ctx[v].claimed /\ ctx[v].bps = {}
  BY DEF FreeContext, Inv, StageInv, StageOK
<1>2. /\ slots' \in [Slots -> Vmas \cup {NULL}]
      /\ ctx' \in [Vmas -> Context]
      /\ ctx'[v] = NoContext /\ \A w \in Vmas : w # v => ctx'[w] = ctx[w]
      /\ SlotInv'
  BY <1>1, FreeSlotInv DEF FreeContext
<1>3. /\ shadow' \in [Vmas -> Tokens \cup {NoToken}]
      /\ owed' \in [Vmas -> SUBSET Tokens]
      /\ absorbed' \in [Vmas -> BOOLEAN]
      /\ owed'[v] = {}
      /\ \A w \in Vmas : w # v => /\ shadow'[w] = shadow[w]
                                 /\ owed'[w] = owed[w]
                                 /\ absorbed'[w] = absorbed[w]
  BY DEF FreeContext, Inv, TypeOK
<1>4. TypeOK'
  BY <1>2, <1>3 DEF FreeContext, Inv, TypeOK
<1>5. StageOK(NoContext, {}) /\ NoContext.st = "none"
  BY DEF StageOK, NoContext
<1>6. StageInv'
  BY <1>2, <1>3, <1>5 DEF Inv, StageInv
<1>7. BreakpointInv'
  BY <1>1, <1>2 DEF FreeContext, Inv, BreakpointInv, TypeOK
<1>8. HandlerInv'
  BY <1>1, <1>2 DEF FreeContext, Inv, HandlerInv
<1>9. TokenInv'
  <2> SUFFICES ASSUME NEW w \in Vmas, ctx'[w].st = "watched", ~absorbed'[w], shadow'[w] \in owed'[w]
               PROVE  \E t \in Threads : WillForward(t, w)'
    BY DEF TokenInv
  <2>1. w # v
    BY <1>3
  <2>2. PICK t \in Threads : WillForward(t, w)
    BY <1>2, <1>3, <2>1 DEF Inv, TokenInv
  <2> QED
    BY <1>3, <2>1, <2>2 DEF WillForward, InHandler, FreeContext
<1> QED
  BY <1>2, <1>4, <1>6, <1>7, <1>8, <1>9 DEF Inv

\* A breakpoint is taken away only from a thread that is not in the handler.
LEMMA UnregisterBpInv ==
    ASSUME Inv, NEW v \in Vmas, NEW t \in Threads, UnregisterBp(v, t)
    PROVE  Inv'
<1> DEFINE c == [ctx[v] EXCEPT !.bps = @ \ {t}]
<1>1. ctx[v] \in Context /\ ctx[v].st = "release" /\ StageOK(ctx[v], owed[v])
  BY DEF UnregisterBp, Inv, TypeOK, StageInv
<1>2. /\ c \in Context /\ c.st = "release" /\ c.claimed = ctx[v].claimed
      /\ c.page = ctx[v].page /\ c.iomap = ctx[v].iomap /\ c.slot = ctx[v].slot
      /\ c.bps = ctx[v].bps \ {t}
  BY <1>1 DEF Context
<1>3. ctx' = [ctx EXCEPT ![v] = c]
  BY DEF UnregisterBp, Inv, TypeOK
<1> HIDE DEF c
<1>4. /\ ctx' \in [Vmas -> Context] /\ ctx'[v] = c
      /\ \A w \in Vmas : w # v => ctx'[w] = ctx[w]
  BY <1>2, <1>3 DEF Inv, TypeOK
<1>5. /\ hwbp' \in [Threads -> SUBSET Vmas] /\ hwbp'[t] = hwbp[t] \ {v}
      /\ \A u \in Threads : u # t => hwbp'[u] = hwbp[u]
  BY DEF UnregisterBp, Inv, TypeOK
<1>6. TypeOK'
  BY <1>4, <1>5 DEF UnregisterBp, Inv, TypeOK
<1>7. StageInv'
  BY <1>1, <1>2, <1>4 DEF UnregisterBp, Inv, StageInv, StageOK
<1>8. SlotInv'
  BY <1>2, <1>4, NamesAssumption DEF UnregisterBp, Inv, SlotInv, TypeOK
<1>9. BreakpointInv'
  BY <1>2, <1>4, <1>5 DEF Inv, BreakpointInv, TypeOK
<1>10. HandlerInv'
  BY <1>1, <1>2, <1>4 DEF UnregisterBp, InHandler, Inv, HandlerInv
<1>11. TokenInv'
  BY <1>2, <1>4, TokenFrame DEF UnregisterBp, Inv
<1> QED
  BY <1>6, <1>7, <1>8, <1>9, <1>10, <1>11 DEF Inv

-----------------------------------------------------------------------------
(* Stores and handlers                                                        *)

LEMMA SpawnInv ==
    ASSUME Inv, NEW t \in Threads, Spawn(t)
    PROVE  Inv'
<1>1. TypeOK'
  BY DEF Spawn, Inv, TypeOK
<1>2. StageInv' /\ SlotInv' /\ BreakpointInv' /\ HandlerInv'
  BY DEF Spawn, Inv, StageInv, SlotInv, BreakpointInv, HandlerInv
<1>3. TokenInv'
  BY TokenFrame DEF Spawn, Inv
<1> QED
  BY <1>1, <1>2, <1>3 DEF Inv

\* The storing thread traps, and is then the one who forwards; or it has no
\* breakpoint, and the window counts as absorbed.
LEMMA StoreInv ==
    ASSUME Inv, NEW t \in Threads, NEW v \in Vmas, NEW x \in Tokens, Store(t, v, x)
    PROVE  Inv'
<1> DEFINE trapped == [pc |-> "trap", vma |-> v, token |-> NoToken]
<1>1. /\ th[t].pc = "user" /\ ctx[v].st = "watched" /\ ctx' = ctx
      /\ slots' = slots /\ hwbp' = hwbp /\ born' = born
  BY DEF Store
<1>2. /\ shadow' \in [Vmas -> Tokens \cup {NoToken}]
      /\ owed' \in [Vmas -> SUBSET Tokens]
      /\ \A w \in Vmas : w # v => shadow'[w] = shadow[w] /\ owed'[w] = owed[w]
  BY DEF Store, Inv, TypeOK
<1>3. StageInv'
  BY <1>1, <1>2 DEF Inv, StageInv, StageOK
<1>4. SlotInv' /\ BreakpointInv'
  BY <1>1 DEF Inv, SlotInv, BreakpointInv
<1>5. CASE v \in hwbp[t]
  <2>1. /\ trapped.pc = "trap" /\ trapped.vma = v /\ trapped.token = NoToken
        /\ trapped \in [pc : {"user", "trap", "forward"}, vma : Vmas \cup {NULL},
                        token : Tokens \cup {NoToken}]
    OBVIOUS
  <2>2. th' = [th EXCEPT ![t] = trapped] /\ absorbed' = absorbed
    BY <1>5 DEF Store
  <2> HIDE DEF trapped
  <2>3. th'[t] = trapped /\ \A u \in Threads : u # t => th'[u] = th[u]
    BY <2>2 DEF Inv, TypeOK
  <2>4. TypeOK'
    BY <1>1, <1>2, <2>1, <2>2 DEF Inv, TypeOK
  <2>5. t \in ctx[v].bps
    BY <1>5 DEF Inv, BreakpointInv
  <2>6. HandlerInv'
    BY <1>1, <2>1, <2>3, <2>5 DEF Inv, HandlerInv
  <2>7. TokenInv'
    <3> SUFFICES ASSUME NEW w \in Vmas, ctx[w].st = "watched", ~absorbed[w], shadow'[w] \in owed'[w]
                 PROVE  \E u \in Threads : WillForward(u, w)'
      BY <1>1, <2>2 DEF TokenInv
    <3>1. CASE w = v
      BY <2>1, <2>3, <3>1 DEF WillForward, InHandler
    <3>2. CASE w # v
      <4>1. PICK u \in Threads : WillForward(u, w)
        BY <1>2, <3>2 DEF Inv, TokenInv
      <4>2. u # t
        BY <1>1, <4>1 DEF WillForward, InHandler
      <4> QED
        BY <1>2, <2>3, <3>2, <4>1, <4>2 DEF WillForward, InHandler
    <3> QED
      BY <3>1, <3>2
  <2> QED
    BY <1>3, <1>4, <2>4, <2>6, <2>7 DEF Inv
<1>6. CASE v \notin hwbp[t]
  <2>1. /\ th' = th /\ absorbed' \in [Vmas -> BOOLEAN] /\ absorbed'[v]
        /\ \A w \in Vmas : w # v => absorbed'[w] = absorbed[w]
    BY <1>6 DEF Store, Inv, TypeOK
  <2>2. TypeOK'
    BY <1>1, <1>2, <2>1 DEF Inv, TypeOK
  <2>3. HandlerInv'
    BY <1>1, <2>1 DEF Inv, HandlerInv
  <2>4. TokenInv'
    BY <1>1, <1>2, <2>1 DEF Inv, TokenInv, WillForward, InHandler
  <2> QED
    BY <1>3, <1>4, <2>2, <2>3, <2>4 DEF Inv
<1> QED
  BY <1>5, <1>6

\* The value read is the one in the shadow page: the early return is not taken.
LEMMA ReadShadowInv ==
    ASSUME Inv, NEW t \in Threads, ReadShadow(t)
    PROVE  Inv'
<1> DEFINE v == th[t].vma
           r == [th[t] EXCEPT !.pc = "forward", !.token = shadow[th[t].vma]]
<1>1. /\ th[t].pc = "trap" /\ v \in Vmas /\ ctx[v].page
      /\ th[t] \in [pc : {"user", "trap", "forward"}, vma : Vmas \cup {NULL},
                    token : Tokens \cup {NoToken}]
  BY DEF ReadShadow, Inv, TypeOK, HandlerInv, StageInv, StageOK
<1>2. th' = [th EXCEPT ![t] = r]
  BY <1>1 DEF ReadShadow
<1>3. /\ r.pc = "forward" /\ r.vma = v /\ r.token = shadow[v]
      /\ r \in [pc : {"user", "trap", "forward"}, vma : Vmas \cup {NULL},
                token : Tokens \cup {NoToken}]
  BY <1>1 DEF Inv, TypeOK
<1> HIDE DEF r
<1>4. th'[t] = r /\ \A u \in Threads : u # t => th'[u] = th[u]
  BY <1>2 DEF Inv, TypeOK
<1>5. TypeOK'
  BY <1>2, <1>3 DEF ReadShadow, Inv, TypeOK
<1>6. StageInv' /\ SlotInv' /\ BreakpointInv'
  BY DEF ReadShadow, Inv, StageInv, SlotInv, BreakpointInv
<1>7. HandlerInv'
  BY <1>1, <1>3, <1>4 DEF ReadShadow, Inv, HandlerInv
<1>8. TokenInv'
  <2> SUFFICES ASSUME NEW w \in Vmas, ctx[w].st = "watched", ~absorbed[w], shadow[w] \in owed[w]
               PROVE  \E u \in Threads : WillForward(u, w)'
    BY DEF TokenInv, ReadShadow
  <2>1. PICK u \in Threads : WillForward(u, w)
    BY DEF Inv, TokenInv
  <2>2. WillForward(u, w)'
    BY <1>1, <1>3, <1>4, <2>1 DEF WillForward, InHandler, ReadShadow
  <2> QED
    BY <2>2
<1> QED
  BY <1>5, <1>6, <1>7, <1>8 DEF Inv

\* The real doorbell is mapped, so the value leaves the handler for the GPU.
LEMMA ForwardTokenInv ==
    ASSUME Inv, NEW t \in Threads, ForwardToken(t)
    PROVE  Inv'
<1> DEFINE v == th[t].vma
<1>1. th[t].pc = "forward" /\ v \in Vmas /\ ctx[v].iomap
  BY DEF ForwardToken, Inv, HandlerInv, StageInv, StageOK
<1>2. /\ owed' \in [Vmas -> SUBSET Tokens] /\ owed'[v] = owed[v] \ {th[t].token}
      /\ \A w \in Vmas : w # v => owed'[w] = owed[w]
  BY <1>1 DEF ForwardToken, Inv, TypeOK
<1>3. th' = [th EXCEPT ![t] = RunningThread]
  BY DEF ForwardToken
<1>4. /\ RunningThread \in [pc : {"user", "trap", "forward"}, vma : Vmas \cup {NULL},
                            token : Tokens \cup {NoToken}]
      /\ RunningThread.pc = "user"
  BY DEF RunningThread
<1>5. th'[t] = RunningThread /\ \A u \in Threads : u # t => th'[u] = th[u]
  BY <1>3 DEF Inv, TypeOK
<1>6. TypeOK'
  BY <1>2, <1>3, <1>4 DEF ForwardToken, Inv, TypeOK
<1>7. StageInv'
  BY <1>2 DEF ForwardToken, Inv, StageInv, StageOK
<1>8. SlotInv' /\ BreakpointInv'
  BY DEF ForwardToken, Inv, SlotInv, BreakpointInv
<1>9. HandlerInv'
  BY <1>4, <1>5 DEF ForwardToken, Inv, HandlerInv
<1>10. TokenInv'
  <2> SUFFICES ASSUME NEW w \in Vmas, ctx[w].st = "watched", ~absorbed[w], shadow[w] \in owed'[w]
               PROVE  \E u \in Threads : WillForward(u, w)'
    BY DEF TokenInv, ForwardToken
  <2>1. PICK u \in Threads : WillForward(u, w)
    BY <1>2 DEF Inv, TokenInv
  <2>2. u # t
    BY <1>1, <1>2, <2>1 DEF WillForward, InHandler
  <2>3. WillForward(u, w)'
    BY <1>5, <2>1, <2>2 DEF WillForward, InHandler, ForwardToken
  <2> QED
    BY <2>3
<1> QED
  BY <1>6, <1>7, <1>8, <1>9, <1>10 DEF Inv

-----------------------------------------------------------------------------
LEMMA SameInv ==
    ASSUME Inv, UNCHANGED vars
    PROVE  Inv'
<1>1. TypeOK'
  BY DEF vars, Inv, TypeOK
<1>2. StageInv' /\ SlotInv' /\ BreakpointInv' /\ HandlerInv'
  BY DEF vars, Inv, StageInv, SlotInv, BreakpointInv, HandlerInv
<1>3. TokenInv'
  BY TokenFrame DEF vars, Inv
<1> QED
  BY <1>1, <1>2, <1>3 DEF Inv

LEMMA NextInv == Inv /\ [Next]_vars => Inv'
<1> SUFFICES ASSUME Inv, [Next]_vars PROVE Inv'
  OBVIOUS
<1>1. CASE UNCHANGED vars
  BY <1>1, SameInv
<1>2. ASSUME NEW v \in Vmas, nv_dbell_intercept_mmap(v) PROVE Inv'
  BY <1>2, MmapInv, ClaimSlotInv, AllocPageInv, IoremapInv, InsertPagesInv,
     ArmThreadInv, ArmDoneInv, InterceptFailInv DEF nv_dbell_intercept_mmap
<1>3. ASSUME NEW v \in Vmas, Munmap(v) PROVE Inv'
  BY <1>3, MunmapInv
<1>4. ASSUME NEW v \in Vmas, nv_dbell_vma_release(v) PROVE Inv'
  BY <1>4, UnregisterBpInv, FreeContextInv DEF nv_dbell_vma_release
<1>5. ASSUME NEW t \in Threads, Spawn(t) PROVE Inv'
  BY <1>5, SpawnInv
<1>6. ASSUME NEW t \in Threads, HandlerStep(t) PROVE Inv'
  BY <1>6, ReadShadowInv, ForwardTokenInv DEF HandlerStep
<1>7. ASSUME NEW t \in Threads, NEW v \in Vmas, NEW x \in Tokens, Store(t, v, x) PROVE Inv'
  BY <1>7, StoreInv
<1> QED
  BY <1>1, <1>2, <1>3, <1>4, <1>5, <1>6, <1>7 DEF Next

\* The inductive invariant holds in every reachable state of the watch.
THEOREM Invariance == Spec => []Inv
BY InitInv, NextInv, PTL DEF Spec

\* Every context, slot, breakpoint set and handler stays within its type.
THEOREM TypeCorrect == Spec => []TypeOK
<1>1. Inv => TypeOK
  BY DEF Inv
<1> QED
  BY <1>1, Invariance, PTL

\* munmap never frees a context, its shadow page or its doorbell mapping under a
\* handler that is running, for any number of threads and windows.
THEOREM HandlerSafe == Spec => []HandlerHasContext
<1>1. Inv => HandlerHasContext
  BY DEF Inv, HandlerInv, StageInv, StageOK, HandlerHasContext
<1> QED
  BY <1>1, Invariance, PTL

\* No error path of the interception leaks a slot or gives one back twice.
THEOREM SlotsSafe == Spec => []SlotsAccounted
<1>1. Inv => SlotsAccounted
  BY DEF Inv, StageInv, StageOK, SlotInv, SlotsAccounted
<1> QED
  BY <1>1, Invariance, PTL

\* No hardware breakpoint outlives the context its handler would run on.
THEOREM BreakpointsSafe == Spec => []NoStaleBreakpoint
<1>1. Inv => NoStaleBreakpoint
  <2> SUFFICES ASSUME Inv, NEW t \in Threads, NEW v \in Vmas, v \in hwbp[t]
               PROVE  ctx[v].st \in {"arm", "watched", "release"} /\ t \in ctx[v].bps
    BY DEF NoStaleBreakpoint
  <2>1. t \in ctx[v].bps
    BY DEF Inv, BreakpointInv
  <2> QED
    BY <2>1 DEF Inv, StageInv, StageOK
<1> QED
  BY <1>1, Invariance, PTL

\* The last value stored in a window reaches the real doorbell before the window
\* is quiet, whatever the number of threads that ring it at once.
THEOREM LastTokenSafe == Spec => []LastTokenForwarded
<1>1. Inv => LastTokenForwarded
  <2> SUFFICES ASSUME Inv, NEW v \in Vmas, ctx[v].st = "watched", Quiet(v), ~absorbed[v],
                      shadow[v] \in owed[v]
               PROVE  FALSE
    BY DEF LastTokenForwarded
  <2>1. PICK t \in Threads : WillForward(t, v)
    BY DEF Inv, TokenInv
  <2> QED
    BY <2>1 DEF WillForward, Quiet
<1> QED
  BY <1>1, Invariance, PTL
=============================================================================

---------------------------- MODULE DoorbellWatch ----------------------------
(***************************************************************************)
(* The life of a watched VF doorbell window (nv-doorbell-watch.c, hooked    *)
(* into nv-mmap.c): mmap diverts the 64 KiB window to a shadow page and     *)
(* arms a hardware breakpoint in every thread of the process; a store to    *)
(* the doorbell dword traps, and the handler reads the dword back from the  *)
(* shadow page and writes it to the real doorbell; munmap disarms and frees *)
(* everything.  What the handler does with the cache between the read and   *)
(* the forward is DoorbellCache's subject.                                  *)
(*                                                                         *)
(* The hardware breakpoints themselves are the kernel's (nvidia_dbell.c     *)
(* only passes the calls on): a breakpoint belongs to one thread, a thread  *)
(* has DebugRegs of them, and unregistering one waits for a handler of that *)
(* thread that is running.                                                  *)
(***************************************************************************)
EXTENDS Naturals, FiniteSets

CONSTANTS
    Vmas,        \* doorbell windows that get mapped
    Threads,     \* threads of the processes
    ProcOf,      \* the process of each window and of each thread
    Tokens,      \* doorbell values
    NoToken,     \* the zero of a fresh shadow page
    NULL,        \* no context, no window
    SlotCount,   \* NV_DBELL_SLOTS
    MaxBp,       \* NV_DBELL_MAX_BP_PER_CTX
    DebugRegs,   \* hardware breakpoints of one thread
    FirstThreads \* the threads that exist from the start

Slots == 1 .. SlotCount

ASSUME BoundsAssumption ==
    SlotCount \in Nat \ {0} /\ MaxBp \in Nat \ {0} /\ DebugRegs \in Nat \ {0}
ASSUME NamesAssumption ==
    /\ NoToken \notin Tokens /\ NULL \notin Vmas
    /\ FirstThreads \subseteq Threads /\ DOMAIN ProcOf = Vmas \cup Threads

VARIABLES
    slots,    \* g_dbell_slots: the context that claimed each slot, or NULL
    ctx,      \* nv_dbell_ctx_t of each window, and how far its mmap or munmap is
    hwbp,     \* the kernel's side: the windows each thread has a breakpoint for
    shadow,   \* the doorbell dword of each shadow page
    born,     \* threads created so far
    th,       \* what each thread is doing: the window and the value in a handler
    owed,     \* ghost: values stored in a window, not forwarded since
    absorbed  \* ghost: a thread without a breakpoint stored in the window

vars == <<slots, ctx, hwbp, shadow, born, th, owed, absorbed>>

Stages == {"none", "claim", "page", "iomap", "insert", "arm", "fail",
           "watched", "direct", "release"}

Context == [st : Stages, slot : Slots, claimed : BOOLEAN, page : BOOLEAN, iomap : BOOLEAN,
            bps : SUBSET Threads, seen : SUBSET Threads]

NoContext == [st |-> "none", slot |-> 1, claimed |-> FALSE, page |-> FALSE, iomap |-> FALSE,
              bps |-> {}, seen |-> {}]

RunningThread == [pc |-> "user", vma |-> NULL, token |-> NoToken]

TypeOK ==
    /\ slots \in [Slots -> Vmas \cup {NULL}]
    /\ ctx \in [Vmas -> Context]
    /\ hwbp \in [Threads -> SUBSET Vmas]
    /\ shadow \in [Vmas -> Tokens \cup {NoToken}]
    /\ born \subseteq Threads
    /\ th \in [Threads -> [pc : {"user", "trap", "forward"}, vma : Vmas \cup {NULL},
                           token : Tokens \cup {NoToken}]]
    /\ owed \in [Vmas -> SUBSET Tokens]
    /\ absorbed \in [Vmas -> BOOLEAN]

Init ==
    /\ slots = [i \in Slots |-> NULL]
    /\ ctx = [v \in Vmas |-> NoContext]
    /\ hwbp = [t \in Threads |-> {}]
    /\ shadow = [v \in Vmas |-> NoToken]
    /\ born = FirstThreads
    /\ th = [t \in Threads |-> RunningThread]
    /\ owed = [v \in Vmas |-> {}]
    /\ absorbed = [v \in Vmas |-> FALSE]

-----------------------------------------------------------------------------
(* nv_dbell_intercept_mmap                                                    *)

\* mmap and munmap of one process exclude each other (its mmap lock).
Busy(v) == ctx[v].st \notin {"none", "watched", "direct"}
MmapLockFree(v) == \A w \in Vmas : ProcOf[w] = ProcOf[v] => ~Busy(w)

Stage(v, st) == ctx' = [ctx EXCEPT ![v].st = st]

\* The kill switch lets the window through; kzalloc may fail the mmap, which
\* leaves nothing behind; otherwise the context exists.
Mmap(v) ==
    /\ ctx[v].st = "none" /\ MmapLockFree(v)
    /\ Stage(v, "direct") \/ Stage(v, "claim")
    /\ UNCHANGED <<hwbp, slots, shadow, born, th, owed, absorbed>>

\* Mutant of ClaimSlot: the scan runs one slot too far.
ClaimSlotOffByOne(v) ==
    /\ ctx[v].st = "claim"
    /\ LET i == ctx[v].slot IN
       IF slots[i] = NULL
       THEN /\ slots' = [slots EXCEPT ![i] = v]
            /\ ctx' = [ctx EXCEPT ![v].st = "page", ![v].claimed = TRUE]
       ELSE /\ slots' = slots
            /\ ctx' = [ctx EXCEPT ![v].slot = i + 1]
    /\ UNCHANGED <<hwbp, shadow, born, th, owed, absorbed>>

\* Mutant of ClaimSlot: with no slot left it takes the fail label, which gives
\* back a slot that was never claimed.
ClaimSlotFails(v) ==
    /\ ctx[v].st = "claim"
    /\ LET i == ctx[v].slot IN
       IF slots[i] = NULL
       THEN /\ slots' = [slots EXCEPT ![i] = v]
            /\ ctx' = [ctx EXCEPT ![v].st = "page", ![v].claimed = TRUE]
       ELSE /\ slots' = slots
            /\ ctx' = [ctx EXCEPT ![v] = IF i < SlotCount THEN [@ EXCEPT !.slot = i + 1]
                                                          ELSE [@ EXCEPT !.st = "fail"]]
    /\ UNCHANGED <<hwbp, shadow, born, th, owed, absorbed>>

\* nv_dbell_claim_slot, one compare-and-swap at a time; with no slot left the
\* context is freed and the window is passed through.
ClaimSlot(v) ==
    /\ ctx[v].st = "claim"
    /\ LET i == ctx[v].slot IN
       IF slots[i] = NULL
       THEN /\ slots' = [slots EXCEPT ![i] = v]
            /\ ctx' = [ctx EXCEPT ![v].st = "page", ![v].claimed = TRUE]
       ELSE /\ slots' = slots
            /\ ctx' = [ctx EXCEPT ![v] = IF i < SlotCount THEN [@ EXCEPT !.slot = i + 1]
                                                          ELSE [NoContext EXCEPT !.st = "direct"]]
    /\ UNCHANGED <<hwbp, shadow, born, th, owed, absorbed>>

AllocPage(v) ==
    /\ ctx[v].st = "page"
    /\ \/ Stage(v, "fail")
       \/ ctx' = [ctx EXCEPT ![v].st = "iomap", ![v].page = TRUE]
    /\ shadow' = [shadow EXCEPT ![v] = NoToken]
    /\ UNCHANGED <<hwbp, slots, born, th, owed, absorbed>>

IoremapDoorbell(v) ==
    /\ ctx[v].st = "iomap"
    /\ \/ Stage(v, "fail")
       \/ ctx' = [ctx EXCEPT ![v].st = "insert", ![v].iomap = TRUE]
    /\ UNCHANGED <<hwbp, slots, shadow, born, th, owed, absorbed>>

InsertPages(v) ==
    /\ ctx[v].st = "insert"
    /\ Stage(v, "fail") \/ Stage(v, "arm")
    /\ UNCHANGED <<hwbp, slots, shadow, born, th, owed, absorbed>>

ToArm(v) == {t \in born : ProcOf[t] = ProcOf[v]} \ ctx[v].seen

\* Mutant of ArmThread: the event is registered but not recorded in bp_events.
ArmThreadUnrecorded(v, t) ==
    /\ ctx[v].st = "arm" /\ t \in ToArm(v) /\ Cardinality(ctx[v].bps) < MaxBp
    /\ Cardinality(hwbp[t]) < DebugRegs
    /\ hwbp' = [hwbp EXCEPT ![t] = @ \cup {v}]
    /\ ctx' = [ctx EXCEPT ![v].seen = @ \cup {t}]
    /\ UNCHANGED <<slots, shadow, born, th, owed, absorbed>>

\* nv_dbell_arm_threads: one iteration, for one thread of the process.  The
\* registration fails when the thread has no debug register left, and may fail
\* for other reasons; the loop goes on.
ArmThread(v, t) ==
    /\ ctx[v].st = "arm" /\ t \in ToArm(v) /\ Cardinality(ctx[v].bps) < MaxBp
    /\ \/ /\ Cardinality(hwbp[t]) < DebugRegs
          /\ hwbp' = [hwbp EXCEPT ![t] = @ \cup {v}]
          /\ ctx' = [ctx EXCEPT ![v].bps = @ \cup {t}, ![v].seen = @ \cup {t}]
       \/ /\ ctx' = [ctx EXCEPT ![v].seen = @ \cup {t}]
          /\ hwbp' = hwbp
    /\ UNCHANGED <<slots, shadow, born, th, owed, absorbed>>

\* One breakpoint is enough for the window to be watched.
ArmDone(v) ==
    /\ ctx[v].st = "arm"
    /\ ToArm(v) = {} \/ Cardinality(ctx[v].bps) >= MaxBp
    /\ Stage(v, IF ctx[v].bps = {} THEN "fail" ELSE "watched")
    /\ UNCHANGED <<hwbp, slots, shadow, born, th, owed, absorbed>>

\* nv_dbell_release_slot gives back slot_idx, whether or not it was claimed.
ReleaseSlot(v) == slots' = [slots EXCEPT ![ctx[v].slot] = NULL]

\* The fail label: everything acquired so far is released, the mmap fails.
InterceptFail(v) ==
    /\ ctx[v].st = "fail"
    /\ hwbp' = [t \in Threads |-> IF t \in ctx[v].bps THEN hwbp[t] \ {v} ELSE hwbp[t]]
    /\ ReleaseSlot(v)
    /\ ctx' = [ctx EXCEPT ![v] = NoContext]
    /\ UNCHANGED <<shadow, born, th, owed, absorbed>>

nv_dbell_intercept_mmap(v) ==
    \/ Mmap(v) \/ ClaimSlot(v) \/ AllocPage(v) \/ IoremapDoorbell(v) \/ InsertPages(v)
    \/ \E t \in Threads : ArmThread(v, t)
    \/ ArmDone(v) \/ InterceptFail(v)

-----------------------------------------------------------------------------
(* Stores to the doorbell and the trap                                        *)

Spawn(t) ==
    /\ t \notin born
    /\ born' = born \cup {t}
    /\ UNCHANGED <<hwbp, slots, ctx, shadow, th, owed, absorbed>>

\* The store lands in the shadow page; a thread with a breakpoint traps.
Store(t, v, x) ==
    /\ t \in born /\ th[t].pc = "user" /\ ProcOf[t] = ProcOf[v]
    /\ ctx[v].st = "watched"
    /\ shadow' = [shadow EXCEPT ![v] = x]
    /\ owed' = [owed EXCEPT ![v] = @ \cup {x}]
    /\ IF v \in hwbp[t]
       THEN /\ th' = [th EXCEPT ![t] = [pc |-> "trap", vma |-> v, token |-> NoToken]]
            /\ absorbed' = absorbed
       ELSE /\ absorbed' = [absorbed EXCEPT ![v] = TRUE]
            /\ th' = th
    /\ UNCHANGED <<hwbp, slots, ctx, born>>

\* nv_dbell_db_handler returns at once without a context or a shadow page, else
\* reads the token back from the shadow page ...
ReadShadow(t) ==
    /\ th[t].pc = "trap"
    /\ th' = [th EXCEPT ![t] = IF ctx[@.vma].page
                               THEN [@ EXCEPT !.pc = "forward", !.token = shadow[th[t].vma]]
                               ELSE RunningThread]
    /\ UNCHANGED <<hwbp, slots, ctx, shadow, born, owed, absorbed>>

\* Mutant of ForwardToken: a handler may return early, without the write.
ForwardTokenSometimes(t) ==
    /\ th[t].pc = "forward"
    /\ owed' \in {owed, [owed EXCEPT ![th[t].vma] = @ \ {th[t].token}]}
    /\ th' = [th EXCEPT ![t] = RunningThread]
    /\ UNCHANGED <<hwbp, slots, ctx, shadow, born, absorbed>>

\* ... and ends by writing it to the real doorbell, if that is mapped.
ForwardToken(t) ==
    /\ th[t].pc = "forward"
    /\ owed' = IF ctx[th[t].vma].iomap
               THEN [owed EXCEPT ![th[t].vma] = @ \ {th[t].token}]
               ELSE owed
    /\ th' = [th EXCEPT ![t] = RunningThread]
    /\ UNCHANGED <<hwbp, slots, ctx, shadow, born, absorbed>>

-----------------------------------------------------------------------------
(* nv_dbell_vma_release                                                       *)

InHandler(t, v) == th[t].pc # "user" /\ th[t].vma = v

\* munmap has removed the pages: no more stores reach the window.
Munmap(v) ==
    /\ ctx[v].st \in {"watched", "direct"} /\ MmapLockFree(v)
    /\ IF ctx[v].st = "watched" THEN Stage(v, "release") ELSE Stage(v, "none")
    /\ UNCHANGED <<hwbp, slots, shadow, born, th, owed, absorbed>>

\* Mutant of UnregisterBp: it waits for a moment with no handler anywhere.
UnregisterBpGlobal(v, t) ==
    /\ ctx[v].st = "release" /\ t \in ctx[v].bps
    /\ \A u \in Threads : th[u].pc = "user"
    /\ hwbp' = [hwbp EXCEPT ![t] = @ \ {v}]
    /\ ctx' = [ctx EXCEPT ![v].bps = @ \ {t}]
    /\ UNCHANGED <<slots, shadow, born, th, owed, absorbed>>

\* nv_dbell_unregister_bps, one breakpoint at a time.
UnregisterBp(v, t) ==
    /\ ctx[v].st = "release" /\ t \in ctx[v].bps
    /\ ~InHandler(t, v)
    /\ hwbp' = [hwbp EXCEPT ![t] = @ \ {v}]
    /\ ctx' = [ctx EXCEPT ![v].bps = @ \ {t}]
    /\ UNCHANGED <<slots, shadow, born, th, owed, absorbed>>

\* Mutant of FreeContext: it does not wait for the breakpoints to be gone.
FreeContextEarly(v) ==
    /\ ctx[v].st = "release"
    /\ ReleaseSlot(v)
    /\ ctx' = [ctx EXCEPT ![v] = NoContext]
    /\ shadow' = [shadow EXCEPT ![v] = NoToken]
    /\ owed' = [owed EXCEPT ![v] = {}]
    /\ absorbed' = [absorbed EXCEPT ![v] = FALSE]
    /\ UNCHANGED <<hwbp, born, th>>

\* iounmap, release the slot, free the page and the context.
FreeContext(v) ==
    /\ ctx[v].st = "release" /\ ctx[v].bps = {}
    /\ ReleaseSlot(v)
    /\ ctx' = [ctx EXCEPT ![v] = NoContext]
    /\ shadow' = [shadow EXCEPT ![v] = NoToken]
    /\ owed' = [owed EXCEPT ![v] = {}]
    /\ absorbed' = [absorbed EXCEPT ![v] = FALSE]
    /\ UNCHANGED <<hwbp, born, th>>

nv_dbell_vma_release(v) ==
    (\E t \in Threads : UnregisterBp(v, t)) \/ FreeContext(v)

-----------------------------------------------------------------------------
HandlerStep(t) == ReadShadow(t) \/ ForwardToken(t)

Next ==
    \/ \E v \in Vmas : nv_dbell_intercept_mmap(v) \/ Munmap(v) \/ nv_dbell_vma_release(v)
    \/ \E t \in Threads : Spawn(t) \/ HandlerStep(t)
    \/ \E t \in Threads, v \in Vmas, x \in Tokens : Store(t, v, x)

\* A trapped thread runs its handler to the end; a thread in munmap goes on.
Fairness ==
    /\ \A t \in Threads : WF_vars(HandlerStep(t))
    /\ \A v \in Vmas : WF_vars(nv_dbell_vma_release(v))

Spec == Init /\ [][Next]_vars /\ Fairness

-----------------------------------------------------------------------------
\* A handler runs only on a context that is allocated, with its shadow page and
\* its mapping of the real doorbell: munmap on another CPU frees none of them
\* under a running handler, so the early return and the no_iomap path of the
\* handler, which would cost the GPU a doorbell, are never taken.
HandlerHasContext ==
    \A t \in Threads : th[t].pc # "user" =>
        LET c == ctx[th[t].vma] IN c.st \in {"watched", "release"} /\ c.page /\ c.iomap

\* A slot is taken exactly while one context holds it: no error path of the
\* interception and no pass-through leaves one claimed, and no slot is given
\* back twice.  A leaked slot would silently end the watching of later windows.
SlotsAccounted ==
    /\ \A i \in Slots : slots[i] # NULL => ctx[slots[i]].claimed /\ ctx[slots[i]].slot = i
    /\ \A v \in Vmas : ctx[v].claimed => slots[ctx[v].slot] = v
    /\ \A v \in Vmas : ctx[v].st \in {"none", "claim", "direct"} => ~ctx[v].claimed

\* No breakpoint outlives its window: every breakpoint the kernel still holds is
\* in the list of a context that munmap has yet to disarm.  One left behind would
\* run the handler on a freed context.
NoStaleBreakpoint ==
    \A t \in Threads, v \in Vmas :
        v \in hwbp[t] => ctx[v].st \in {"arm", "watched", "release"} /\ t \in ctx[v].bps

Quiet(v) == \A t \in Threads : ~InHandler(t, v)

\* The last value stored in a window is forwarded before the window is quiet,
\* even when several threads ring it at once, unless a thread without a
\* breakpoint stored into it.
LastTokenForwarded ==
    \A v \in Vmas :
        ctx[v].st = "watched" /\ Quiet(v) /\ ~absorbed[v] => shadow[v] \notin owed[v]

\* "on every doorbell write we must ALWAYS end by writing the original value to
\* the real doorbell MMIO": no value stored by an armed thread is left over.
EveryTokenForwarded ==
    \A v \in Vmas : ctx[v].st = "watched" /\ Quiet(v) /\ ~absorbed[v] => owed[v] = {}

\* munmap of a watched window finishes: it waits for running handlers only, and
\* those wait for nobody.
ReleaseCompletes == \A v \in Vmas : ctx[v].st = "release" ~> ctx[v].st = "none"
=============================================================================

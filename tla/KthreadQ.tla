------------------------------- MODULE KthreadQ -------------------------------
(***************************************************************************)
(* The work queue nv_kthread_q: a list under a spinlock, a semaphore that   *)
(* counts its items, and one kernel thread that runs them.  The doorbell    *)
(* resolver is one of its clients; its work items are allocated by the      *)
(* client and freed by their own callback.                                  *)
(*                                                                         *)
(* Adding an item (under the lock) and raising the semaphore (outside it)   *)
(* are separate steps, and so are the worker's down, its look at the exit   *)
(* flag, its removal of the head and the callback.  Clients keep the rules  *)
(* of nv-kthread-q.h: no schedule, no flush and no second stop once stop    *)
(* has been called, self-rescheduling items told to cease before it, and an *)
(* init only of a queue that is not in use.                                 *)
(***************************************************************************)
EXTENDS Naturals, Sequences, FiniteSets

CONSTANTS
    Users,     \* threads that call the queue's functions
    Worker,    \* the queue's kthread
    Items,     \* the callers' q_items
    Dynamic,   \* items allocated for one run and freed by their callback
    Spawns,    \* the item that the callback of an item schedules, or NoItem
    NoItem

Agents == Users \cup {Worker}
\* A flush puts an item of its own stack frame into the list, named by its caller.
QItems == Items \cup Users
Instances == Items \X {"pending", "running"}

ASSUME AgentsAssumption ==
    /\ Worker \notin Users /\ Users \cap Items = {} /\ IsFiniteSet(Users)
    /\ NoItem \notin QItems
ASSUME ItemsAssumption ==
    Dynamic \subseteq Items /\ Spawns \in [Items -> (Items \ Dynamic) \cup {NoItem}]

VARIABLES
    list,        \* q_list_head
    sem,         \* q_sem
    shouldExit,  \* main_loop_should_exit
    kthread,     \* q_kthread is not NULL
    th,          \* program counter and locals of the callers and of the kthread
    done,        \* the completion of each flush item
    rearm,       \* the callers' flag: callbacks may still schedule
    heap,        \* the allocation state of the dynamic items
    owe          \* ghost: what a flush in progress has promised to see run

vars == <<list, sem, shouldExit, kthread, th, done, rearm, heap, owe>>

PCs == {"idle", "check", "add", "up", "wait", "flushed", "kick", "join",
        "down", "look", "consume", "call", "parked", "gone"}

\* What a thread inside a call, or the kthread, is doing: the call, the item it
\* adds, the item whose callback it runs, and which of the two flushes it is in.
Thread == [pc : PCs, op : {"sched", "flush", "stop", "main"},
           item : QItems \cup {NoItem}, cur : QItems \cup {NoItem}, round : {1, 2}]

TypeOK ==
    /\ list \in Seq(QItems)
    /\ sem \in Nat
    /\ shouldExit \in BOOLEAN /\ kthread \in BOOLEAN
    /\ th \in [Agents -> Thread]
    /\ done \in [Users -> BOOLEAN]
    /\ rearm \in BOOLEAN
    /\ heap \in [Dynamic -> {"free", "live", "broken"}]
    /\ owe \in [Users -> [own : SUBSET Instances, children : SUBSET Instances]]

Idle == [pc |-> "idle", op |-> "sched", item |-> NoItem, cur |-> NoItem, round |-> 1]
MainLoop == [Idle EXCEPT !.pc = "down", !.op = "main"]
OweNothing == [own |-> {}, children |-> {}]

\* A queue in static storage, before its first init.
Init ==
    /\ list = << >> /\ sem = 0 /\ shouldExit = FALSE /\ kthread = FALSE
    /\ th = [a \in Agents |-> IF a = Worker THEN [MainLoop EXCEPT !.pc = "gone"] ELSE Idle]
    /\ done = [u \in Users |-> FALSE]
    /\ rearm = TRUE
    /\ heap = [i \in Dynamic |-> "free"]
    /\ owe = [u \in Users |-> OweNothing]

Goto(a, pc) == th' = [th EXCEPT ![a].pc = pc]

-----------------------------------------------------------------------------
(* The calls, and the rules of nv-kthread-q.h that their callers keep.         *)

AllIdle == \A u \in Users : th[u].pc = "idle"
Stopping == \E u \in Users : th[u].pc # "idle" /\ th[u].op = "stop"
Open == kthread /\ ~Stopping

\* nv_kthread_q_init_on_node, of a queue nobody uses: everything is zeroed, and
\* the kthread is created, possibly after one or two discarded attempts, or not.
nv_kthread_q_init ==
    /\ ~kthread /\ AllIdle
    /\ list' = << >> /\ sem' = 0 /\ shouldExit' = FALSE
    /\ \/ kthread' = TRUE /\ th' = [th EXCEPT ![Worker] = MainLoop]
       \/ kthread' = FALSE /\ UNCHANGED th
    /\ rearm' = TRUE
    /\ UNCHANGED <<done, heap, owe>>

\* A caller schedules one of its preallocated items, pending or not.
Schedule(u, i) ==
    /\ i \notin Dynamic /\ Open /\ th[u].pc = "idle"
    /\ th' = [th EXCEPT ![u] = [Idle EXCEPT !.pc = "check", !.item = i]]
    /\ UNCHANGED <<list, sem, shouldExit, kthread, done, rearm, heap, owe>>

\* nv_dbell_try_enqueue_resolve, once its two atomic allocations have succeeded:
\* a fresh item is initialised and scheduled.
EnqueueWork(u, i) ==
    /\ i \in Dynamic /\ heap[i] = "free" /\ Open /\ th[u].pc = "idle"
    /\ heap' = [heap EXCEPT ![i] = "live"]
    /\ th' = [th EXCEPT ![u] = [Idle EXCEPT !.pc = "check", !.item = i]]
    /\ UNCHANGED <<list, sem, shouldExit, kthread, done, rearm, owe>>

Running == {i \in Items : th[Worker].cur = i}
Queued == {i \in Items : \E j \in DOMAIN list : list[j] = i}

\* What a flush that is called now promises to see run.
OweNow == [own |-> (Queued \X {"pending"}) \cup (Running \X {"running"}), children |-> {}]

Flush(u) ==
    /\ Open /\ th[u].pc = "idle"
    /\ th' = [th EXCEPT ![u] = [Idle EXCEPT !.pc = "check", !.op = "flush", !.item = u]]
    /\ owe' = [owe EXCEPT ![u] = OweNow]
    /\ UNCHANGED <<list, sem, shouldExit, kthread, done, rearm, heap>>

\* The flag "that tells the callback to stop rescheduling itself".
CeaseRearming ==
    /\ kthread /\ rearm
    /\ rearm' = FALSE
    /\ UNCHANGED <<list, sem, shouldExit, kthread, th, done, heap, owe>>

\* nv_kthread_q_stop; a no-op on a queue whose init failed.
Stop(u) ==
    /\ AllIdle
    /\ \/ /\ kthread /\ ~rearm
          /\ th' = [th EXCEPT ![u] = [Idle EXCEPT !.pc = "check", !.op = "stop", !.item = u]]
          /\ owe' = [owe EXCEPT ![u] = OweNow]
       \/ ~kthread /\ UNCHANGED <<th, owe>>
    /\ UNCHANGED <<list, sem, shouldExit, kthread, done, rearm, heap>>

-----------------------------------------------------------------------------
(* nv_kthread_q_schedule_q_item and _raw_q_schedule, for callers and callbacks. *)

Ended(S) == {x \in S : x[2] = "pending"}
OweAfterRun == [u \in Users |-> [own |-> Ended(owe[u].own), children |-> Ended(owe[u].children)]]

\* The call returns: a callback is over, a caller goes its way.
EndCall(a) ==
    /\ th' = [th EXCEPT ![a] = IF a = Worker THEN MainLoop ELSE Idle]
    /\ owe' = IF a = Worker THEN OweAfterRun ELSE owe

\* The doorbell client frees the item of a failed schedule, and once more at its
\* fail label.
Refused(a) ==
    heap' = [i \in Dynamic |-> IF i = th[a].item THEN "broken" ELSE heap[i]]

\* The unlocked look at the exit flag.
CheckExit(a) ==
    /\ th[a].pc = "check"
    /\ IF shouldExit
       THEN EndCall(a) /\ Refused(a)
       ELSE Goto(a, "add") /\ UNCHANGED <<owe, heap>>
    /\ UNCHANGED <<list, sem, shouldExit, kthread, done, rearm>>

Pending(i) == \E j \in DOMAIN list : list[j] = i

\* An item scheduled by a callback that a flush waits for is waited for too.
OweAfterAdd(a) ==
    [u \in Users |->
        IF a = Worker /\ <<th[a].cur, "running">> \in owe[u].own
        THEN [owe[u] EXCEPT !.children = @ \cup {<<th[a].item, "pending">>}]
        ELSE owe[u]]

\* Mutant of Insert: list_add instead of list_add_tail.
InsertHead(i) == list' = <<i>> \o list

Insert(i) == list' = Append(list, i)

\* Mutants of Add: a successful add is reported as a failure; the semaphore is
\* raised whether or not an item was added.
AddReportsFailure(a) ==
    /\ th[a].pc = "add"
    /\ IF ~Pending(th[a].item)
       THEN Insert(th[a].item) /\ Goto(a, "up") /\ owe' = OweAfterAdd(a)
       ELSE EndCall(a) /\ UNCHANGED list
    /\ Refused(a)
    /\ UNCHANGED <<sem, shouldExit, kthread, done, rearm>>

AddAlwaysUp(a) ==
    /\ th[a].pc = "add"
    /\ Goto(a, "up")
    /\ IF ~Pending(th[a].item)
       THEN Insert(th[a].item) /\ owe' = OweAfterAdd(a)
       ELSE UNCHANGED <<list, owe>>
    /\ UNCHANGED <<sem, shouldExit, kthread, done, rearm, heap>>

\* The locked part: append the item unless it is pending already.
Add(a) ==
    /\ th[a].pc = "add"
    /\ IF ~Pending(th[a].item)
       THEN Insert(th[a].item) /\ Goto(a, "up") /\ owe' = OweAfterAdd(a) /\ UNCHANGED heap
       ELSE EndCall(a) /\ Refused(a) /\ UNCHANGED list
    /\ UNCHANGED <<sem, shouldExit, kthread, done, rearm>>

\* up(&q->q_sem); a flush goes on to wait for its item.
Up(a) ==
    /\ th[a].pc = "up"
    /\ sem' = sem + 1
    /\ IF th[a].op \in {"flush", "stop"}
       THEN Goto(a, "wait") /\ UNCHANGED owe
       ELSE EndCall(a)
    /\ UNCHANGED <<list, shouldExit, kthread, done, rearm, heap>>

-----------------------------------------------------------------------------
(* The rest of flush and stop.                                                 *)

\* Mutant of Waited: the queue is flushed once.
WaitedOnce(u) ==
    /\ th[u].pc = "wait" /\ done[u]
    /\ done' = [done EXCEPT ![u] = FALSE]
    /\ Goto(u, "flushed")
    /\ UNCHANGED <<list, sem, shouldExit, kthread, rearm, heap, owe>>

\* wait_for_completion returns: "This 2x flush is not a typing mistake".
Waited(u) ==
    /\ th[u].pc = "wait" /\ done[u]
    /\ done' = [done EXCEPT ![u] = FALSE]
    /\ IF th[u].round = 1
       THEN th' = [th EXCEPT ![u].pc = "add", ![u].round = 2]
       ELSE Goto(u, "flushed")
    /\ UNCHANGED <<list, sem, shouldExit, kthread, rearm, heap, owe>>

FlushReturn(u) ==
    /\ th[u].pc = "flushed" /\ th[u].op = "flush"
    /\ th' = [th EXCEPT ![u] = Idle]
    /\ owe' = [owe EXCEPT ![u] = OweNothing]
    /\ UNCHANGED <<list, sem, shouldExit, kthread, done, rearm, heap>>

SetExit(u) ==
    /\ th[u].pc = "flushed" /\ th[u].op = "stop" /\ ~shouldExit
    /\ shouldExit' = TRUE
    /\ Goto(u, "kick")
    /\ UNCHANGED <<list, sem, kthread, done, rearm, heap, owe>>

\* Mutant of Kick: the sleeping kthread is not woken.
KickForgotten(u) ==
    /\ th[u].pc = "kick"
    /\ Goto(u, "join")
    /\ UNCHANGED <<list, sem, shouldExit, kthread, done, rearm, heap, owe>>

Kick(u) ==
    /\ th[u].pc = "kick"
    /\ sem' = sem + 1
    /\ Goto(u, "join")
    /\ UNCHANGED <<list, shouldExit, kthread, done, rearm, heap, owe>>

\* kthread_stop waits for the kthread to return.
Join(u) ==
    /\ th[u].pc = "join" /\ th[Worker].pc = "gone"
    /\ kthread' = FALSE
    /\ th' = [th EXCEPT ![u] = Idle]
    /\ owe' = [owe EXCEPT ![u] = OweNothing]
    /\ UNCHANGED <<list, sem, shouldExit, done, rearm, heap>>

nv_kthread_q_flush(u) == Waited(u) \/ FlushReturn(u)
nv_kthread_q_stop(u) == SetExit(u) \/ Kick(u) \/ Join(u)

-----------------------------------------------------------------------------
(* _main_loop.                                                                 *)

\* Mutant of Down: the thread does not wait for the semaphore.
DownTry ==
    /\ th[Worker].pc = "down"
    /\ sem' = sem - 1
    /\ Goto(Worker, "look")
    /\ UNCHANGED <<list, shouldExit, kthread, done, rearm, heap, owe>>

Down ==
    /\ th[Worker].pc = "down" /\ sem > 0
    /\ sem' = sem - 1
    /\ Goto(Worker, "look")
    /\ UNCHANGED <<list, shouldExit, kthread, done, rearm, heap, owe>>

LookExit ==
    /\ th[Worker].pc = "look"
    /\ Goto(Worker, IF shouldExit THEN "parked" ELSE "consume")
    /\ UNCHANGED <<list, sem, shouldExit, kthread, done, rearm, heap, owe>>

Taken(S, i) ==
    {IF x = <<i, "pending">> THEN <<i, "running">> ELSE x : x \in S}

\* The locked removal of the head; an empty list is a bug that is only warned of.
Consume ==
    /\ th[Worker].pc = "consume"
    /\ IF list = << >>
       THEN Goto(Worker, "down") /\ UNCHANGED <<list, owe>>
       ELSE /\ th' = [th EXCEPT ![Worker].pc = "call", ![Worker].cur = Head(list)]
            /\ list' = Tail(list)
            /\ owe' = [u \in Users |-> [own |-> Taken(owe[u].own, Head(list)),
                                        children |-> Taken(owe[u].children, Head(list))]]
    /\ UNCHANGED <<sem, shouldExit, kthread, done, rearm, heap>>

\* The callback of a flush item completes it.
RunFlushItem ==
    /\ th[Worker].pc = "call" /\ th[Worker].cur \in Users
    /\ done' = [done EXCEPT ![th[Worker].cur] = TRUE]
    /\ th' = [th EXCEPT ![Worker] = MainLoop]
    /\ UNCHANGED <<list, sem, shouldExit, kthread, rearm, heap, owe>>

\* A callback that schedules an item, unless it has been told to cease.
RunSpawning ==
    LET i == th[Worker].cur IN
    /\ th[Worker].pc = "call" /\ i \in Items /\ Spawns[i] # NoItem /\ rearm
    /\ th' = [th EXCEPT ![Worker].pc = "check", ![Worker].item = Spawns[i]]
    /\ UNCHANGED <<list, sem, shouldExit, kthread, done, rearm, heap, owe>>

\* Any other callback; nv_dbell_resolve_fn ends by freeing its own work item.
RunPlain ==
    LET i == th[Worker].cur IN
    /\ th[Worker].pc = "call" /\ i \in Items
    /\ Spawns[i] = NoItem \/ ~rearm
    /\ heap' = [d \in Dynamic |->
          IF d # i THEN heap[d] ELSE IF heap[d] = "live" THEN "free" ELSE "broken"]
    /\ EndCall(Worker)
    /\ UNCHANGED <<list, sem, shouldExit, kthread, done, rearm>>

\* The kthread spins until kthread_stop has been called, then returns.
Leave ==
    /\ th[Worker].pc = "parked" /\ \E u \in Users : th[u].pc = "join"
    /\ Goto(Worker, "gone")
    /\ UNCHANGED <<list, sem, shouldExit, kthread, done, rearm, heap, owe>>

RunItem == RunFlushItem \/ RunSpawning \/ RunPlain

main_loop == Down \/ LookExit \/ Consume \/ RunItem \/ Leave

-----------------------------------------------------------------------------
AgentStep(a) == CheckExit(a) \/ Add(a) \/ Up(a)

UserStep(u) == AgentStep(u) \/ nv_kthread_q_flush(u) \/ nv_kthread_q_stop(u)

WorkerStep == AgentStep(Worker) \/ main_loop

Next ==
    \/ nv_kthread_q_init \/ CeaseRearming
    \/ \E u \in Users :
          \/ UserStep(u) \/ Flush(u) \/ Stop(u)
          \/ \E i \in Items : Schedule(u, i) \/ EnqueueWork(u, i)
    \/ WorkerStep

Spec == Init /\ [][Next]_vars

\* Threads inside a call and the kthread are scheduled by the kernel; callbacks end.
FairSpec ==
    /\ Spec
    /\ \A u \in Users : WF_vars(UserStep(u))
    /\ WF_vars(WorkerStep)

-----------------------------------------------------------------------------
\* Agents that have added an item and not yet raised the semaphore.
Raising == {a \in Agents : th[a].pc = "up"}

\* Tokens that are not for an item: the one stop raises to wake the kthread.
ExitTokens ==
    IF shouldExit /\ (\E u \in Users : th[u].pc = "join") /\ th[Worker].pc \in {"down", "look"}
    THEN 1 ELSE 0

\* The semaphore counts the list: every item in it is matched by a token, by an
\* agent about to raise one, or by the token the worker has just taken.
SemCounts ==
    sem + Cardinality(Raising) + (IF th[Worker].pc \in {"look", "consume"} THEN 1 ELSE 0)
        = Len(list) + ExitTokens

\* "The q_sem semaphore prevents us from getting here unless there is at least one
\* item in the list, so an empty list indicates a bug."
NeverEmpty == th[Worker].pc = "consume" => list # << >>

\* "All items that were in the queue before nv_kthread_q_flush was called, and all
\* items scheduled by those items, will get run before this function returns."
FlushDrains ==
    \A u \in Users :
        th[u].pc \in {"flushed", "kick", "join"} => owe[u] = OweNothing

\* stop finds the list empty after its flush and no callback running, and it stays
\* so until the kthread is gone: the kthread never exits with work left behind.
StopDrains ==
    \A u \in Users :
        th[u].op = "stop" /\ th[u].pc \in {"flushed", "kick", "join"} =>
            list = << >> /\ th[Worker].cur = NoItem

\* A work item in the list, in the worker's hands or being scheduled is allocated,
\* and none is freed twice, although its callback may run and free it while the
\* thread that scheduled it is still about to raise the semaphore.
QueuedItemsLive ==
    \A i \in Dynamic :
        /\ heap[i] # "broken"
        /\ Pending(i) \/ th[Worker].cur = i => heap[i] = "live"

\* Every call returns, flush and stop included: the worker is never left asleep
\* with an item in the list, and stop wakes it up to exit.
CallsReturn == \A u \in Users : th[u].pc # "idle" ~> th[u].pc = "idle"

\* The queue seen by its clients, without the flush items.
ClientItems(l) ==
    LET upTo[n \in 0 .. Len(l)] ==
            IF n = 0 THEN << >>
            ELSE IF l[n] \in Items THEN Append(upTo[n - 1], l[n]) ELSE upTo[n - 1]
    IN  upTo[Len(l)]

WQ == INSTANCE WorkQueue WITH
        pending <- ClientItems(list),
        running <- IF th[Worker].cur \in Items THEN th[Worker].cur ELSE NoItem

\* The list, the semaphore and the kthread implement a queue that runs every
\* submitted item once, in order, although others keep rescheduling themselves, and
\* that neither stop nor a later init empties behind its clients' back.
ImplementsWorkQueue == WQ!Spec
=============================================================================

--------------------------- MODULE KthreadQProofs ---------------------------
(***************************************************************************)
(* What TLAPS proves of KthreadQ, for every number of callers and items and  *)
(* for every pattern of items that schedule others.                          *)
(*                                                                         *)
(* The strengthening records what each point of a call implies (UserOK,      *)
(* WorkerOK), that a stop runs alone and when the kthread has left           *)
(* (LifeInv), that what remains in the list of a stopping queue shrinks to   *)
(* nothing (StopInv), where the item of a flush in progress is (FlushInv),   *)
(* that a work item is in one place at a time (ItemInv), and that what a     *)
(* flush has promised stands before its own item in the list (OweInv).       *)
(* The last part shows that the queue implements the safety of WorkQueue.    *)
(***************************************************************************)
EXTENDS KthreadQ, NaturalLemmas, FiniteSetTheorems, SequenceTheorems, TLAPS

Flushes(u) == th[u].op \in {"flush", "stop"}

\* What the point a caller has reached says of its call.
UserOK(u) ==
    /\ th[u].pc \in {"idle", "check", "add", "up", "wait", "flushed", "kick", "join"}
    /\ th[u].op # "main"
    /\ th[u].pc = "idle" => th[u] = Idle
    /\ th[u].pc \in {"wait", "flushed", "kick", "join"} => Flushes(u)
    /\ th[u].pc \in {"kick", "join"} => th[u].op = "stop"
    /\ th[u].pc = "check" => th[u].round = 1
    /\ ~Flushes(u) /\ th[u].pc # "idle" => th[u].item \in Items
    /\ Flushes(u) => th[u].item = u

Waiting == {"down", "look", "consume", "parked", "gone"}
Spawning == {"check", "add", "up"}

WorkerOK ==
    /\ th[Worker].op = "main"
    /\ th[Worker].pc \in Waiting \cup Spawning \cup {"call"}
    /\ th[Worker].cur = NoItem <=> th[Worker].pc \in Waiting
    /\ th[Worker].pc \in Spawning =>
          th[Worker].cur \in Items /\ th[Worker].item \in Items \ Dynamic

ShapeInv == WorkerOK /\ \A u \in Users : UserOK(u)

Joining == \E u \in Users : th[u].pc = "join"
Exiting == \E u \in Users : th[u].pc \in {"kick", "join"}

\* A stop runs alone, of a queue that has been told to cease; the kthread leaves
\* only while a stop waits for it.
LifeInv ==
    /\ \A u \in Users : th[u].op = "stop" =>
          kthread /\ ~rearm /\ \A v \in Users : v # u => th[v].pc = "idle"
    /\ ~kthread => AllIdle /\ th[Worker].pc = "gone" /\ list = << >>
    /\ kthread => (shouldExit <=> Exiting)
    /\ th[Worker].pc \in {"parked", "gone"} => Joining \/ ~kthread
    /\ th[Worker].pc = "parked" => kthread

\* Once its first flush has come through, a stop sees no callback scheduling; in
\* the second flush its own item is the last one.
StopOK(u) ==
    /\ th[u].round = 2 \/ done[u] \/ th[Worker].cur = u => th[Worker].pc \notin Spawning
    /\ th[u].round = 2 /\ th[u].pc \in {"up", "wait"} =>
          /\ list # << >> => list[Len(list)] = u
          /\ done[u] => th[Worker].cur = NoItem
    /\ th[u].pc \in {"flushed", "kick"} => list = << >> /\ th[Worker].pc = "down"
    /\ th[u].pc = "join" => list = << >> /\ th[Worker].pc \in {"down", "look", "parked", "gone"}

StopInv == \A u \in Users : th[u].op = "stop" => StopOK(u)

\* The item of a flush is in one place from its addition to its completion.
InFlight(u) == Flushes(u) /\ th[u].pc \in {"up", "wait"}

FlushOK(u) ==
    /\ InFlight(u) <=> Pending(u) \/ th[Worker].cur = u \/ done[u]
    /\ Pending(u) => th[Worker].cur # u /\ ~done[u]
    /\ done[u] => th[Worker].cur # u

FlushInv == \A u \in Users : FlushOK(u)

\* u is about to add the dynamic item i.
Adding(u, i) == th[u].pc \in {"check", "add"} /\ th[u].item = i

ItemInv ==
    /\ \A j, k \in DOMAIN list : list[j] = list[k] => j = k
    /\ \A u \in Users, i \in Dynamic : Adding(u, i) =>
          /\ heap[i] = "live" /\ ~Pending(i) /\ th[Worker].cur # i
          /\ \A v \in Users : Adding(v, i) => v = u
    /\ \A i \in Dynamic : th[Worker].cur = i => ~Pending(i)
    /\ QueuedItemsLive

\* The promised instances in S that are pending stand before u's item.
BeforeOwn(u, S) ==
    \A i \in Items : \A j, k \in DOMAIN list :
        <<i, "pending">> \in S /\ list[j] = i /\ list[k] = u => j < k

Accounted(S) ==
    \A i \in Items :
        /\ <<i, "running">> \in S => th[Worker].cur = i
        /\ <<i, "pending">> \in S => Pending(i)

OweOK(u) ==
    /\ Accounted(owe[u].own) /\ Accounted(owe[u].children)
    /\ th[u].round = 2 => owe[u].own = {}
    /\ InFlight(u) /\ th[u].round = 1 =>
          BeforeOwn(u, owe[u].own) /\ (~Pending(u) => owe[u].own = {})
    /\ InFlight(u) /\ th[u].round = 2 =>
          BeforeOwn(u, owe[u].children) /\ (~Pending(u) => owe[u].children = {})
    /\ th[u].pc \in {"flushed", "kick", "join"} => owe[u] = OweNothing

OweInv == \A u \in Users : Flushes(u) => OweOK(u)

Inv == /\ TypeOK /\ ShapeInv /\ LifeInv /\ SemCounts
       /\ StopInv /\ FlushInv /\ ItemInv /\ OweInv

-----------------------------------------------------------------------------
(* The list, and the records of the threads.                                   *)

LEMMA ListFacts ==
    ASSUME TypeOK
    PROVE  /\ Len(list) \in Nat /\ DOMAIN list = 1 .. Len(list)
           /\ \A j \in DOMAIN list : list[j] \in QItems
           /\ list = << >> <=> Len(list) = 0
           /\ list = << >> <=> \A x : ~Pending(x)
<1>1. list \in Seq(QItems)
  BY DEF TypeOK
<1>2. Len(list) \in Nat /\ DOMAIN list = 1 .. Len(list) /\ \A j \in DOMAIN list : list[j] \in QItems
  BY <1>1, LenProperties
<1>3. list = << >> <=> Len(list) = 0
  BY <1>1, EmptySeq
<1>4. list = << >> <=> \A x : ~Pending(x)
  <2>1. CASE list = << >>
    BY <2>1 DEF Pending
  <2>2. CASE list # << >>
    <3>1. 1 \in DOMAIN list
      BY <1>2, <1>3, <2>2
    <3> QED
      BY <2>2, <3>1 DEF Pending
  <2> QED
    BY <2>1, <2>2
<1> QED
  BY <1>2, <1>3, <1>4

LEMMA ThreadUpdate ==
    ASSUME TypeOK, NEW a \in Agents, NEW r \in Thread, th' = [th EXCEPT ![a] = r]
    PROVE  /\ th' \in [Agents -> Thread] /\ th'[a] = r
           /\ \A b \in Agents : b # a => th'[b] = th[b]
  BY DEF TypeOK

\* Goto moves a thread and changes nothing else of it.
LEMMA GotoFields ==
    ASSUME TypeOK, NEW a \in Agents, NEW pc \in PCs, Goto(a, pc)
    PROVE  \E r \in Thread :
              /\ th' = [th EXCEPT ![a] = r] /\ r.pc = pc
              /\ r.op = th[a].op /\ r.item = th[a].item /\ r.cur = th[a].cur /\ r.round = th[a].round
<1> DEFINE r == [th[a] EXCEPT !.pc = pc]
<1>1. th[a] \in Thread
  BY DEF TypeOK
<1>2. /\ r \in Thread /\ r.pc = pc
      /\ r.op = th[a].op /\ r.item = th[a].item /\ r.cur = th[a].cur /\ r.round = th[a].round
  BY <1>1 DEF Thread
<1>3. th' = [th EXCEPT ![a] = r]
  BY DEF Goto
<1> HIDE DEF r
<1> QED
  BY <1>2, <1>3

LEMMA AgentFacts ==
    /\ Worker \in Agents /\ \A u \in Users : u \in Agents /\ u # Worker /\ u \notin Items
    /\ \A u \in Users : u # NoItem /\ u \in QItems
    /\ \A i \in Items : i # NoItem /\ i \in QItems
    /\ \A i \in Dynamic : i \in Items
    /\ IsFiniteSet(Agents)
<1>1. IsFiniteSet(Users \cup {Worker})
  BY AgentsAssumption, FS_AddElement
<1> QED
  BY <1>1, AgentsAssumption, ItemsAssumption DEF Agents, QItems

LEMMA RecordFacts ==
    /\ Idle \in Thread /\ Idle.pc = "idle" /\ Idle.op = "sched" /\ Idle.cur = NoItem
    /\ Idle.round = 1 /\ Idle.item = NoItem
    /\ MainLoop \in Thread /\ MainLoop.pc = "down" /\ MainLoop.op = "main" /\ MainLoop.cur = NoItem
  BY DEF Idle, MainLoop, Thread, PCs

\* Agents that raise the semaphore: one more, one less, the same.
LEMMA RaisingFinite ==
    IsFiniteSet(Raising) /\ Cardinality(Raising) \in Nat
<1>1. Raising \in SUBSET Agents
  BY DEF Raising
<1>2. IsFiniteSet(Raising)
  BY <1>1, AgentFacts, FS_Subset
<1> QED
  BY <1>2, FS_CardinalityType

-----------------------------------------------------------------------------
(* The initial state.                                                          *)

LEMMA InitInv == Init => Inv
<1> SUFFICES ASSUME Init PROVE Inv
  OBVIOUS
<1>1. \A u \in Users : th[u] = Idle
  BY AgentFacts DEF Init
<1>2. /\ th[Worker] \in Thread /\ th[Worker].pc = "gone" /\ th[Worker].op = "main"
      /\ th[Worker].cur = NoItem
  BY AgentFacts, RecordFacts DEF Init, MainLoop, Idle, Thread, PCs
<1>3. TypeOK
  <2>1. list \in Seq(QItems)
    BY DEF Init
  <2>2. th \in [Agents -> Thread]
    BY <1>1, <1>2, RecordFacts DEF Init, Agents
  <2>3. owe \in [Users -> [own : SUBSET Instances, children : SUBSET Instances]]
    BY DEF Init, OweNothing
  <2> QED
    BY <2>1, <2>2, <2>3 DEF Init, TypeOK
<1>4. \A x : ~Pending(x)
  BY <1>3, ListFacts DEF Init
<1>5. ShapeInv
  BY <1>1, <1>2, RecordFacts DEF ShapeInv, UserOK, WorkerOK, Flushes, Waiting, Spawning
<1>6. LifeInv
  BY <1>1, <1>2, RecordFacts DEF LifeInv, AllIdle, Init
<1>7. SemCounts
  <2>1. Raising = {}
    BY <1>1, <1>2, RecordFacts DEF Raising, Agents
  <2>2. Cardinality(Raising) = 0
    BY <2>1, FS_EmptySet
  <2>3. Len(list) = 0 /\ sem = 0 /\ ExitTokens = 0
    BY DEF Init, ExitTokens
  <2> QED
    BY <1>2, <2>2, <2>3 DEF SemCounts
<1>8. StopInv /\ OweInv
  BY <1>1, RecordFacts DEF StopInv, OweInv, Flushes
<1>9. FlushInv
  BY <1>1, <1>2, <1>4, RecordFacts, AgentFacts DEF FlushInv, FlushOK, InFlight, Flushes, Init
<1>10. ItemInv
  <2>1. \A j, k \in DOMAIN list : list[j] = list[k] => j = k
    BY DEF Init
  <2>2. \A u \in Users, i \in Dynamic : ~Adding(u, i)
    BY <1>1, RecordFacts DEF Adding
  <2>3. QueuedItemsLive
    BY <1>2, <1>4, AgentFacts DEF QueuedItemsLive, Init
  <2> QED
    BY <1>4, <2>1, <2>2, <2>3 DEF ItemInv
<1> QED
  BY <1>3, <1>5, <1>6, <1>7, <1>8, <1>9, <1>10 DEF Inv

-----------------------------------------------------------------------------
(* Callers outside the list and the semaphore.                                 *)

\* A caller begins or ends a call, or goes on to add its item: the list, the
\* semaphore and the kthread are not touched.
LEMMA UserMove ==
    ASSUME Inv, NEW u \in Users, NEW r \in Thread, th' = [th EXCEPT ![u] = r],
           UNCHANGED <<list, sem, shouldExit, kthread, done, rearm>>,
           th[u].pc \notin {"up", "wait", "kick", "join"}, r.pc \in {"idle", "check", "add"},
           r.pc # "idle" => kthread /\ \A v \in Users : v # u => th[v].op # "stop",
           r.op = "stop" => /\ ~rearm /\ r.round = 1
                            /\ \A v \in Users : v # u => th[v].pc = "idle",
           heap' \in [Dynamic -> {"free", "live", "broken"}],
           \A i \in Dynamic : heap'[i] = heap[i] \/ (heap[i] = "free" /\ heap'[i] = "live"),
           r.pc # "idle" /\ r.item \in Dynamic =>
              /\ heap'[r.item] = "live" /\ ~Pending(r.item) /\ th[Worker].cur # r.item
              /\ \A v \in Users : v # u => ~Adding(v, r.item),
           owe' \in [Users -> [own : SUBSET Instances, children : SUBSET Instances]],
           \A v \in Users : v # u => owe'[v] = owe[v],
           UserOK(u)', Flushes(u)' => OweOK(u)'
    PROVE  Inv'
<1>0. u \in Agents /\ Worker \in Agents /\ u # Worker
  BY AgentFacts
<1>1. /\ th' \in [Agents -> Thread] /\ th'[u] = r
      /\ \A b \in Agents : b # u => th'[b] = th[b]
  BY <1>0, ThreadUpdate DEF Inv
<1>2. /\ th'[Worker] = th[Worker]
      /\ \A v \in Users : v # u => th'[v] = th[v]
  BY <1>0, <1>1, AgentFacts
<1>3. \A x : Pending(x)' <=> Pending(x)
  BY DEF Pending
<1>4. TypeOK'
  BY <1>1 DEF Inv, TypeOK
<1>5. ShapeInv'
  BY <1>2 DEF Inv, ShapeInv, UserOK, WorkerOK, Flushes
<1>6. (Joining' <=> Joining) /\ (Exiting' <=> Exiting)
  BY <1>1, <1>2 DEF Joining, Exiting
<1>7. LifeInv'
  BY <1>1, <1>2, <1>6 DEF Inv, LifeInv, AllIdle, ShapeInv, UserOK
<1>8. SemCounts'
  <2>1. Raising' = Raising
    BY <1>1 DEF Raising
  <2>2. ExitTokens' = ExitTokens
    BY <1>2, <1>6 DEF ExitTokens, Joining
  <2> QED
    BY <1>2, <2>1, <2>2 DEF Inv, SemCounts
<1>9. StopInv'
  <2>1. ASSUME th'[u].op = "stop" PROVE StopOK(u)'
    <3>1. ~done[u] /\ th[Worker].cur # u
      BY DEF Inv, FlushInv, FlushOK, InFlight
    <3> QED
      BY <1>1, <1>2, <2>1, <3>1 DEF StopOK
  <2>2. ASSUME NEW v \in Users, v # u, th'[v].op = "stop" PROVE StopOK(v)'
    BY <1>2, <2>2 DEF Inv, StopInv, StopOK
  <2> QED
    BY <2>1, <2>2 DEF StopInv
<1>10. FlushInv'
  <2>1. FlushOK(u)'
    BY <1>1, <1>2, <1>3 DEF Inv, FlushInv, FlushOK, InFlight
  <2>2. ASSUME NEW v \in Users, v # u PROVE FlushOK(v)'
    BY <1>2, <1>3, <2>2 DEF Inv, FlushInv, FlushOK, InFlight, Flushes
  <2> QED
    BY <2>1, <2>2 DEF FlushInv
<1>11. ItemInv'
  <2>1. \A i \in Dynamic : Adding(u, i)' => r.pc # "idle" /\ r.item = i
    BY <1>1 DEF Adding
  <2>2. \A v \in Users : \A i : v # u => (Adding(v, i)' <=> Adding(v, i))
    BY <1>2 DEF Adding
  <2>3. \A v \in Users, i \in Dynamic : Adding(v, i)' =>
           /\ heap'[i] = "live" /\ ~Pending(i) /\ th[Worker].cur # i
           /\ \A x \in Users : Adding(x, i)' => x = v
    BY <2>1, <2>2 DEF Inv, ItemInv
  <2>4. QueuedItemsLive'
    BY <1>2, <1>3 DEF Inv, ItemInv, QueuedItemsLive
  <2> QED
    BY <1>2, <1>3, <2>3, <2>4 DEF Inv, ItemInv
<1>12. OweInv'
  <2>1. ASSUME NEW v \in Users, v # u, Flushes(v)' PROVE OweOK(v)'
    BY <1>2, <1>3, <2>1 DEF Inv, OweInv, OweOK, Accounted, BeforeOwn, InFlight, Flushes
  <2> QED
    BY <2>1 DEF OweInv
<1> QED
  BY <1>4, <1>5, <1>7, <1>8, <1>9, <1>10, <1>11, <1>12 DEF Inv

LEMMA ScheduleInv ==
    ASSUME Inv, NEW u \in Users, NEW i \in Items, Schedule(u, i) \/ EnqueueWork(u, i)
    PROVE  Inv'
<1> DEFINE r == [Idle EXCEPT !.pc = "check", !.item = i]
<1>1. /\ r \in Thread /\ r.pc = "check" /\ r.op = "sched" /\ r.item = i /\ r.round = 1
  BY AgentFacts DEF Idle, Thread, PCs
<1>2. th' = [th EXCEPT ![u] = r] /\ Open /\ th[u].pc = "idle" /\ owe' = owe
      /\ UNCHANGED <<list, sem, shouldExit, kthread, done, rearm>>
  BY DEF Schedule, EnqueueWork
<1> HIDE DEF r
<1>3. th'[u] = r
  BY <1>1, <1>2, ThreadUpdate, AgentFacts DEF Inv
<1>4. kthread /\ \A v \in Users : th[v].op # "stop"
  BY <1>2, RecordFacts DEF Open, Stopping, Inv, ShapeInv, UserOK
<1>5. /\ heap' \in [Dynamic -> {"free", "live", "broken"}]
      /\ \A d \in Dynamic : heap'[d] = heap[d] \/ (heap[d] = "free" /\ heap'[d] = "live")
      /\ i \in Dynamic => heap'[i] = "live" /\ heap[i] = "free"
  BY DEF Schedule, EnqueueWork, Inv, TypeOK
<1>6. i \in Dynamic => /\ ~Pending(i) /\ th[Worker].cur # i
                       /\ \A v \in Users : ~Adding(v, i)
  BY <1>5 DEF Inv, ItemInv, QueuedItemsLive
<1>7. UserOK(u)' /\ ~Flushes(u)'
  BY <1>1, <1>3 DEF UserOK, Flushes
<1>8. owe' \in [Users -> [own : SUBSET Instances, children : SUBSET Instances]]
  BY <1>2 DEF Inv, TypeOK
<1> QED
  BY <1>1, <1>2, <1>4, <1>5, <1>6, <1>7, <1>8, UserMove

\* What a flush that begins now promises is in the list or in the worker's hands.
LEMMA OweNowFacts ==
    /\ OweNow \in [own : SUBSET Instances, children : SUBSET Instances]
    /\ OweNow.children = {}
    /\ Accounted(OweNow.own) /\ Accounted(OweNow.children)
  BY DEF OweNow, Instances, Accounted, Queued, Running, Pending

\* The first step of a flush, or of a stop.
LEMMA FlushBegins ==
    ASSUME Inv, NEW u \in Users, NEW r \in Thread, th[u].pc = "idle", kthread,
           \A v \in Users : th[v].op # "stop",
           r.op = "flush" \/ (r.op = "stop" /\ ~rearm /\ AllIdle),
           r.pc = "check" /\ r.item = u /\ r.round = 1,
           th' = [th EXCEPT ![u] = r],
           owe' = [owe EXCEPT ![u] = OweNow],
           UNCHANGED <<list, sem, shouldExit, kthread, done, rearm, heap>>
    PROVE  Inv'
<1>3. th'[u] = r /\ th'[Worker] = th[Worker]
  BY ThreadUpdate, AgentFacts DEF Inv
<1>4. /\ owe' \in [Users -> [own : SUBSET Instances, children : SUBSET Instances]]
      /\ owe'[u] = OweNow
      /\ \A v \in Users : v # u => owe'[v] = owe[v]
  BY OweNowFacts DEF Inv, TypeOK
<1>5. UserOK(u)'
  BY <1>3 DEF UserOK, Flushes
<1>6. OweOK(u)'
  <2>1. Accounted(owe[u].own)' /\ Accounted(owe[u].children)'
    BY <1>3, <1>4, OweNowFacts DEF Accounted, Pending
  <2> QED
    BY <1>3, <2>1 DEF OweOK, InFlight, Accounted
<1>7. heap \in [Dynamic -> {"free", "live", "broken"}]
  BY DEF Inv, TypeOK
<1>8. r.item \notin Dynamic
  BY AgentFacts
<1> QED
  BY <1>4, <1>5, <1>6, <1>7, <1>8, UserMove DEF AllIdle

LEMMA FlushStopInv ==
    ASSUME Inv, NEW u \in Users, Flush(u) \/ Stop(u)
    PROVE  Inv' \/ UNCHANGED vars
<1> DEFINE r(op) == [Idle EXCEPT !.pc = "check", !.op = op, !.item = u]
<1>1. \A op \in {"flush", "stop"} :
         /\ r(op) \in Thread /\ r(op).op = op
         /\ r(op).pc = "check" /\ r(op).item = u /\ r(op).round = 1
  BY AgentFacts DEF Idle, Thread, PCs
<1>2. CASE Flush(u)
  <2>1. \A v \in Users : th[v].op # "stop"
    BY <1>2, RecordFacts DEF Flush, Open, Stopping, Inv, ShapeInv, UserOK
  <2>2. th' = [th EXCEPT ![u] = r("flush")] /\ kthread /\ th[u].pc = "idle"
        /\ owe' = [owe EXCEPT ![u] = OweNow]
        /\ UNCHANGED <<list, sem, shouldExit, kthread, done, rearm, heap>>
    BY <1>2 DEF Flush, Open
  <2> HIDE DEF r
  <2> QED
    BY <1>1, <2>1, <2>2, FlushBegins
<1>3. CASE Stop(u) /\ kthread
  <2>1. \A v \in Users : th[v].op # "stop"
    BY <1>3, RecordFacts DEF Stop, AllIdle, Inv, ShapeInv, UserOK
  <2>2. th' = [th EXCEPT ![u] = r("stop")] /\ ~rearm /\ AllIdle /\ th[u].pc = "idle"
        /\ owe' = [owe EXCEPT ![u] = OweNow]
        /\ UNCHANGED <<list, sem, shouldExit, kthread, done, rearm, heap>>
    BY <1>3 DEF Stop, AllIdle
  <2> HIDE DEF r
  <2> QED
    BY <1>1, <1>3, <2>1, <2>2, FlushBegins
<1>4. CASE Stop(u) /\ ~kthread
  BY <1>4 DEF Stop, vars
<1> QED
  BY <1>2, <1>3, <1>4

LEMMA FlushReturnInv ==
    ASSUME Inv, NEW u \in Users, FlushReturn(u)
    PROVE  Inv'
<1>1. th'[u] = Idle
  BY RecordFacts, ThreadUpdate, AgentFacts DEF Inv, FlushReturn
<1>2. OweNothing \in [own : SUBSET Instances, children : SUBSET Instances]
  BY DEF OweNothing
<1>3. /\ owe' \in [Users -> [own : SUBSET Instances, children : SUBSET Instances]]
      /\ \A v \in Users : v # u => owe'[v] = owe[v]
  BY <1>2 DEF Inv, TypeOK, FlushReturn
<1>4. UserOK(u)' /\ ~Flushes(u)'
  BY <1>1, RecordFacts DEF UserOK, Flushes
<1>5. heap \in [Dynamic -> {"free", "live", "broken"}]
  BY DEF Inv, TypeOK
<1> QED
  BY <1>3, <1>4, <1>5, RecordFacts, UserMove DEF FlushReturn

\* A caller never finds the exit flag set: stop does not begin before it is done.
LEMMA NotRefused ==
    ASSUME Inv, NEW a \in Agents, th[a].pc \in {"check", "add"}
    PROVE  ~shouldExit /\ kthread
<1>1. CASE a \in Users
  <2>1. kthread
    BY <1>1 DEF Inv, LifeInv, AllIdle
  <2>2. \A u \in Users : th[u].pc \notin {"kick", "join"}
    <3> SUFFICES ASSUME NEW u \in Users, th[u].pc \in {"kick", "join"} PROVE FALSE
      OBVIOUS
    <3>1. th[u].op = "stop"
      BY DEF Inv, ShapeInv, UserOK
    <3>2. a = u
      BY <1>1, <3>1 DEF Inv, LifeInv
    <3> QED
      BY <3>2
  <2> QED
    BY <2>1, <2>2 DEF Inv, LifeInv, Exiting
<1>2. CASE a = Worker
  <2>1. kthread
    BY <1>2 DEF Inv, LifeInv
  <2>2. ASSUME NEW u \in Users, th[u].pc \in {"kick", "join"} PROVE FALSE
    BY <1>2, <2>2 DEF Inv, ShapeInv, UserOK, StopInv, StopOK
  <2> QED
    BY <2>1, <2>2 DEF Inv, LifeInv, Exiting
<1> QED
  BY <1>1, <1>2 DEF Agents

LEMMA CheckExitUserInv ==
    ASSUME Inv, NEW u \in Users, CheckExit(u)
    PROVE  Inv'
<1>0. u \in Agents
  BY AgentFacts
<1>1. Goto(u, "add") /\ owe' = owe /\ heap' = heap /\ th[u].pc = "check"
      /\ UNCHANGED <<list, sem, shouldExit, kthread, done, rearm>>
  BY <1>0, NotRefused DEF CheckExit
<1>2. PICK r \in Thread :
         /\ th' = [th EXCEPT ![u] = r] /\ r.pc = "add"
         /\ r.op = th[u].op /\ r.item = th[u].item /\ r.round = th[u].round
  BY <1>0, <1>1, GotoFields DEF Inv, PCs
<1>3. th'[u] = r /\ th'[Worker] = th[Worker]
  BY <1>0, <1>2, ThreadUpdate, AgentFacts DEF Inv
<1>4. UserOK(u)' /\ (Flushes(u)' <=> Flushes(u))
  BY <1>1, <1>2, <1>3 DEF UserOK, Flushes, Inv, ShapeInv
<1>5. Flushes(u) => OweOK(u)'
  BY <1>1, <1>2, <1>3 DEF Inv, OweInv, OweOK, Accounted, Pending, InFlight, ShapeInv, UserOK
<1>6. kthread /\ \A v \in Users : v # u => th[v].op # "stop"
  BY <1>0, <1>1, NotRefused DEF Inv, LifeInv
<1>7. r.op = "stop" => ~rearm /\ r.round = 1 /\ \A v \in Users : v # u => th[v].pc = "idle"
  <2>1. r.round = 1
    BY <1>1, <1>2 DEF Inv, ShapeInv, UserOK
  <2>2. th[u].op = "stop" => ~rearm /\ \A v \in Users : v # u => th[v].pc = "idle"
    BY DEF Inv, LifeInv
  <2> QED
    BY <1>2, <2>1, <2>2
<1>8. r.item \in Dynamic =>
         /\ heap'[r.item] = "live" /\ ~Pending(r.item) /\ th[Worker].cur # r.item
         /\ \A v \in Users : v # u => ~Adding(v, r.item)
  <2>1. Adding(u, r.item)
    BY <1>1, <1>2 DEF Adding
  <2> QED
    BY <1>1, <2>1 DEF Inv, ItemInv
<1>9. /\ heap' \in [Dynamic -> {"free", "live", "broken"}]
      /\ owe' \in [Users -> [own : SUBSET Instances, children : SUBSET Instances]]
  BY <1>1 DEF Inv, TypeOK
<1> QED
  BY <1>1, <1>2, <1>4, <1>5, <1>6, <1>7, <1>8, <1>9, UserMove

-----------------------------------------------------------------------------
(* The life of the queue: init, and the rest of flush and stop.                *)

LEMMA InitQueueInv ==
    ASSUME Inv, nv_kthread_q_init
    PROVE  Inv'
<1>0. AllIdle /\ ~kthread /\ th[Worker].pc = "gone" /\ th[Worker].cur = NoItem
      /\ th[Worker] \in Thread
  BY AgentFacts DEF nv_kthread_q_init, Inv, LifeInv, ShapeInv, WorkerOK, Waiting, TypeOK
<1>1. /\ th' \in [Agents -> Thread]
      /\ \A u \in Users : th'[u] = th[u]
      /\ th'[Worker].pc \in {"down", "gone"} /\ th'[Worker].cur = NoItem
      /\ th'[Worker].op = "main"
      /\ th'[Worker].pc = "gone" => ~kthread'
      /\ th'[Worker].pc # "gone" => kthread'
  <2>1. CASE th' = th /\ kthread' = FALSE
    BY <1>0, <2>1 DEF Inv, TypeOK, ShapeInv, WorkerOK
  <2>2. CASE kthread' = TRUE /\ th' = [th EXCEPT ![Worker] = MainLoop]
    <3>1. th'[Worker] = MainLoop /\ th' \in [Agents -> Thread]
      BY <2>2, RecordFacts, ThreadUpdate, AgentFacts DEF Inv
    <3>2. \A u \in Users : th'[u] = th[u]
      BY <2>2, RecordFacts, ThreadUpdate, AgentFacts DEF Inv
    <3> QED
      BY <2>2, <3>1, <3>2, RecordFacts
  <2> QED
    BY <2>1, <2>2 DEF nv_kthread_q_init
<1>2. \A u \in Users : th[u] = Idle /\ th'[u] = Idle
  BY <1>0, <1>1 DEF AllIdle, Inv, ShapeInv, UserOK
<1>3. list' = << >> /\ sem' = 0 /\ shouldExit' = FALSE /\ rearm' = TRUE
      /\ done' = done /\ heap' = heap /\ owe' = owe /\ kthread' \in BOOLEAN
  BY DEF nv_kthread_q_init
<1>4. \A x : ~Pending(x)'
  BY <1>3 DEF Pending
<1>5. TypeOK'
  BY <1>1, <1>3, EmptySeq DEF Inv, TypeOK
<1>6. ShapeInv'
  BY <1>1, <1>2, RecordFacts DEF ShapeInv, UserOK, WorkerOK, Flushes, Waiting, Spawning
<1>7. LifeInv'
  BY <1>1, <1>2, <1>3, RecordFacts DEF LifeInv, AllIdle, Exiting
<1>8. SemCounts'
  <2>1. Raising' = {}
    BY <1>1, <1>2, RecordFacts DEF Raising, Agents
  <2>2. Cardinality(Raising)' = 0
    BY <2>1, FS_EmptySet
  <2>3. Len(list') = 0 /\ sem' = 0 /\ ExitTokens' = 0
    BY <1>3 DEF ExitTokens
  <2> QED
    BY <1>1, <2>2, <2>3 DEF SemCounts
<1>9. StopInv' /\ OweInv'
  BY <1>2, RecordFacts DEF StopInv, OweInv, Flushes
<1>10. FlushInv'
  <2>1. ASSUME NEW u \in Users PROVE ~done[u]
    BY <1>2, RecordFacts DEF Inv, FlushInv, FlushOK, InFlight
  <2> QED
    BY <1>1, <1>2, <1>3, <1>4, <2>1, RecordFacts, AgentFacts DEF FlushInv, FlushOK, InFlight, Flushes
<1>11. ItemInv'
  <2>1. \A j, k \in DOMAIN list' : list'[j] = list'[k] => j = k
    BY <1>3
  <2>2. \A u \in Users, i \in Dynamic : ~Adding(u, i)'
    BY <1>2, RecordFacts DEF Adding
  <2>3. QueuedItemsLive'
    BY <1>1, <1>3, <1>4, AgentFacts DEF QueuedItemsLive, Inv, ItemInv
  <2> QED
    BY <1>4, <2>1, <2>2, <2>3 DEF ItemInv
<1> QED
  BY <1>5, <1>6, <1>7, <1>8, <1>9, <1>10, <1>11 DEF Inv

\* The invariant depends on rearm only through a stop, which wants it FALSE.
LEMMA RearmStep ==
    ASSUME Inv, rearm' \in BOOLEAN, rearm' => rearm,
           UNCHANGED <<list, sem, shouldExit, kthread, th, done, heap, owe>>
    PROVE  Inv'
<1>1. TypeOK'
  BY DEF Inv, TypeOK
<1>2. ShapeInv'
  BY DEF Inv, ShapeInv, UserOK, WorkerOK, Flushes
<1>3. LifeInv'
  BY DEF Inv, LifeInv, AllIdle, Joining, Exiting
<1>4. SemCounts'
  BY DEF Inv, SemCounts, Raising, ExitTokens
<1>5. StopInv'
  BY DEF Inv, StopInv, StopOK
<1>6. FlushInv'
  BY DEF Inv, FlushInv, FlushOK, InFlight, Flushes, Pending
<1>7. ItemInv'
  BY DEF Inv, ItemInv, Adding, QueuedItemsLive, Pending
<1>8. OweInv'
  BY DEF Inv, OweInv, OweOK, Accounted, BeforeOwn, InFlight, Flushes, Pending
<1> QED
  BY <1>1, <1>2, <1>3, <1>4, <1>5, <1>6, <1>7, <1>8 DEF Inv

\* A stop whose second flush is over finds the worker asleep and nothing to run.
LEMMA StopAlone ==
    ASSUME Inv, NEW u \in Users, th[u].op = "stop", th[u].pc \notin {"up", "join", "kick"},
           list = << >>, th[Worker].cur = NoItem
    PROVE  th[Worker].pc = "down"
<1>1. \A v \in Users : v # u => th[v] = Idle
  BY DEF Inv, LifeInv, ShapeInv, UserOK
<1>2. ~Joining /\ kthread
  BY <1>1, RecordFacts DEF Joining, Inv, LifeInv
<1>3. th[Worker].pc \in Waiting
  BY DEF Inv, ShapeInv, WorkerOK
<1>4. ExitTokens = 0 /\ Len(list) = 0
  BY <1>2, ListFacts DEF ExitTokens, Joining, Inv
<1>5. sem \in Nat
  BY DEF Inv, TypeOK
<1>6. th[Worker].pc \notin {"look", "consume"}
  BY <1>4, <1>5, RaisingFinite DEF Inv, SemCounts
<1> QED
  BY <1>2, <1>3, <1>6 DEF Inv, LifeInv, Waiting

LEMMA WaitedInv ==
    ASSUME Inv, NEW u \in Users, Waited(u)
    PROVE  Inv'
<1>0. u \in Agents /\ Worker \in Agents /\ u # Worker
  BY AgentFacts
<1>1. th[u].pc = "wait" /\ done[u] /\ done' = [done EXCEPT ![u] = FALSE]
      /\ UNCHANGED <<list, sem, shouldExit, kthread, rearm, heap, owe>>
  BY DEF Waited
<1>2. th[u] \in Thread
  BY <1>0 DEF Inv, TypeOK
<1>3. PICK r \in Thread :
         /\ th' = [th EXCEPT ![u] = r] /\ r.op = th[u].op /\ r.item = th[u].item
         /\ \/ th[u].round = 1 /\ r.pc = "add" /\ r.round = 2
            \/ th[u].round = 2 /\ r.pc = "flushed" /\ r.round = 2
  <2>1. CASE th[u].round = 1
    <3> DEFINE r == [th[u] EXCEPT !.pc = "add", !.round = 2]
    <3>1. /\ r \in Thread /\ r.op = th[u].op /\ r.item = th[u].item
          /\ r.pc = "add" /\ r.round = 2
      BY <1>2 DEF Thread, PCs
    <3>2. th' = [th EXCEPT ![u] = r]
      BY <2>1 DEF Waited
    <3> HIDE DEF r
    <3> QED
      BY <2>1, <3>1, <3>2
  <2>2. CASE th[u].round # 1
    <3>1. th[u].round = 2
      BY <1>2, <2>2 DEF Thread
    <3>2. Goto(u, "flushed")
      BY <2>2 DEF Waited
    <3> QED
      BY <1>0, <3>1, <3>2, GotoFields DEF Inv, PCs
  <2> QED
    BY <2>1, <2>2
<1>4. /\ th' \in [Agents -> Thread] /\ th'[u] = r
      /\ \A b \in Agents : b # u => th'[b] = th[b]
  BY <1>0, <1>3, ThreadUpdate DEF Inv
<1>5. th'[Worker] = th[Worker] /\ \A v \in Users : v # u => th'[v] = th[v]
  BY <1>0, <1>4, AgentFacts
<1>6. /\ done' \in [Users -> BOOLEAN] /\ ~done'[u]
      /\ \A v \in Users : v # u => done'[v] = done[v]
  BY <1>1 DEF Inv, TypeOK
<1>7. \A x : Pending(x)' <=> Pending(x)
  BY <1>1 DEF Pending
<1>8. Flushes(u) /\ InFlight(u) /\ ~Pending(u) /\ th[Worker].cur # u
  BY <1>1 DEF Inv, ShapeInv, UserOK, FlushInv, FlushOK, InFlight
<1>9. TypeOK'
  BY <1>1, <1>4, <1>6 DEF Inv, TypeOK
<1>10. ShapeInv'
  <2>1. UserOK(u)'
    BY <1>3, <1>4, <1>8 DEF Inv, ShapeInv, UserOK, Flushes
  <2> QED
    BY <1>5, <2>1 DEF Inv, ShapeInv, UserOK, WorkerOK, Flushes
<1>11. (Joining' <=> Joining) /\ (Exiting' <=> Exiting)
  BY <1>1, <1>3, <1>4, <1>5 DEF Joining, Exiting
<1>12. LifeInv'
  BY <1>1, <1>3, <1>4, <1>5, <1>11 DEF Inv, LifeInv, AllIdle
<1>13. SemCounts'
  <2>1. Raising' = Raising
    BY <1>1, <1>3, <1>4 DEF Raising
  <2>2. ExitTokens' = ExitTokens
    BY <1>1, <1>5, <1>11 DEF ExitTokens, Joining
  <2> QED
    BY <1>1, <1>5, <2>1, <2>2 DEF Inv, SemCounts
<1>14. StopInv'
  <2>1. ASSUME th[u].op = "stop" PROVE StopOK(u)'
    <3>1. StopOK(u)
      BY <2>1 DEF Inv, StopInv
    <3>2. th[Worker].pc \notin Spawning
      BY <1>1, <3>1 DEF StopOK
    <3>3. ASSUME r.pc = "flushed" PROVE list = << >> /\ th[Worker].pc = "down"
      <4>1. th[u].round = 2
        BY <1>3, <3>3
      <4>2. list = << >>
        <5> SUFFICES ASSUME list # << >> PROVE FALSE
          OBVIOUS
        <5>1. list[Len(list)] = u
          BY <1>1, <3>1, <4>1 DEF StopOK
        <5>2. Len(list) \in DOMAIN list
          BY ListFacts DEF Inv
        <5> QED
          BY <1>8, <5>1, <5>2 DEF Pending
      <4>3. th[Worker].cur = NoItem
        BY <1>1, <3>1, <4>1 DEF StopOK
      <4> QED
        BY <1>1, <2>1, <4>2, <4>3, StopAlone
    <3> QED
      BY <1>1, <1>3, <1>4, <1>5, <3>2, <3>3 DEF StopOK
  <2>2. ASSUME NEW v \in Users, v # u, th'[v].op = "stop" PROVE StopOK(v)'
    BY <1>1, <1>5, <1>6, <2>2 DEF Inv, StopInv, StopOK
  <2> QED
    BY <1>3, <1>4, <2>1, <2>2 DEF StopInv
<1>15. FlushInv'
  <2>1. FlushOK(u)'
    BY <1>3, <1>4, <1>5, <1>6, <1>7, <1>8 DEF FlushOK, InFlight
  <2>2. ASSUME NEW v \in Users, v # u PROVE FlushOK(v)'
    BY <1>5, <1>6, <1>7, <2>2 DEF Inv, FlushInv, FlushOK, InFlight, Flushes
  <2> QED
    BY <2>1, <2>2 DEF FlushInv
<1>16. ItemInv'
  <2>1. r.item \notin Dynamic
    BY <1>3, <1>8, AgentFacts DEF Inv, ShapeInv, UserOK
  <2>2. \A v \in Users, i \in Dynamic : Adding(v, i)' => v # u /\ Adding(v, i)
    BY <1>4, <1>5, <2>1 DEF Adding
  <2>3. QueuedItemsLive'
    BY <1>1, <1>5, <1>7 DEF Inv, ItemInv, QueuedItemsLive
  <2> QED
    BY <1>1, <1>5, <1>7, <2>2, <2>3 DEF Inv, ItemInv
<1>17. OweInv'
  <2>1. OweOK(u)'
    <3>1. OweOK(u)
      BY <1>8 DEF Inv, OweInv
    <3>2. owe[u].own = {} /\ (th[u].round = 2 => owe[u].children = {})
      BY <1>3, <1>8, <3>1 DEF OweOK
    <3>3. th[u].round = 2 => owe[u] = OweNothing
      BY <3>2 DEF Inv, TypeOK, OweNothing
    <3> QED
      BY <1>1, <1>3, <1>4, <1>5, <1>7, <3>1, <3>2, <3>3 DEF OweOK, Accounted, InFlight
  <2>2. ASSUME NEW v \in Users, v # u, Flushes(v)' PROVE OweOK(v)'
    BY <1>1, <1>5, <1>7, <2>2 DEF Inv, OweInv, OweOK, Accounted, BeforeOwn, InFlight, Flushes
  <2> QED
    BY <2>1, <2>2 DEF OweInv
<1> QED
  BY <1>9, <1>10, <1>12, <1>13, <1>14, <1>15, <1>16, <1>17 DEF Inv

\* A stop goes on after its flush; nobody else is in a call.
LEMMA StopMove ==
    ASSUME Inv, NEW u \in Users, NEW r \in Thread, th' = [th EXCEPT ![u] = r],
           th[u].op = "stop", th[u].pc \in {"flushed", "kick", "join"},
           \/ r = Idle
           \/ r.op = "stop" /\ r.pc \in {"kick", "join"} /\ r.item = th[u].item,
           sem' \in Nat, shouldExit' \in BOOLEAN, kthread' \in BOOLEAN,
           owe' = owe \/ owe' = [owe EXCEPT ![u] = OweNothing],
           UNCHANGED <<list, done, rearm, heap>>,
           LifeInv', SemCounts', r.op = "stop" => StopOK(u)'
    PROVE  Inv'
<1>0. u \in Agents /\ Worker \in Agents /\ u # Worker
  BY AgentFacts
<1>1. /\ th' \in [Agents -> Thread] /\ th'[u] = r /\ th'[Worker] = th[Worker]
      /\ \A v \in Users : v # u => th'[v] = th[v]
  BY <1>0, ThreadUpdate, AgentFacts DEF Inv
<1>2. \A v \in Users : v # u => th[v] = Idle
  BY DEF Inv, LifeInv, ShapeInv, UserOK
<1>3. Flushes(u) /\ owe[u] = OweNothing /\ th[u].item = u
  BY DEF Flushes, Inv, OweInv, OweOK, ShapeInv, UserOK
<1>4. /\ owe' \in [Users -> [own : SUBSET Instances, children : SUBSET Instances]]
      /\ owe'[u] = OweNothing
  BY <1>3 DEF Inv, TypeOK, OweNothing
<1>5. \A x : Pending(x)' <=> Pending(x)
  BY DEF Pending
<1>6. r.op # "stop" => r = Idle
  OBVIOUS
<1>7. TypeOK'
  BY <1>1, <1>4 DEF Inv, TypeOK
<1>8. ShapeInv'
  <2>1. UserOK(u)'
    BY <1>1, <1>3, <1>6, RecordFacts DEF UserOK, Flushes
  <2> QED
    BY <1>1, <2>1 DEF Inv, ShapeInv, UserOK, WorkerOK, Flushes
<1>9. StopInv'
  BY <1>1, <1>2, RecordFacts DEF StopInv
<1>10. FlushInv'
  <2>1. FlushOK(u)'
    BY <1>1, <1>5, RecordFacts DEF Inv, FlushInv, FlushOK, InFlight
  <2>2. ASSUME NEW v \in Users, v # u PROVE FlushOK(v)'
    BY <1>1, <1>5, <2>2 DEF Inv, FlushInv, FlushOK, InFlight, Flushes
  <2> QED
    BY <2>1, <2>2 DEF FlushInv
<1>11. ItemInv'
  <2>1. \A v \in Users, i \in Dynamic : ~Adding(v, i)'
    BY <1>1, <1>2, RecordFacts DEF Adding
  <2>2. QueuedItemsLive'
    BY <1>1, <1>5 DEF Inv, ItemInv, QueuedItemsLive
  <2> QED
    BY <1>1, <1>5, <2>1, <2>2 DEF Inv, ItemInv
<1>12. OweInv'
  <2>1. ASSUME Flushes(u)' PROVE OweOK(u)'
    <3>1. r.pc \in {"kick", "join"}
      BY <1>1, <2>1, RecordFacts DEF Flushes
    <3>2. owe'[u].own = {} /\ owe'[u].children = {}
      BY <1>4 DEF OweNothing
    <3> QED
      BY <1>1, <1>4, <3>1, <3>2 DEF OweOK, Accounted, InFlight
  <2>2. ASSUME NEW v \in Users, v # u PROVE ~Flushes(v)'
    BY <1>1, <1>2, <2>2, RecordFacts DEF Flushes
  <2> QED
    BY <2>1, <2>2 DEF OweInv
<1> QED
  BY <1>7, <1>8, <1>9, <1>10, <1>11, <1>12 DEF Inv

LEMMA SetExitKickInv ==
    ASSUME Inv, NEW u \in Users, SetExit(u) \/ Kick(u)
    PROVE  Inv'
<1>0. u \in Agents /\ Worker \in Agents /\ u # Worker
  BY AgentFacts
<1>1. th[u].op = "stop" /\ th[u].pc \in {"flushed", "kick"} /\ owe' = owe
      /\ UNCHANGED <<list, kthread, done, rearm, heap>>
  BY DEF SetExit, Kick, Inv, ShapeInv, UserOK
<1>2. PICK r \in Thread :
         /\ th' = [th EXCEPT ![u] = r]
         /\ r.op = th[u].op /\ r.item = th[u].item /\ r.round = th[u].round
         /\ SetExit(u) => r.pc = "kick"
         /\ Kick(u) => r.pc = "join"
  <2>1. CASE SetExit(u)
    <3>1. ~Kick(u) /\ Goto(u, "kick")
      BY <2>1 DEF SetExit, Kick
    <3> QED
      BY <1>0, <3>1, GotoFields DEF Inv, PCs
  <2>2. CASE Kick(u)
    <3>1. ~SetExit(u) /\ Goto(u, "join")
      BY <2>2 DEF SetExit, Kick
    <3> QED
      BY <1>0, <3>1, GotoFields DEF Inv, PCs
  <2> QED
    BY <2>1, <2>2
<1>3. /\ th' \in [Agents -> Thread] /\ th'[u] = r /\ th'[Worker] = th[Worker]
      /\ \A v \in Users : v # u => th'[v] = th[v]
  BY <1>0, <1>2, ThreadUpdate, AgentFacts DEF Inv
<1>4. \A v \in Users : v # u => th[v] = Idle
  BY <1>1 DEF Inv, LifeInv, ShapeInv, UserOK
<1>5. list = << >> /\ th[Worker].pc = "down" /\ kthread /\ StopOK(u)
  BY <1>1 DEF Inv, StopInv, StopOK, LifeInv
<1>6. shouldExit' /\ shouldExit' \in BOOLEAN
  <2>1. CASE SetExit(u)
    BY <2>1 DEF SetExit
  <2>2. CASE Kick(u)
    <3>1. Exiting
      BY <2>2 DEF Exiting, Kick
    <3> QED
      BY <1>5, <2>2, <3>1 DEF Kick, Inv, LifeInv, TypeOK
  <2> QED
    BY <2>1, <2>2
<1>7. Exiting'
  BY <1>2, <1>3 DEF Exiting
<1>8. LifeInv'
  BY <1>1, <1>2, <1>3, <1>4, <1>5, <1>6, <1>7, RecordFacts DEF Inv, LifeInv, AllIdle
<1>9. sem' \in Nat /\ SemCounts'
  <2>1. Raising' = Raising
    BY <1>1, <1>2, <1>3 DEF Raising
  <2>2. ExitTokens = 0
    BY <1>1, <1>4, RecordFacts DEF ExitTokens
  <2>3. CASE SetExit(u)
    <3>1. ExitTokens' = 0
      BY <1>2, <1>3, <1>4, <2>3, RecordFacts DEF ExitTokens
    <3> QED
      BY <1>1, <1>3, <2>1, <2>2, <2>3, <3>1 DEF Inv, SemCounts, SetExit, TypeOK
  <2>4. CASE Kick(u)
    <3>1. ExitTokens' = 1
      BY <1>2, <1>3, <1>5, <1>6, <2>4 DEF ExitTokens
    <3>2. sem \in Nat /\ sem' = sem + 1
      BY <2>4 DEF Kick, Inv, TypeOK
    <3> QED
      BY <1>1, <1>3, <1>5, <2>1, <2>2, <3>1, <3>2, RaisingFinite, ListFacts DEF Inv, SemCounts
  <2> QED
    BY <2>3, <2>4
<1>10. StopOK(u)'
  BY <1>1, <1>2, <1>3, <1>5 DEF StopOK, Spawning
<1>11. kthread' \in BOOLEAN
  BY <1>1 DEF Inv, TypeOK
<1> QED
  BY <1>1, <1>2, <1>6, <1>8, <1>9, <1>10, <1>11, StopMove

LEMMA JoinInv ==
    ASSUME Inv, NEW u \in Users, Join(u)
    PROVE  Inv'
<1>0. u \in Agents /\ Worker \in Agents /\ u # Worker
  BY AgentFacts
<1>1. th[u].op = "stop" /\ th[u].pc = "join" /\ th' = [th EXCEPT ![u] = Idle]
      /\ th[Worker].pc = "gone" /\ ~kthread' /\ kthread' \in BOOLEAN
      /\ owe' = [owe EXCEPT ![u] = OweNothing]
      /\ UNCHANGED <<list, sem, shouldExit, done, rearm, heap>>
  BY DEF Join, Inv, ShapeInv, UserOK
<1>2. /\ th'[u] = Idle /\ th'[Worker] = th[Worker]
      /\ \A v \in Users : v # u => th'[v] = th[v]
      /\ \A b \in Agents : b # u => th'[b] = th[b]
  BY <1>0, <1>1, RecordFacts, ThreadUpdate, AgentFacts DEF Inv
<1>3. \A v \in Users : v # u => th[v] = Idle
  BY <1>1 DEF Inv, LifeInv, ShapeInv, UserOK
<1>4. list = << >>
  BY <1>1 DEF Inv, StopInv, StopOK
<1>5. LifeInv'
  <2>1. AllIdle'
    BY <1>2, <1>3, RecordFacts DEF AllIdle
  <2>2. \A v \in Users : th'[v].op # "stop"
    BY <1>2, <1>3, RecordFacts
  <2> QED
    BY <1>1, <1>2, <1>4, <2>1, <2>2 DEF LifeInv
<1>6. SemCounts'
  <2>1. Raising' = Raising
    BY <1>1, <1>2, RecordFacts DEF Raising
  <2>2. ExitTokens = 0 /\ ExitTokens' = 0
    BY <1>1, <1>2 DEF ExitTokens
  <2> QED
    BY <1>1, <1>2, <2>1, <2>2 DEF Inv, SemCounts
<1>7. sem' \in Nat /\ shouldExit' \in BOOLEAN
  BY <1>1 DEF Inv, TypeOK
<1> QED
  BY <1>1, <1>5, <1>6, <1>7, RecordFacts, StopMove

-----------------------------------------------------------------------------
(* Adding an item, and raising the semaphore.                                  *)

\* What a successful insertion does to the list.
LEMMA Inserted ==
    ASSUME TypeOK, NEW x \in QItems, Insert(x)
    PROVE  /\ list' \in Seq(QItems) /\ Len(list') = Len(list) + 1
           /\ DOMAIN list' = 1 .. Len(list) + 1
           /\ \A j \in DOMAIN list : j \in DOMAIN list' /\ list'[j] = list[j] /\ j < Len(list) + 1
           /\ list'[Len(list) + 1] = x
           /\ \A j \in DOMAIN list' : j = Len(list) + 1 \/ j \in DOMAIN list
           /\ \A y : Pending(y)' <=> Pending(y) \/ y = x
<1>1. list \in Seq(QItems) /\ Len(list) \in Nat /\ DOMAIN list = 1 .. Len(list)
  BY ListFacts DEF TypeOK
<1>2. /\ list' \in Seq(QItems) /\ Len(list') = Len(list) + 1
      /\ \A j \in 1 .. Len(list) : list'[j] = list[j]
      /\ list'[Len(list) + 1] = x
  BY <1>1, AppendProperties DEF Insert
<1>3. DOMAIN list' = 1 .. Len(list) + 1
  BY <1>2, LenProperties
<1>4. /\ \A j \in DOMAIN list : j \in DOMAIN list' /\ list'[j] = list[j] /\ j < Len(list) + 1
      /\ \A j \in DOMAIN list' : j = Len(list) + 1 \/ j \in DOMAIN list
      /\ Len(list) + 1 \in DOMAIN list'
  BY <1>1, <1>2, <1>3
<1>5. \A y : Pending(y)' <=> Pending(y) \/ y = x
  BY <1>2, <1>4 DEF Pending
<1> QED
  BY <1>2, <1>3, <1>4, <1>5

\* The item an agent is about to add is a real one; that of a flush, or of a fresh
\* allocation, is not pending yet.
LEMMA AddedItem ==
    ASSUME Inv, NEW a \in Agents, th[a].pc = "add"
    PROVE  /\ th[a].item \in QItems
           /\ a \in Users => th[a].item = a \/ th[a].item \in Items
           /\ a = Worker => th[a].item \in Items \ Dynamic
           /\ th[a].item \in Users \/ th[a].item \in Dynamic => ~Pending(th[a].item)
<1>1. CASE a \in Users
  <2>1. th[a].item = a \/ th[a].item \in Items
    BY <1>1 DEF Inv, ShapeInv, UserOK
  <2>2. th[a].item \in Users => Flushes(a)
    BY <1>1, AgentFacts DEF Inv, ShapeInv, UserOK
  <2>3. ~Pending(a)
    BY <1>1 DEF Inv, FlushInv, FlushOK, InFlight
  <2>4. th[a].item \in Dynamic => ~Pending(th[a].item)
    BY <1>1 DEF Inv, ItemInv, Adding
  <2> QED
    BY <1>1, <2>1, <2>2, <2>3, <2>4, AgentFacts
<1>2. CASE a = Worker
  BY <1>2, AgentFacts DEF Inv, ShapeInv, WorkerOK, Spawning
<1> QED
  BY <1>1, <1>2 DEF Agents

\* The promises after an insertion.
LEMMA OweAdded ==
    ASSUME TypeOK, NEW a \in Agents, a = Worker => th[a].item \in Items,
           owe' = OweAfterAdd(a)
    PROVE  /\ owe' \in [Users -> [own : SUBSET Instances, children : SUBSET Instances]]
           /\ \A u \in Users :
                 /\ owe'[u].own = owe[u].own
                 /\ \/ owe'[u] = owe[u]
                    \/ /\ owe[u].own # {} /\ a = Worker
                       /\ owe'[u].children = owe[u].children \cup {<<th[a].item, "pending">>}
<1> SUFFICES ASSUME NEW u \in Users
             PROVE  /\ owe'[u] \in [own : SUBSET Instances, children : SUBSET Instances]
                    /\ owe'[u].own = owe[u].own
                    /\ \/ owe'[u] = owe[u]
                       \/ /\ owe[u].own # {} /\ a = Worker
                          /\ owe'[u].children = owe[u].children \cup {<<th[a].item, "pending">>}
  BY DEF OweAfterAdd
<1>1. owe[u] \in [own : SUBSET Instances, children : SUBSET Instances]
  BY DEF TypeOK
<1>2. CASE a = Worker /\ <<th[a].cur, "running">> \in owe[u].own
  <2>1. owe'[u] = [owe[u] EXCEPT !.children = @ \cup {<<th[a].item, "pending">>}]
    BY <1>2 DEF OweAfterAdd
  <2>2. <<th[a].item, "pending">> \in Instances
    BY <1>2 DEF Instances
  <2> QED
    BY <1>1, <1>2, <2>1, <2>2
<1>3. CASE ~(a = Worker /\ <<th[a].cur, "running">> \in owe[u].own)
  <2>1. owe'[u] = owe[u]
    BY <1>3 DEF OweAfterAdd
  <2> QED
    BY <1>1, <2>1
<1> QED
  BY <1>2, <1>3

LEMMA InsertInv ==
    ASSUME Inv, NEW a \in Agents, th[a].pc = "add", ~Pending(th[a].item),
           Insert(th[a].item), Goto(a, "up"), owe' = OweAfterAdd(a),
           UNCHANGED <<sem, shouldExit, kthread, done, rearm, heap>>
    PROVE  Inv'
<1> DEFINE x == th[a].item
<1>1. PICK r \in Thread :
         /\ th' = [th EXCEPT ![a] = r] /\ r.pc = "up"
         /\ r.op = th[a].op /\ r.item = x /\ r.cur = th[a].cur /\ r.round = th[a].round
  BY GotoFields DEF Inv, PCs
<1>2. /\ th' \in [Agents -> Thread] /\ th'[a] = r
      /\ \A b \in Agents : b # a => th'[b] = th[b]
  BY <1>1, ThreadUpdate DEF Inv
<1>3. /\ x \in QItems
      /\ a \in Users => x = a \/ x \in Items
      /\ a = Worker => x \in Items \ Dynamic
  BY AddedItem
<1>4. /\ list' \in Seq(QItems) /\ Len(list') = Len(list) + 1
      /\ DOMAIN list' = 1 .. Len(list) + 1
      /\ \A j \in DOMAIN list : j \in DOMAIN list' /\ list'[j] = list[j] /\ j < Len(list) + 1
      /\ list'[Len(list) + 1] = x
      /\ \A j \in DOMAIN list' : j = Len(list) + 1 \/ j \in DOMAIN list
      /\ \A y : Pending(y)' <=> Pending(y) \/ y = x
  BY <1>3, Inserted DEF Inv
<1>5. ~shouldExit /\ kthread
  BY NotRefused
<1>6. /\ owe' \in [Users -> [own : SUBSET Instances, children : SUBSET Instances]]
      /\ \A u \in Users :
            /\ owe'[u].own = owe[u].own
            /\ \/ owe'[u] = owe[u]
               \/ /\ owe[u].own # {} /\ a = Worker
                  /\ owe'[u].children = owe[u].children \cup {<<x, "pending">>}
  BY <1>3, OweAdded DEF Inv
<1>7. /\ th'[Worker].cur = th[Worker].cur /\ th'[Worker].op = th[Worker].op
      /\ th'[Worker].item = th[Worker].item
      /\ th'[Worker].pc = IF a = Worker THEN "up" ELSE th[Worker].pc
      /\ \A u \in Users : /\ th'[u].op = th[u].op /\ th'[u].item = th[u].item
                          /\ th'[u].round = th[u].round
                          /\ th'[u].pc = IF a = u THEN "up" ELSE th[u].pc
                          /\ u # a => th'[u] = th[u]
  BY <1>1, <1>2, AgentFacts
<1>8. ~Pending(x)
  OBVIOUS
<1> HIDE DEF x
<1>9. TypeOK'
  BY <1>2, <1>4, <1>6 DEF Inv, TypeOK
<1>10. ShapeInv'
  BY <1>7 DEF Inv, ShapeInv, UserOK, WorkerOK, Flushes, Spawning, Waiting
<1>11. (Joining' <=> Joining) /\ (Exiting' <=> Exiting)
  BY <1>7 DEF Joining, Exiting
<1>12. LifeInv'
  BY <1>5, <1>7, <1>11 DEF Inv, LifeInv, AllIdle
<1>13. SemCounts'
  <2>1. Raising' = Raising \cup {a} /\ a \notin Raising
    BY <1>1, <1>2 DEF Raising
  <2>2. Cardinality(Raising') = Cardinality(Raising) + 1
    BY <2>1, RaisingFinite, FS_AddElement
  <2>3. ExitTokens = 0 /\ ExitTokens' = 0
    BY <1>5 DEF ExitTokens
  <2>4. th'[Worker].pc \in {"look", "consume"} <=> th[Worker].pc \in {"look", "consume"}
    BY <1>7
  <2> QED
    BY <1>4, <2>2, <2>3, <2>4, RaisingFinite, ListFacts DEF Inv, SemCounts, TypeOK
<1>14. StopInv'
  <2> SUFFICES ASSUME NEW u \in Users, th[u].op = "stop" PROVE StopOK(u)'
    BY <1>7 DEF StopInv
  <2>1. StopOK(u) /\ \A v \in Users : v # u => th[v].pc = "idle"
    BY DEF Inv, StopInv, LifeInv
  <2>2. CASE a = u
    <3>1. ~done[u] /\ x = u
      BY <2>2 DEF x, Inv, FlushInv, FlushOK, InFlight, ShapeInv, UserOK, Flushes
    <3> QED
      BY <1>4, <1>7, <2>1, <2>2, <3>1, AgentFacts DEF StopOK
  <2>3. CASE a # u
    <3>1. a = Worker
      BY <2>1, <2>3 DEF Agents
    <3>2. th[u].round # 2 /\ ~done[u] /\ th[Worker].cur # u
          /\ th[u].pc \notin {"flushed", "kick", "join"}
      BY <2>1, <3>1 DEF StopOK, Spawning
    <3> QED
      BY <1>7, <2>3, <3>2 DEF StopOK
  <2> QED
    BY <2>2, <2>3
<1>15. FlushInv'
  <2> SUFFICES ASSUME NEW u \in Users PROVE FlushOK(u)'
    BY DEF FlushInv
  <2>1. FlushOK(u)
    BY DEF Inv, FlushInv
  <2>2. CASE x = u
    <3>1. a = u /\ Flushes(u)
      BY <1>3, <2>2, AgentFacts DEF Agents, x, Inv, ShapeInv, UserOK
    <3>2. InFlight(u)' /\ ~InFlight(u)
      BY <1>7, <3>1 DEF InFlight, Flushes
    <3> QED
      BY <1>4, <1>7, <2>1, <2>2, <3>2 DEF FlushOK
  <2>3. CASE x # u
    <3>1. InFlight(u)' <=> InFlight(u)
      <4>1. CASE a = u
        BY <1>3, <1>7, <2>3, <4>1, AgentFacts DEF InFlight, Flushes, x, Inv, ShapeInv, UserOK
      <4>2. CASE a # u
        BY <1>7, <4>2 DEF InFlight, Flushes
      <4> QED
        BY <4>1, <4>2
    <3> QED
      BY <1>4, <1>7, <2>1, <2>3, <3>1 DEF FlushOK
  <2> QED
    BY <2>2, <2>3
<1>16. ItemInv'
  <2>1. \A j, k \in DOMAIN list' : list'[j] = list'[k] => j = k
    BY <1>4, <1>8 DEF Inv, ItemInv, Pending
  <2>2. \A u \in Users : \A i : Adding(u, i)' => u # a /\ Adding(u, i)
    BY <1>7 DEF Adding
  <2>3. x \in Dynamic => a \in Users /\ Adding(a, x)
    BY <1>3 DEF Adding, Agents, x
  <2>4. \A u \in Users, i \in Dynamic : Adding(u, i)' =>
           /\ heap[i] = "live" /\ ~Pending(i) /\ th[Worker].cur # i /\ i # x
           /\ \A v \in Users : Adding(v, i)' => v = u
    BY <2>2, <2>3 DEF Inv, ItemInv
  <2>5. x \in Dynamic => heap[x] = "live" /\ th[Worker].cur # x
    BY <2>3 DEF Inv, ItemInv
  <2>6. QueuedItemsLive'
    BY <1>4, <1>7, <2>5 DEF Inv, ItemInv, QueuedItemsLive
  <2>7. \A i \in Dynamic : th'[Worker].cur = i => ~Pending(i)'
    BY <1>4, <1>7, <2>5 DEF Inv, ItemInv
  <2>8. \A u \in Users, i \in Dynamic : Adding(u, i)' =>
           /\ heap'[i] = "live" /\ ~Pending(i)' /\ th'[Worker].cur # i
           /\ \A v \in Users : Adding(v, i)' => v = u
    BY <1>4, <1>7, <2>4
  <2> QED
    BY <2>1, <2>6, <2>7, <2>8 DEF ItemInv
<1>17. OweInv'
  <2> SUFFICES ASSUME NEW u \in Users, Flushes(u) PROVE OweOK(u)'
    BY <1>7 DEF OweInv, Flushes
  <2>1. OweOK(u) /\ FlushOK(u)
    BY DEF Inv, OweInv, FlushInv
  <2>2. Accounted(owe[u].own)' /\ Accounted(owe[u].children)'
    <3>1. \A i \in Items : /\ <<i, "running">> \in owe'[u].own => th[Worker].cur = i
                           /\ <<i, "pending">> \in owe'[u].own => Pending(i)
      BY <1>6, <2>1 DEF Accounted, OweOK
    <3>2. \A i \in Items : /\ <<i, "running">> \in owe'[u].children => th[Worker].cur = i
                           /\ <<i, "pending">> \in owe'[u].children => Pending(i) \/ i = x
      <4>1. \A i : /\ <<i, "running">> # <<x, "pending">>
                   /\ <<i, "pending">> = <<x, "pending">> => i = x
        OBVIOUS
      <4>2. \A y : y \in owe'[u].children => y \in owe[u].children \/ y = <<x, "pending">>
        BY <1>6
      <4>3. \A i \in Items : /\ <<i, "running">> \in owe[u].children => th[Worker].cur = i
                             /\ <<i, "pending">> \in owe[u].children => Pending(i)
        BY <2>1 DEF Accounted, OweOK
      <4> QED
        BY <4>1, <4>2, <4>3
    <3> QED
      BY <1>4, <1>7, <3>1, <3>2 DEF Accounted
  <2>3. CASE a = u
    <3>1. x = u /\ owe'[u] = owe[u] /\ ~InFlight(u)
      BY <1>6, <2>3, AgentFacts DEF x, Inv, ShapeInv, UserOK, InFlight
    <3>2. BeforeOwn(u, owe[u].own)' /\ BeforeOwn(u, owe[u].children)'
      BY <1>4, <1>8, <3>1, AgentFacts DEF BeforeOwn, Pending
    <3>3. Pending(u)' /\ th'[u].pc = "up"
      BY <1>4, <1>7, <2>3, <3>1
    <3>4. th'[u].round = 2 => owe'[u].own = {}
      BY <1>6, <1>7, <2>1 DEF OweOK
    <3> QED
      BY <2>2, <3>2, <3>3, <3>4 DEF OweOK
  <2>4. CASE a # u
    <3>1. x # u
      BY <1>3, <2>4, AgentFacts DEF Agents
    <3>2. th'[u] = th[u] /\ (InFlight(u)' <=> InFlight(u)) /\ (Pending(u)' <=> Pending(u))
      BY <1>4, <1>7, <2>4, <3>1 DEF InFlight, Flushes
    <3>3. ASSUME NEW S, BeforeOwn(u, S), Accounted(S)
          PROVE  BeforeOwn(u, S)'
      <4>1. \A i \in Items : <<i, "pending">> \in S => i # x
        BY <1>8, <3>3 DEF Accounted
      <4> QED
        BY <1>4, <3>1, <3>3, <4>1 DEF BeforeOwn
    <3>4. th[u].round = 2 => owe'[u] = owe[u]
      BY <1>6, <2>1 DEF OweOK
    <3>5. th[u].pc \in {"flushed", "kick", "join"} => owe'[u] = owe[u]
      BY <1>6, <2>1 DEF OweOK, OweNothing
    <3>6. InFlight(u) /\ th[u].round = 1 => BeforeOwn(u, owe[u].own)'
      BY <1>6, <2>1, <3>3 DEF OweOK
    <3>7. InFlight(u) /\ th[u].round = 2 => BeforeOwn(u, owe[u].children)'
      BY <2>1, <3>3, <3>4 DEF OweOK
    <3>8. /\ th[u].round = 2 => owe'[u].own = {}
          /\ InFlight(u) /\ th[u].round = 1 /\ ~Pending(u) => owe'[u].own = {}
          /\ InFlight(u) /\ th[u].round = 2 /\ ~Pending(u) => owe'[u].children = {}
          /\ th[u].pc \in {"flushed", "kick", "join"} => owe'[u] = OweNothing
      BY <1>6, <2>1, <3>4, <3>5 DEF OweOK
    <3> QED
      BY <2>2, <3>2, <3>6, <3>7, <3>8 DEF OweOK
  <2> QED
    BY <2>3, <2>4
<1> QED
  BY <1>9, <1>10, <1>12, <1>13, <1>14, <1>15, <1>16, <1>17 DEF Inv

\* A caller raises the semaphore and returns, or goes on to wait for its item.
LEMMA UpUserInv ==
    ASSUME Inv, NEW u \in Users, Up(u)
    PROVE  Inv'
<1>0. u \in Agents /\ Worker \in Agents /\ u # Worker
  BY AgentFacts
<1>1. th[u].pc = "up" /\ sem' = sem + 1
      /\ UNCHANGED <<list, shouldExit, kthread, done, rearm, heap, owe>>
  BY <1>0 DEF Up, EndCall
<1>2. PICK r \in Thread :
         /\ th' = [th EXCEPT ![u] = r]
         /\ \/ ~Flushes(u) /\ r = Idle
            \/ /\ Flushes(u) /\ r.pc = "wait"
               /\ r.op = th[u].op /\ r.item = th[u].item /\ r.round = th[u].round
  <2>1. CASE Flushes(u)
    <3>1. Goto(u, "wait")
      BY <2>1 DEF Up, Flushes
    <3> QED
      BY <1>0, <2>1, <3>1, GotoFields DEF Inv, PCs
  <2>2. CASE ~Flushes(u)
    BY <1>0, <2>2, RecordFacts DEF Up, Flushes, EndCall
  <2> QED
    BY <2>1, <2>2
<1>3. /\ th' \in [Agents -> Thread] /\ th'[u] = r /\ th'[Worker] = th[Worker]
      /\ \A v \in Users : v # u => th'[v] = th[v]
      /\ \A b \in Agents : b # u => th'[b] = th[b]
  BY <1>0, <1>2, ThreadUpdate, AgentFacts DEF Inv
<1>4. \A x : Pending(x)' <=> Pending(x)
  BY <1>1 DEF Pending
<1>5. r.pc \in {"idle", "wait"} /\ (Flushes(u)' <=> Flushes(u)) /\ (InFlight(u)' <=> InFlight(u))
  BY <1>1, <1>2, <1>3, RecordFacts DEF Flushes, InFlight
<1>6. TypeOK'
  BY <1>1, <1>3 DEF Inv, TypeOK
<1>7. ShapeInv'
  <2>1. UserOK(u)'
    BY <1>2, <1>3, RecordFacts DEF Inv, ShapeInv, UserOK, Flushes
  <2> QED
    BY <1>3, <2>1 DEF Inv, ShapeInv, UserOK, WorkerOK, Flushes
<1>8. (Joining' <=> Joining) /\ (Exiting' <=> Exiting)
  BY <1>1, <1>3, <1>5 DEF Joining, Exiting
<1>9. LifeInv'
  <2>1. kthread
    BY <1>1 DEF Inv, LifeInv, AllIdle
  <2>2. th'[u].op = "stop" => th[u].op = "stop"
    BY <1>2, <1>3, RecordFacts
  <2>3. \A v \in Users : v # u => th[v].op # "stop"
    BY <1>1 DEF Inv, LifeInv
  <2>4. th[u].op = "stop" => ~rearm /\ \A v \in Users : v # u => th[v].pc = "idle"
    BY DEF Inv, LifeInv
  <2> QED
    BY <1>1, <1>3, <1>8, <2>1, <2>2, <2>3, <2>4 DEF Inv, LifeInv
<1>10. SemCounts'
  <2>1. Raising' = Raising \ {u} /\ u \in Raising
    BY <1>0, <1>1, <1>3, <1>5 DEF Raising
  <2>2. Cardinality(Raising') = Cardinality(Raising) - 1
    BY <2>1, RaisingFinite, FS_RemoveElement
  <2>3. ExitTokens' = ExitTokens
    BY <1>1, <1>3, <1>8 DEF ExitTokens, Joining
  <2>4. ExitTokens \in Nat
    BY DEF ExitTokens
  <2> QED
    BY <1>1, <1>3, <2>2, <2>3, <2>4, RaisingFinite, ListFacts DEF Inv, SemCounts, TypeOK
<1>11. StopInv'
  <2>1. ASSUME th'[u].op = "stop" PROVE StopOK(u)'
    <3>1. th[u].op = "stop" /\ r.pc = "wait" /\ r.round = th[u].round
      BY <1>2, <1>3, <2>1, RecordFacts
    <3>2. StopOK(u)
      BY <3>1 DEF Inv, StopInv
    <3> QED
      BY <1>1, <1>3, <3>1, <3>2 DEF StopOK
  <2>2. ASSUME NEW v \in Users, v # u, th'[v].op = "stop" PROVE StopOK(v)'
    BY <1>1, <1>3, <2>2 DEF Inv, StopInv, StopOK
  <2> QED
    BY <2>1, <2>2 DEF StopInv
<1>12. FlushInv'
  <2>1. FlushOK(u)'
    BY <1>1, <1>3, <1>4, <1>5 DEF Inv, FlushInv, FlushOK
  <2>2. ASSUME NEW v \in Users, v # u PROVE FlushOK(v)'
    BY <1>1, <1>3, <1>4, <2>2 DEF Inv, FlushInv, FlushOK, InFlight, Flushes
  <2> QED
    BY <2>1, <2>2 DEF FlushInv
<1>13. ItemInv'
  <2>1. \A v \in Users : \A i : Adding(v, i)' => Adding(v, i)
    BY <1>3, <1>5 DEF Adding
  <2>2. QueuedItemsLive'
    BY <1>1, <1>3, <1>4 DEF Inv, ItemInv, QueuedItemsLive
  <2> QED
    BY <1>1, <1>3, <1>4, <2>1, <2>2 DEF Inv, ItemInv
<1>14. OweInv'
  <2>1. ASSUME Flushes(u) PROVE OweOK(u)'
    <3>1. OweOK(u)
      BY <2>1 DEF Inv, OweInv
    <3>2. r.pc = "wait" /\ r.round = th[u].round
      BY <1>2, <2>1
    <3>3. Accounted(owe[u].own)' /\ Accounted(owe[u].children)'
      BY <1>1, <1>3, <1>4, <3>1 DEF OweOK, Accounted
    <3>4. /\ BeforeOwn(u, owe[u].own) => BeforeOwn(u, owe[u].own)'
          /\ BeforeOwn(u, owe[u].children) => BeforeOwn(u, owe[u].children)'
      BY <1>1 DEF BeforeOwn
    <3> QED
      BY <1>1, <1>3, <1>4, <1>5, <3>1, <3>2, <3>3, <3>4 DEF OweOK
  <2>2. ASSUME NEW v \in Users, v # u, Flushes(v)' PROVE OweOK(v)'
    BY <1>1, <1>3, <1>4, <2>2 DEF Inv, OweInv, OweOK, Accounted, BeforeOwn, InFlight, Flushes
  <2> QED
    BY <1>5, <2>1, <2>2 DEF OweInv
<1> QED
  BY <1>6, <1>7, <1>9, <1>10, <1>11, <1>12, <1>13, <1>14 DEF Inv

-----------------------------------------------------------------------------
(* The kthread.                                                                *)

\* The kthread moves on with the same callback, or with none.
LEMMA WorkerMove ==
    ASSUME Inv, NEW r \in Thread, th' = [th EXCEPT ![Worker] = r],
           r.cur = th[Worker].cur, sem' \in Nat,
           UNCHANGED <<list, shouldExit, kthread, done, rearm, heap, owe>>,
           WorkerOK', LifeInv', SemCounts',
           \A u \in Users : th[u].op = "stop" => StopOK(u)'
    PROVE  Inv'
<1>1. /\ th' \in [Agents -> Thread] /\ th'[Worker] = r
      /\ \A u \in Users : th'[u] = th[u]
  BY ThreadUpdate, AgentFacts DEF Inv
<1>2. \A x : Pending(x)' <=> Pending(x)
  BY DEF Pending
<1>3. TypeOK'
  BY <1>1 DEF Inv, TypeOK
<1>4. ShapeInv'
  BY <1>1 DEF Inv, ShapeInv, UserOK, Flushes
<1>5. StopInv'
  BY <1>1 DEF StopInv
<1>6. FlushInv'
  BY <1>1, <1>2 DEF Inv, FlushInv, FlushOK, InFlight, Flushes
<1>7. ItemInv'
  BY <1>1, <1>2 DEF Inv, ItemInv, Adding, QueuedItemsLive
<1>8. OweInv'
  BY <1>1, <1>2 DEF Inv, OweInv, OweOK, Accounted, BeforeOwn, InFlight, Flushes
<1> QED
  BY <1>3, <1>4, <1>5, <1>6, <1>7, <1>8 DEF Inv

LEMMA DownInv ==
    ASSUME Inv, Down
    PROVE  Inv'
<1>1. PICK r \in Thread :
         /\ th' = [th EXCEPT ![Worker] = r] /\ r.pc = "look"
         /\ r.op = th[Worker].op /\ r.cur = th[Worker].cur
  BY AgentFacts, GotoFields DEF Down, Inv, PCs
<1>2. /\ th'[Worker] = r /\ \A u \in Users : th'[u] = th[u]
      /\ \A b \in Agents : b # Worker => th'[b] = th[b]
  BY <1>1, ThreadUpdate, AgentFacts DEF Inv
<1>3. th[Worker].pc = "down" /\ sem \in Nat /\ sem > 0 /\ sem' = sem - 1
      /\ UNCHANGED <<list, shouldExit, kthread, done, rearm, heap, owe>>
  BY DEF Down, Inv, TypeOK
<1>4. WorkerOK'
  BY <1>1, <1>2, <1>3 DEF Inv, ShapeInv, WorkerOK, Waiting, Spawning
<1>5. LifeInv'
  BY <1>1, <1>2, <1>3 DEF Inv, LifeInv, AllIdle, Joining, Exiting
<1>6. SemCounts'
  <2>1. Raising' = Raising
    BY <1>1, <1>2, <1>3, AgentFacts DEF Raising
  <2>2. ExitTokens' = ExitTokens /\ ExitTokens \in Nat
    BY <1>1, <1>2, <1>3 DEF ExitTokens
  <2> QED
    BY <1>1, <1>2, <1>3, <2>1, <2>2, RaisingFinite, ListFacts DEF Inv, SemCounts
<1>7. ASSUME NEW u \in Users, th[u].op = "stop" PROVE StopOK(u)'
  <2>1. StopOK(u)
    BY <1>7 DEF Inv, StopInv
  <2>2. th[u].pc \notin {"flushed", "kick"}
    <3> SUFFICES ASSUME th[u].pc \in {"flushed", "kick"} PROVE FALSE
      OBVIOUS
    <3>1. Len(list) = 0
      BY <2>1, ListFacts DEF StopOK, Inv
    <3>2. \A v \in Users : th[v].pc # "join"
      BY <1>7 DEF Inv, LifeInv
    <3>3. ExitTokens = 0
      BY <3>2 DEF ExitTokens
    <3> QED
      BY <1>3, <3>1, <3>3, RaisingFinite DEF Inv, SemCounts
  <2> QED
    BY <1>1, <1>2, <1>3, <2>1, <2>2 DEF StopOK, Spawning
<1>8. sem' \in Nat
  BY <1>3
<1> QED
  BY <1>1, <1>3, <1>4, <1>5, <1>6, <1>7, <1>8, WorkerMove

LEMMA LookExitInv ==
    ASSUME Inv, LookExit
    PROVE  Inv'
<1> DEFINE pc == IF shouldExit THEN "parked" ELSE "consume"
<1>0. pc \in PCs
  BY DEF PCs
<1>1. PICK r \in Thread :
         /\ th' = [th EXCEPT ![Worker] = r] /\ r.pc = pc
         /\ r.op = th[Worker].op /\ r.cur = th[Worker].cur
  BY <1>0, AgentFacts, GotoFields DEF LookExit, Inv
<1>2. /\ th'[Worker] = r /\ \A u \in Users : th'[u] = th[u]
      /\ \A b \in Agents : b # Worker => th'[b] = th[b]
  BY <1>1, ThreadUpdate, AgentFacts DEF Inv
<1>3. th[Worker].pc = "look"
      /\ UNCHANGED <<list, sem, shouldExit, kthread, done, rearm, heap, owe>>
  BY DEF LookExit
<1>4. kthread
  BY <1>3 DEF Inv, LifeInv
<1>5. WorkerOK'
  BY <1>1, <1>2, <1>3 DEF Inv, ShapeInv, WorkerOK, Waiting, Spawning
<1>6. shouldExit => Joining
  BY <1>3, <1>4 DEF Inv, LifeInv, Exiting, Joining, StopInv, StopOK, ShapeInv, UserOK
<1>7. LifeInv'
  <2>1. Joining' <=> Joining
    BY <1>2 DEF Joining
  <2>2. Exiting' <=> Exiting
    BY <1>2 DEF Exiting
  <2>3. th'[Worker].pc \in {"parked", "gone"} => Joining
    BY <1>1, <1>2, <1>6
  <2> QED
    BY <1>2, <1>3, <1>4, <2>1, <2>2, <2>3 DEF Inv, LifeInv
<1>8. SemCounts'
  <2>1. Raising' = Raising
    BY <1>1, <1>2, <1>3, AgentFacts DEF Raising
  <2>2. CASE shouldExit
    <3>1. ExitTokens = 1 /\ ExitTokens' = 0
      BY <1>1, <1>2, <1>3, <1>6, <2>2 DEF ExitTokens, Joining
    <3> QED
      BY <1>1, <1>2, <1>3, <2>1, <2>2, <3>1, RaisingFinite, ListFacts DEF Inv, SemCounts, TypeOK
  <2>3. CASE ~shouldExit
    <3>1. ExitTokens = 0 /\ ExitTokens' = 0
      BY <1>3, <2>3 DEF ExitTokens
    <3> QED
      BY <1>1, <1>2, <1>3, <2>1, <2>3, <3>1 DEF Inv, SemCounts
  <2> QED
    BY <2>2, <2>3
<1>9. ASSUME NEW u \in Users, th[u].op = "stop" PROVE StopOK(u)'
  <2>1. StopOK(u)
    BY <1>9 DEF Inv, StopInv
  <2>2. th[u].pc = "join" => shouldExit
    BY <1>4 DEF Inv, LifeInv, Exiting
  <2> QED
    BY <1>1, <1>2, <1>3, <2>1, <2>2 DEF StopOK, Spawning
<1>10. sem' \in Nat
  BY <1>3 DEF Inv, TypeOK
<1> QED
  BY <1>1, <1>3, <1>5, <1>7, <1>8, <1>9, <1>10, WorkerMove

LEMMA LeaveInv ==
    ASSUME Inv, Leave
    PROVE  Inv'
<1>1. PICK r \in Thread :
         /\ th' = [th EXCEPT ![Worker] = r] /\ r.pc = "gone"
         /\ r.op = th[Worker].op /\ r.cur = th[Worker].cur
  BY AgentFacts, GotoFields DEF Leave, Inv, PCs
<1>2. /\ th'[Worker] = r /\ \A u \in Users : th'[u] = th[u]
      /\ \A b \in Agents : b # Worker => th'[b] = th[b]
  BY <1>1, ThreadUpdate, AgentFacts DEF Inv
<1>3. th[Worker].pc = "parked" /\ Joining
      /\ UNCHANGED <<list, sem, shouldExit, kthread, done, rearm, heap, owe>>
  BY DEF Leave, Joining
<1>4. WorkerOK'
  BY <1>1, <1>2, <1>3 DEF Inv, ShapeInv, WorkerOK, Waiting, Spawning
<1>5. LifeInv'
  BY <1>1, <1>2, <1>3 DEF Inv, LifeInv, AllIdle, Joining, Exiting
<1>6. SemCounts'
  <2>1. Raising' = Raising
    BY <1>1, <1>2, <1>3, AgentFacts DEF Raising
  <2>2. ExitTokens = 0 /\ ExitTokens' = 0
    BY <1>1, <1>2, <1>3 DEF ExitTokens
  <2> QED
    BY <1>1, <1>2, <1>3, <2>1, <2>2 DEF Inv, SemCounts
<1>7. ASSUME NEW u \in Users, th[u].op = "stop" PROVE StopOK(u)'
  BY <1>1, <1>2, <1>3, <1>7 DEF Inv, StopInv, StopOK, Spawning
<1>8. sem' \in Nat
  BY <1>3 DEF Inv, TypeOK
<1> QED
  BY <1>1, <1>3, <1>4, <1>5, <1>6, <1>7, <1>8, WorkerMove

\* The worker goes on inside a callback that schedules: while a stop is past its
\* first flush there is none.
LEMMA SpawnMove ==
    ASSUME Inv, NEW r \in Thread, th' = [th EXCEPT ![Worker] = r],
           r.cur = th[Worker].cur, r.op = th[Worker].op,
           \/ th[Worker].pc = "call" /\ r.pc = "check" /\ rearm
           \/ th[Worker].pc = "check" /\ r.pc = "add",
           th[Worker].cur \in Items, r.item \in Items \ Dynamic,
           UNCHANGED <<list, sem, shouldExit, kthread, done, rearm, heap, owe>>
    PROVE  Inv'
<1>1. /\ th'[Worker] = r /\ \A u \in Users : th'[u] = th[u]
      /\ \A b \in Agents : b # Worker => th'[b] = th[b]
  BY ThreadUpdate, AgentFacts DEF Inv
<1>2. WorkerOK'
  BY <1>1, AgentFacts DEF Inv, ShapeInv, WorkerOK, Waiting, Spawning
<1>3. LifeInv'
  BY <1>1 DEF Inv, LifeInv, AllIdle, Joining, Exiting
<1>4. SemCounts'
  <2>1. Raising' = Raising
    BY <1>1, AgentFacts DEF Raising
  <2>2. ExitTokens = 0 /\ ExitTokens' = 0
    BY <1>1 DEF ExitTokens
  <2> QED
    BY <1>1, <2>1, <2>2 DEF Inv, SemCounts
<1>5. ASSUME NEW u \in Users, th[u].op = "stop" PROVE StopOK(u)'
  <2>1. StopOK(u) /\ ~rearm
    BY <1>5 DEF Inv, StopInv, LifeInv
  <2>2. th[Worker].pc = "check"
    BY <2>1
  <2> QED
    BY <1>1, <2>1, <2>2 DEF StopOK, Spawning
<1>6. sem' \in Nat
  BY DEF Inv, TypeOK
<1> QED
  BY <1>2, <1>3, <1>4, <1>5, <1>6, WorkerMove

LEMMA CheckExitWorkerInv ==
    ASSUME Inv, CheckExit(Worker)
    PROVE  Inv'
<1>1. Goto(Worker, "add") /\ owe' = owe /\ heap' = heap /\ th[Worker].pc = "check"
      /\ UNCHANGED <<list, sem, shouldExit, kthread, done, rearm>>
  BY AgentFacts, NotRefused DEF CheckExit
<1>2. PICK r \in Thread :
         /\ th' = [th EXCEPT ![Worker] = r] /\ r.pc = "add" /\ r.item = th[Worker].item
         /\ r.op = th[Worker].op /\ r.cur = th[Worker].cur
  BY <1>1, AgentFacts, GotoFields DEF Inv, PCs
<1>3. th[Worker].cur \in Items /\ th[Worker].item \in Items \ Dynamic
  BY <1>1 DEF Inv, ShapeInv, WorkerOK, Spawning
<1> QED
  BY <1>1, <1>2, <1>3, SpawnMove

LEMMA RunSpawningInv ==
    ASSUME Inv, RunSpawning
    PROVE  Inv'
<1> DEFINE i == th[Worker].cur
           r == [th[Worker] EXCEPT !.pc = "check", !.item = Spawns[i]]
<1>1. th[Worker].pc = "call" /\ i \in Items /\ rearm /\ Spawns[i] # NoItem
      /\ UNCHANGED <<list, sem, shouldExit, kthread, done, rearm, heap, owe>>
  BY DEF RunSpawning
<1>2. Spawns[i] \in Items \ Dynamic
  BY <1>1, ItemsAssumption
<1>3. th[Worker] \in Thread
  BY AgentFacts DEF Inv, TypeOK
<1>4. /\ r \in Thread /\ r.pc = "check" /\ r.item = Spawns[i]
      /\ r.op = th[Worker].op /\ r.cur = th[Worker].cur
  BY <1>2, <1>3, AgentFacts DEF Thread, PCs
<1>5. th' = [th EXCEPT ![Worker] = r]
  BY DEF RunSpawning
<1> HIDE DEF r
<1> QED
  BY <1>1, <1>2, <1>4, <1>5, SpawnMove

\* What is left of a promise when the callback has returned.
LEMMA OweEnded ==
    ASSUME TypeOK, owe' = OweAfterRun
    PROVE  /\ owe' \in [Users -> [own : SUBSET Instances, children : SUBSET Instances]]
           /\ \A u \in Users :
                 /\ owe'[u] = [own |-> Ended(owe[u].own), children |-> Ended(owe[u].children)]
                 /\ owe'[u].own = Ended(owe[u].own) /\ owe'[u].children = Ended(owe[u].children)
<1> SUFFICES ASSUME NEW u \in Users
             PROVE  /\ owe'[u] \in [own : SUBSET Instances, children : SUBSET Instances]
                    /\ owe'[u] = [own |-> Ended(owe[u].own), children |-> Ended(owe[u].children)]
                    /\ owe'[u].own = Ended(owe[u].own) /\ owe'[u].children = Ended(owe[u].children)
  BY DEF OweAfterRun
<1>1. owe[u] \in [own : SUBSET Instances, children : SUBSET Instances]
  BY DEF TypeOK
<1>2. owe'[u] = [own |-> Ended(owe[u].own), children |-> Ended(owe[u].children)]
  BY DEF OweAfterRun
<1>3. Ended(owe[u].own) \in SUBSET Instances /\ Ended(owe[u].children) \in SUBSET Instances
  BY <1>1 DEF Ended
<1> QED
  BY <1>2, <1>3

\* A callback of a client's item returns to the main loop, after it may have raised
\* the semaphore or freed its item.
LEMMA WorkerEnds ==
    ASSUME Inv, th' = [th EXCEPT ![Worker] = MainLoop], th[Worker].cur \in Items,
           owe' = OweAfterRun, sem' \in Nat, SemCounts',
           heap' \in [Dynamic -> {"free", "live", "broken"}],
           \A d \in Dynamic : heap'[d] = heap[d] \/ (d = th[Worker].cur /\ heap'[d] = "free"),
           UNCHANGED <<list, shouldExit, kthread, done, rearm>>
    PROVE  Inv'
<1>1. /\ th' \in [Agents -> Thread] /\ th'[Worker] = MainLoop
      /\ \A u \in Users : th'[u] = th[u]
  BY RecordFacts, ThreadUpdate, AgentFacts DEF Inv
<1>2. \A x : Pending(x)' <=> Pending(x)
  BY DEF Pending
<1>3. /\ owe' \in [Users -> [own : SUBSET Instances, children : SUBSET Instances]]
      /\ \A u \in Users :
            /\ owe'[u] = [own |-> Ended(owe[u].own), children |-> Ended(owe[u].children)]
            /\ owe'[u].own = Ended(owe[u].own) /\ owe'[u].children = Ended(owe[u].children)
  BY OweEnded DEF Inv
<1>4. th[Worker].pc \notin Waiting /\ th[Worker].cur \notin Users
  BY AgentFacts DEF Inv, ShapeInv, WorkerOK
<1>5. TypeOK'
  BY <1>1, <1>3 DEF Inv, TypeOK
<1>6. ShapeInv'
  <2>1. WorkerOK'
    BY <1>1, RecordFacts DEF WorkerOK, Waiting, Spawning
  <2> QED
    BY <1>1, <2>1 DEF Inv, ShapeInv, UserOK, Flushes
<1>7. LifeInv'
  BY <1>1, <1>4, RecordFacts DEF Inv, LifeInv, AllIdle, Joining, Exiting, Waiting
<1>8. StopInv'
  <2> SUFFICES ASSUME NEW u \in Users, th[u].op = "stop" PROVE StopOK(u)'
    BY <1>1 DEF StopInv
  <2>1. StopOK(u)
    BY DEF Inv, StopInv
  <2> QED
    BY <1>1, <1>4, <2>1, RecordFacts DEF StopOK, Spawning, Waiting
<1>9. FlushInv'
  BY <1>1, <1>2, <1>4, RecordFacts, AgentFacts DEF Inv, FlushInv, FlushOK, InFlight, Flushes
<1>10. ItemInv'
  <2>1. \A u \in Users : \A i : Adding(u, i)' <=> Adding(u, i)
    BY <1>1 DEF Adding
  <2>2. \A u \in Users, i \in Dynamic : Adding(u, i) => heap'[i] = "live"
    BY DEF Inv, ItemInv
  <2>3. \A i \in Dynamic : heap'[i] # "broken" /\ (Pending(i) => heap'[i] = "live")
    BY DEF Inv, ItemInv, QueuedItemsLive
  <2>4. \A i \in Dynamic : th'[Worker].cur # i
    BY <1>1, RecordFacts, AgentFacts
  <2>5. QueuedItemsLive'
    BY <1>2, <2>3, <2>4 DEF QueuedItemsLive
  <2> QED
    BY <1>2, <2>1, <2>2, <2>4, <2>5 DEF Inv, ItemInv
<1>11. OweInv'
  <2> SUFFICES ASSUME NEW u \in Users, Flushes(u) PROVE OweOK(u)'
    BY <1>1 DEF OweInv, Flushes
  <2>1. OweOK(u)
    BY DEF Inv, OweInv
  <2>2. \A S : \A i : <<i, "running">> \notin Ended(S)
    BY DEF Ended
  <2>3. \A S : Ended(S) \subseteq S
    BY DEF Ended
  <2>4. Accounted(owe[u].own)' /\ Accounted(owe[u].children)'
    BY <1>2, <1>3, <2>1, <2>2, <2>3 DEF OweOK, Accounted
  <2>5. /\ BeforeOwn(u, owe[u].own) => BeforeOwn(u, owe[u].own)'
        /\ BeforeOwn(u, owe[u].children) => BeforeOwn(u, owe[u].children)'
    BY <1>3, <2>3 DEF BeforeOwn
  <2>6. /\ owe[u].own = {} => owe'[u].own = {}
        /\ owe[u].children = {} => owe'[u].children = {}
        /\ owe[u] = OweNothing => owe'[u] = OweNothing
    BY <1>3 DEF Ended, OweNothing
  <2>7. (InFlight(u)' <=> InFlight(u)) /\ th'[u] = th[u]
    BY <1>1 DEF InFlight, Flushes
  <2> QED
    BY <1>2, <2>1, <2>4, <2>5, <2>6, <2>7 DEF OweOK
<1> QED
  BY <1>5, <1>6, <1>7, <1>8, <1>9, <1>10, <1>11 DEF Inv

LEMMA RunPlainInv ==
    ASSUME Inv, RunPlain
    PROVE  Inv'
<1>1. th[Worker].pc = "call" /\ th[Worker].cur \in Items
      /\ th' = [th EXCEPT ![Worker] = MainLoop] /\ owe' = OweAfterRun
      /\ UNCHANGED <<list, sem, shouldExit, kthread, done, rearm>>
  BY DEF RunPlain, EndCall
<1>2. /\ heap' \in [Dynamic -> {"free", "live", "broken"}]
      /\ \A d \in Dynamic : heap'[d] = heap[d] \/ (d = th[Worker].cur /\ heap'[d] = "free")
  BY DEF RunPlain, Inv, TypeOK, ItemInv, QueuedItemsLive
<1>3. SemCounts'
  <2>0. th'[Worker] = MainLoop /\ \A b \in Agents : b # Worker => th'[b] = th[b]
    BY <1>1, RecordFacts, ThreadUpdate, AgentFacts DEF Inv
  <2>1. Raising' = Raising
    BY <1>1, <2>0, RecordFacts, AgentFacts DEF Raising
  <2>2. ExitTokens = 0 /\ ExitTokens' = 0
    <3>1. \A u \in Users : th[u].pc = "join" => th[Worker].pc # "call"
      BY DEF Inv, ShapeInv, UserOK, StopInv, StopOK
    <3> QED
      BY <1>1, <2>0, <3>1, AgentFacts DEF ExitTokens
  <2> QED
    BY <1>1, <2>0, <2>1, <2>2, RecordFacts DEF Inv, SemCounts
<1>4. sem' \in Nat
  BY <1>1 DEF Inv, TypeOK
<1> QED
  BY <1>1, <1>2, <1>3, <1>4, WorkerEnds

LEMMA UpWorkerInv ==
    ASSUME Inv, Up(Worker)
    PROVE  Inv'
<1>1. th[Worker].pc = "up" /\ th[Worker].cur \in Items /\ th[Worker].op = "main"
  BY DEF Up, Inv, ShapeInv, WorkerOK, Spawning
<1>2. th' = [th EXCEPT ![Worker] = MainLoop] /\ owe' = OweAfterRun /\ sem' = sem + 1
      /\ UNCHANGED <<list, shouldExit, kthread, done, rearm, heap>>
  BY <1>1 DEF Up, EndCall
<1>3. sem \in Nat /\ heap \in [Dynamic -> {"free", "live", "broken"}]
  BY DEF Inv, TypeOK
<1>4. SemCounts'
  <2>0. th'[Worker] = MainLoop /\ \A b \in Agents : b # Worker => th'[b] = th[b]
    BY <1>2, RecordFacts, ThreadUpdate, AgentFacts DEF Inv
  <2>1. Raising' = Raising \ {Worker} /\ Worker \in Raising
    BY <1>1, <2>0, RecordFacts, AgentFacts DEF Raising
  <2>2. Cardinality(Raising') = Cardinality(Raising) - 1
    BY <2>1, RaisingFinite, FS_RemoveElement
  <2>3. ExitTokens = 0 /\ ExitTokens' = 0
    <3>1. \A u \in Users : th[u].pc = "join" => th[Worker].pc # "up"
      BY DEF Inv, ShapeInv, UserOK, StopInv, StopOK
    <3> QED
      BY <1>1, <2>0, <3>1, AgentFacts DEF ExitTokens
  <2> QED
    BY <1>1, <1>2, <1>3, <2>0, <2>2, <2>3, RecordFacts, RaisingFinite, ListFacts DEF Inv, SemCounts
<1> QED
  BY <1>1, <1>2, <1>3, <1>4, WorkerEnds

\* _raw_q_schedule, by a caller or by a callback; only an item that is neither a
\* flush item nor freshly allocated can be pending already.
LEMMA AddInv ==
    ASSUME Inv, NEW a \in Agents, Add(a)
    PROVE  Inv'
<1>0. th[a].pc = "add" /\ UNCHANGED <<sem, shouldExit, kthread, done, rearm>>
  BY DEF Add
<1>1. CASE ~Pending(th[a].item)
  BY <1>0, <1>1, InsertInv DEF Add
<1>2. CASE Pending(th[a].item)
  <2>1. EndCall(a) /\ Refused(a) /\ list' = list
    BY <1>2 DEF Add
  <2>2. th[a].item \notin Dynamic
    BY <1>0, <1>2, AddedItem
  <2>3. heap' = heap /\ heap \in [Dynamic -> {"free", "live", "broken"}]
    BY <2>1, <2>2 DEF Refused, Inv, TypeOK
  <2>4. CASE a \in Users
    <3>1. th' = [th EXCEPT ![a] = Idle] /\ owe' = owe
      BY <2>1, <2>4, AgentFacts DEF EndCall
    <3>2. th'[a] = Idle
      BY <3>1, RecordFacts, ThreadUpdate DEF Inv
    <3>3. UserOK(a)' /\ ~Flushes(a)'
      BY <3>2, RecordFacts DEF UserOK, Flushes
    <3>4. owe' \in [Users -> [own : SUBSET Instances, children : SUBSET Instances]]
      BY <3>1 DEF Inv, TypeOK
    <3> QED
      BY <1>0, <2>1, <2>3, <2>4, <3>1, <3>3, <3>4, RecordFacts, UserMove
  <2>5. CASE a = Worker
    <3>1. th' = [th EXCEPT ![Worker] = MainLoop] /\ owe' = OweAfterRun
      BY <2>1, <2>5 DEF EndCall
    <3>2. th[Worker].cur \in Items /\ sem' \in Nat
      BY <1>0, <2>5 DEF Inv, ShapeInv, WorkerOK, Spawning, TypeOK
    <3>3. SemCounts'
      <4>1. th'[Worker] = MainLoop /\ \A b \in Agents : b # Worker => th'[b] = th[b]
        BY <3>1, RecordFacts, ThreadUpdate, AgentFacts DEF Inv
      <4>2. Raising' = Raising
        BY <1>0, <2>5, <4>1, RecordFacts, AgentFacts DEF Raising
      <4>3. ExitTokens = 0 /\ ExitTokens' = 0
        BY <1>0, NotRefused DEF ExitTokens
      <4> QED
        BY <1>0, <2>1, <2>5, <4>1, <4>2, <4>3, RecordFacts DEF Inv, SemCounts
    <3> QED
      BY <1>0, <2>1, <2>3, <3>1, <3>2, <3>3, WorkerEnds
  <2> QED
    BY <2>4, <2>5 DEF Agents
<1> QED
  BY <1>1, <1>2

\* The callback of a flush item completes the flush.
LEMMA RunFlushItemInv ==
    ASSUME Inv, RunFlushItem
    PROVE  Inv'
<1>0. PICK f \in Users : th[Worker].cur = f
  BY DEF RunFlushItem
<1>1. th[Worker].pc = "call" /\ done' = [done EXCEPT ![f] = TRUE]
      /\ th' = [th EXCEPT ![Worker] = MainLoop]
      /\ UNCHANGED <<list, sem, shouldExit, kthread, rearm, heap, owe>>
  BY <1>0 DEF RunFlushItem
<1>2. /\ th' \in [Agents -> Thread] /\ th'[Worker] = MainLoop
      /\ \A u \in Users : th'[u] = th[u]
      /\ \A b \in Agents : b # Worker => th'[b] = th[b]
  BY <1>1, RecordFacts, ThreadUpdate, AgentFacts DEF Inv
<1>3. /\ done' \in [Users -> BOOLEAN] /\ done'[f]
      /\ \A u \in Users : u # f => done'[u] = done[u]
  BY <1>1 DEF Inv, TypeOK
<1>4. \A x : Pending(x)' <=> Pending(x)
  BY <1>1 DEF Pending
<1>5. InFlight(f) /\ ~Pending(f)
  BY <1>0 DEF Inv, FlushInv, FlushOK
<1>6. TypeOK'
  BY <1>1, <1>2, <1>3 DEF Inv, TypeOK
<1>7. ShapeInv'
  <2>1. WorkerOK'
    BY <1>2, RecordFacts DEF WorkerOK, Waiting, Spawning
  <2> QED
    BY <1>2, <2>1 DEF Inv, ShapeInv, UserOK, Flushes
<1>8. LifeInv'
  BY <1>1, <1>2, RecordFacts DEF Inv, LifeInv, AllIdle, Joining, Exiting
<1>9. SemCounts'
  <2>1. Raising' = Raising
    BY <1>1, <1>2, RecordFacts, AgentFacts DEF Raising
  <2>2. ExitTokens = 0 /\ ExitTokens' = 0
    <3>1. \A u \in Users : th[u].pc # "join"
      BY <1>1 DEF Inv, ShapeInv, UserOK, StopInv, StopOK
    <3> QED
      BY <1>1, <1>2, <3>1, AgentFacts DEF ExitTokens
  <2> QED
    BY <1>1, <1>2, <2>1, <2>2, RecordFacts DEF Inv, SemCounts
<1>10. StopInv'
  <2> SUFFICES ASSUME NEW u \in Users, th[u].op = "stop" PROVE StopOK(u)'
    BY <1>2 DEF StopInv
  <2>1. StopOK(u)
    BY DEF Inv, StopInv
  <2> QED
    BY <1>1, <1>2, <2>1, RecordFacts DEF StopOK, Spawning
<1>11. FlushInv'
  <2> SUFFICES ASSUME NEW u \in Users PROVE FlushOK(u)'
    BY DEF FlushInv
  <2>1. FlushOK(u) /\ (InFlight(u)' <=> InFlight(u)) /\ th'[Worker].cur # u
    BY <1>2, RecordFacts, AgentFacts DEF Inv, FlushInv, InFlight, Flushes
  <2>2. CASE u = f
    BY <1>3, <1>4, <1>5, <2>1, <2>2 DEF FlushOK
  <2>3. CASE u # f
    BY <1>0, <1>3, <1>4, <2>1, <2>3 DEF FlushOK
  <2> QED
    BY <2>2, <2>3
<1>12. ItemInv'
  <2>1. \A u \in Users : \A i : Adding(u, i)' <=> Adding(u, i)
    BY <1>2 DEF Adding
  <2>2. \A i \in Dynamic : th'[Worker].cur # i
    BY <1>2, RecordFacts, AgentFacts
  <2>3. QueuedItemsLive'
    BY <1>1, <1>4, <2>2 DEF Inv, ItemInv, QueuedItemsLive
  <2> QED
    BY <1>1, <1>4, <2>1, <2>2, <2>3 DEF Inv, ItemInv
<1>13. OweInv'
  <2> SUFFICES ASSUME NEW u \in Users, Flushes(u) PROVE OweOK(u)'
    BY <1>2 DEF OweInv, Flushes
  <2>1. OweOK(u) /\ (InFlight(u)' <=> InFlight(u)) /\ th'[u] = th[u] /\ owe' = owe
    BY <1>1, <1>2 DEF Inv, OweInv, InFlight, Flushes
  <2>2. Accounted(owe[u].own)' /\ Accounted(owe[u].children)'
    BY <1>0, <1>4, <2>1, AgentFacts DEF OweOK, Accounted
  <2>3. /\ BeforeOwn(u, owe[u].own) => BeforeOwn(u, owe[u].own)'
        /\ BeforeOwn(u, owe[u].children) => BeforeOwn(u, owe[u].children)'
    BY <1>1 DEF BeforeOwn
  <2> QED
    BY <1>4, <2>1, <2>2, <2>3 DEF OweOK
<1> QED
  BY <1>6, <1>7, <1>8, <1>9, <1>10, <1>11, <1>12, <1>13 DEF Inv

\* The worker never gets to an empty list.
LEMMA ConsumeFinds ==
    ASSUME Inv, th[Worker].pc = "consume"
    PROVE  list # << >>
<1>1. ExitTokens = 0
  BY DEF ExitTokens
<1>2. Len(list) # 0
  BY <1>1, RaisingFinite, ListFacts DEF Inv, SemCounts, TypeOK
<1> QED
  BY <1>2, ListFacts DEF Inv

\* What the removal of the head does to the list.
LEMMA Removed ==
    ASSUME Inv, list # << >>, list' = Tail(list)
    PROVE  /\ Head(list) \in QItems /\ Pending(Head(list))
           /\ list' \in Seq(QItems) /\ Len(list') = Len(list) - 1
           /\ \A j \in DOMAIN list' : j \in Nat /\ j + 1 \in DOMAIN list /\ list'[j] = list[j + 1]
           /\ \A y : Pending(y)' <=> Pending(y) /\ y # Head(list)
           /\ list[1] = Head(list) /\ 1 \in DOMAIN list
           /\ list' # << >> => list'[Len(list')] = list[Len(list)]
<1>1. list \in Seq(QItems) /\ Len(list) \in Nat /\ DOMAIN list = 1 .. Len(list) /\ Len(list) # 0
  BY ListFacts DEF Inv, TypeOK
<1>2. /\ Head(list) \in QItems /\ list' \in Seq(QItems) /\ Len(list') = Len(list) - 1
      /\ \A j \in 1 .. Len(list') : list'[j] = list[j + 1]
  BY <1>1, HeadTailProperties
<1>3. DOMAIN list' = 1 .. Len(list) - 1
  BY <1>1, <1>2, LenProperties
<1>4. list[1] = Head(list) /\ 1 \in DOMAIN list
  BY <1>1
<1>5. \A j \in DOMAIN list' : j \in Nat /\ j + 1 \in DOMAIN list /\ list'[j] = list[j + 1]
  BY <1>1, <1>2, <1>3
<1>6. \A j \in DOMAIN list : j # 1 => j - 1 \in DOMAIN list' /\ list'[j - 1] = list[j]
  BY <1>1, <1>2, <1>3
<1>7. \A j, k \in DOMAIN list : list[j] = list[k] => j = k
  BY DEF Inv, ItemInv
<1>8. ASSUME NEW y PROVE Pending(y)' <=> Pending(y) /\ y # Head(list)
  <2>1. ASSUME Pending(y)' PROVE Pending(y) /\ y # Head(list)
    <3>1. PICK j \in DOMAIN list' : list'[j] = y
      BY <2>1 DEF Pending
    <3>2. j + 1 \in DOMAIN list /\ list[j + 1] = y /\ j + 1 # 1
      BY <1>3, <1>5, <3>1
    <3> QED
      BY <1>4, <1>7, <3>2 DEF Pending
  <2>2. ASSUME Pending(y), y # Head(list) PROVE Pending(y)'
    <3>1. PICK j \in DOMAIN list : list[j] = y
      BY <2>2 DEF Pending
    <3>2. j - 1 \in DOMAIN list' /\ list'[j - 1] = y
      BY <1>4, <1>6, <2>2, <3>1
    <3> QED
      BY <3>2 DEF Pending
  <2> QED
    BY <2>1, <2>2
<1>9. list' # << >> => list'[Len(list')] = list[Len(list)]
  <2>1. list' # << >> => Len(list') # 0
    BY <1>2, EmptySeq
  <2> QED
    BY <1>1, <1>2, <2>1
<1>10. Pending(Head(list))
  BY <1>4 DEF Pending
<1> QED
  BY <1>2, <1>4, <1>5, <1>8, <1>9, <1>10

LEMMA TakenFacts ==
    ASSUME NEW S, NEW i
    PROVE  /\ S = {} => Taken(S, i) = {}
           /\ \A j : <<j, "pending">> \in Taken(S, i) => <<j, "pending">> \in S /\ j # i
           /\ \A j : <<j, "running">> \in Taken(S, i) => <<j, "running">> \in S \/ j = i
<1>1. S = {} => Taken(S, i) = {}
  BY DEF Taken
<1>2. \A j, k : /\ <<j, "running">> # <<k, "pending">>
                /\ <<j, "pending">> = <<k, "pending">> => j = k
                /\ <<j, "running">> = <<k, "running">> => j = k
  OBVIOUS
<1>3. \A y \in Taken(S, i) : (y \in S /\ y # <<i, "pending">>) \/ y = <<i, "running">>
  BY DEF Taken
<1> QED
  BY <1>1, <1>2, <1>3

LEMMA ConsumeInv ==
    ASSUME Inv, Consume
    PROVE  Inv'
<1> DEFINE h == Head(list)
           r == [th[Worker] EXCEPT !.pc = "call", !.cur = h]
<1>0. th[Worker].pc = "consume" /\ list # << >> /\ th[Worker].cur = NoItem
  BY ConsumeFinds DEF Consume, Inv, ShapeInv, WorkerOK, Waiting
<1>1. /\ th' = [th EXCEPT ![Worker] = r] /\ list' = Tail(list)
      /\ owe' = [u \in Users |-> [own |-> Taken(owe[u].own, h),
                                  children |-> Taken(owe[u].children, h)]]
      /\ UNCHANGED <<sem, shouldExit, kthread, done, rearm, heap>>
  BY <1>0 DEF Consume
<1>2. /\ h \in QItems /\ Pending(h)
      /\ list' \in Seq(QItems) /\ Len(list') = Len(list) - 1
      /\ \A j \in DOMAIN list' : j \in Nat /\ j + 1 \in DOMAIN list /\ list'[j] = list[j + 1]
      /\ \A y : Pending(y)' <=> Pending(y) /\ y # h
      /\ list[1] = h /\ 1 \in DOMAIN list
      /\ list' # << >> => list'[Len(list')] = list[Len(list)]
  BY <1>0, <1>1, Removed
<1>3. th[Worker] \in Thread
  BY AgentFacts DEF Inv, TypeOK
<1>4. r \in Thread /\ r.pc = "call" /\ r.cur = h /\ r.op = th[Worker].op
  BY <1>2, <1>3 DEF Thread, PCs
<1> HIDE DEF r
<1>5. /\ th' \in [Agents -> Thread] /\ th'[Worker] = r
      /\ \A u \in Users : th'[u] = th[u]
      /\ \A b \in Agents : b # Worker => th'[b] = th[b]
  BY <1>1, <1>4, ThreadUpdate, AgentFacts DEF Inv
<1> HIDE DEF h
<1>6. h # NoItem
  BY <1>2, AgentsAssumption
<1>7. \A u \in Users :
         /\ owe[u].own \in SUBSET Instances /\ owe[u].children \in SUBSET Instances
         /\ owe'[u] = [own |-> Taken(owe[u].own, h), children |-> Taken(owe[u].children, h)]
         /\ owe'[u].own = Taken(owe[u].own, h) /\ owe'[u].children = Taken(owe[u].children, h)
  BY <1>1 DEF Inv, TypeOK
<1>8. TypeOK'
  <2>1. ASSUME NEW S \in SUBSET Instances PROVE Taken(S, h) \in SUBSET Instances
    BY DEF Taken, Instances
  <2>2. owe' \in [Users -> [own : SUBSET Instances, children : SUBSET Instances]]
    BY <1>1, <1>7, <2>1
  <2> QED
    BY <1>1, <1>2, <1>5, <2>2 DEF Inv, TypeOK
<1>9. ShapeInv'
  <2>1. WorkerOK'
    BY <1>4, <1>5, <1>6 DEF Inv, ShapeInv, WorkerOK, Waiting, Spawning
  <2> QED
    BY <1>5, <2>1 DEF Inv, ShapeInv, UserOK, Flushes
<1>10. LifeInv'
  BY <1>0, <1>1, <1>4, <1>5 DEF Inv, LifeInv, AllIdle, Joining, Exiting
<1>11. SemCounts'
  <2>1. Raising' = Raising
    BY <1>0, <1>4, <1>5, AgentFacts DEF Raising
  <2>2. ExitTokens = 0 /\ ExitTokens' = 0
    BY <1>0, <1>4, <1>5 DEF ExitTokens
  <2> QED
    BY <1>0, <1>1, <1>2, <1>4, <1>5, <2>1, <2>2, RaisingFinite, ListFacts DEF Inv, SemCounts, TypeOK
<1>12. StopInv'
  <2> SUFFICES ASSUME NEW u \in Users, th[u].op = "stop" PROVE StopOK(u)'
    BY <1>5 DEF StopInv
  <2>1. StopOK(u)
    BY DEF Inv, StopInv
  <2>2. th[u].round = 2 /\ th[u].pc \in {"up", "wait"} => ~done[u]
    <3> SUFFICES ASSUME th[u].round = 2, th[u].pc \in {"up", "wait"} PROVE ~done[u]
      OBVIOUS
    <3>1. list[Len(list)] = u
      BY <1>0, <2>1 DEF StopOK
    <3>2. Len(list) \in DOMAIN list
      BY <1>0, ListFacts DEF Inv
    <3>3. Pending(u)
      BY <3>1, <3>2 DEF Pending
    <3> QED
      BY <3>3 DEF Inv, FlushInv, FlushOK
  <2>3. th[u].pc \notin {"flushed", "kick", "join"}
    BY <1>0, <2>1 DEF StopOK
  <2>4. th'[Worker].pc \notin Spawning
    BY <1>4, <1>5 DEF Spawning
  <2> QED
    BY <1>0, <1>1, <1>2, <1>5, <2>1, <2>2, <2>3, <2>4 DEF StopOK
<1>13. FlushInv'
  <2> SUFFICES ASSUME NEW u \in Users PROVE FlushOK(u)'
    BY DEF FlushInv
  <2>1. FlushOK(u) /\ (InFlight(u)' <=> InFlight(u)) /\ th[Worker].cur # u
    BY <1>0, <1>5, AgentFacts DEF Inv, FlushInv, InFlight, Flushes
  <2> QED
    BY <1>1, <1>2, <1>4, <1>5, <2>1 DEF FlushOK
<1>14. ItemInv'
  <2>1. \A j, k \in DOMAIN list' : list'[j] = list'[k] => j = k
    <3>1. \A j, k \in DOMAIN list : list[j] = list[k] => j = k
      BY DEF Inv, ItemInv
    <3> QED
      BY <1>2, <3>1
  <2>2. \A u \in Users : \A i : Adding(u, i)' <=> Adding(u, i)
    BY <1>5 DEF Adding
  <2>3. \A u \in Users, i \in Dynamic : Adding(u, i) =>
           /\ heap[i] = "live" /\ ~Pending(i) /\ i # h
           /\ \A v \in Users : Adding(v, i) => v = u
    BY <1>2 DEF Inv, ItemInv
  <2>4. QueuedItemsLive'
    BY <1>1, <1>2, <1>4, <1>5 DEF Inv, ItemInv, QueuedItemsLive
  <2> QED
    BY <1>1, <1>2, <1>4, <1>5, <2>1, <2>2, <2>3, <2>4 DEF ItemInv
<1>15. OweInv'
  <2> SUFFICES ASSUME NEW u \in Users, Flushes(u) PROVE OweOK(u)'
    BY <1>5 DEF OweInv, Flushes
  <2>1. OweOK(u) /\ (InFlight(u)' <=> InFlight(u)) /\ th'[u] = th[u]
    BY <1>5 DEF Inv, OweInv, InFlight, Flushes
  <2>2. ASSUME NEW S, Accounted(S)
        PROVE  /\ \A i \in Items : <<i, "running">> \notin S
               /\ \A i \in Items : <<i, "running">> \in Taken(S, h) => i = h
               /\ \A i \in Items : <<i, "pending">> \in Taken(S, h) =>
                     <<i, "pending">> \in S /\ i # h /\ Pending(i)
    <3>1. \A i \in Items : <<i, "running">> \notin S /\ (<<i, "pending">> \in S => Pending(i))
      BY <1>0, <2>2, AgentFacts DEF Accounted
    <3> QED
      BY <3>1, TakenFacts
  <2>3. Accounted(owe[u].own)' /\ Accounted(owe[u].children)'
    <3>a. Accounted(owe[u].own) /\ Accounted(owe[u].children)
      BY <2>1 DEF OweOK
    <3>b. owe'[u].own = Taken(owe[u].own, h) /\ owe'[u].children = Taken(owe[u].children, h)
      BY <1>7
    <3>c. \A i \in Items : /\ <<i, "running">> \in owe'[u].own => <<i, "running">> \in owe[u].own \/ i = h
                           /\ <<i, "pending">> \in owe'[u].own => <<i, "pending">> \in owe[u].own /\ i # h
      <4> DEFINE S == owe[u].own
      <4>1. /\ \A j : <<j, "pending">> \in Taken(S, h) => <<j, "pending">> \in S /\ j # h
            /\ \A j : <<j, "running">> \in Taken(S, h) => <<j, "running">> \in S \/ j = h
        <5> HIDE DEF S
        <5> QED
          BY TakenFacts
      <4>2. owe'[u].own = Taken(S, h)
        BY <3>b
      <4> HIDE DEF S
      <4>3. \A i \in Items : /\ <<i, "running">> \in owe'[u].own => <<i, "running">> \in S \/ i = h
                             /\ <<i, "pending">> \in owe'[u].own => <<i, "pending">> \in S /\ i # h
        BY <4>1, <4>2
      <4> QED
        BY <4>3 DEF S
    <3>d. \A i \in Items : /\ <<i, "running">> \in owe'[u].children => <<i, "running">> \in owe[u].children \/ i = h
                           /\ <<i, "pending">> \in owe'[u].children => <<i, "pending">> \in owe[u].children /\ i # h
      <4> DEFINE S == owe[u].children
      <4>1. /\ \A j : <<j, "pending">> \in Taken(S, h) => <<j, "pending">> \in S /\ j # h
            /\ \A j : <<j, "running">> \in Taken(S, h) => <<j, "running">> \in S \/ j = h
        <5> HIDE DEF S
        <5> QED
          BY TakenFacts
      <4>2. owe'[u].children = Taken(S, h)
        BY <3>b
      <4> HIDE DEF S
      <4>3. \A i \in Items : /\ <<i, "running">> \in owe'[u].children => <<i, "running">> \in S \/ i = h
                             /\ <<i, "pending">> \in owe'[u].children => <<i, "pending">> \in S /\ i # h
        BY <4>1, <4>2
      <4> QED
        BY <4>3 DEF S
    <3>e. \A i \in Items : th[Worker].cur # i
      BY <1>0, AgentFacts
    <3>1. \A i \in Items : /\ <<i, "running">> \in owe'[u].own => i = h
                           /\ <<i, "pending">> \in owe'[u].own => i # h /\ Pending(i)
      <4> SUFFICES ASSUME NEW i \in Items
                   PROVE  /\ <<i, "running">> \in owe'[u].own => i = h
                          /\ <<i, "pending">> \in owe'[u].own => i # h /\ Pending(i)
        OBVIOUS
      <4>1. <<i, "running">> \notin owe[u].own
        BY <3>a, <3>e DEF Accounted
      <4>2. <<i, "pending">> \in owe[u].own => Pending(i)
        BY <3>a DEF Accounted
      <4> QED
        <5>1. <<i, "running">> \in owe'[u].own => <<i, "running">> \in owe[u].own \/ i = h
          BY <3>c
        <5>2. <<i, "pending">> \in owe'[u].own => <<i, "pending">> \in owe[u].own
          BY <3>c
        <5>3. <<i, "pending">> \in owe'[u].own => i # h
          BY <3>c
        <5> QED
          BY <4>1, <4>2, <5>1, <5>2, <5>3
    <3>2. \A i \in Items : /\ <<i, "running">> \in owe'[u].children => i = h
                           /\ <<i, "pending">> \in owe'[u].children => i # h /\ Pending(i)
      BY <3>a, <3>d, <3>e DEF Accounted
    <3> QED
      BY <1>2, <1>4, <1>5, <3>1, <3>2 DEF Accounted
  <2>4. ASSUME NEW S, NEW T, BeforeOwn(u, S), Accounted(S), T = Taken(S, h) PROVE BeforeOwn(u, T)'
    <3> SUFFICES ASSUME NEW i \in Items, NEW j \in DOMAIN list', NEW k \in DOMAIN list',
                        <<i, "pending">> \in T, list'[j] = i, list'[k] = u
                 PROVE  j < k
      BY DEF BeforeOwn
    <3>1. j + 1 \in DOMAIN list /\ k + 1 \in DOMAIN list /\ list[j + 1] = i /\ list[k + 1] = u
          /\ j \in Nat /\ k \in Nat
      BY <1>2
    <3>2. <<i, "pending">> \in S
      BY <2>2, <2>4
    <3>3. j + 1 < k + 1
      BY <2>4, <3>1, <3>2 DEF BeforeOwn
    <3> QED
      BY <3>1, <3>3
  <2>5. /\ BeforeOwn(u, owe[u].own) => BeforeOwn(u, owe[u].own)'
        /\ BeforeOwn(u, owe[u].children) => BeforeOwn(u, owe[u].children)'
    BY <1>7, <2>1, <2>4 DEF OweOK
  <2>6. ASSUME NEW S \in SUBSET Instances, BeforeOwn(u, S), Accounted(S), Pending(u), ~Pending(u)'
        PROVE  S = {}
    <3>1. u = h
      BY <1>2, <2>6
    <3>2. ASSUME NEW i \in Items PROVE <<i, "pending">> \notin S
      <4> SUFFICES ASSUME <<i, "pending">> \in S PROVE FALSE
        OBVIOUS
      <4>1. PICK j \in DOMAIN list : list[j] = i
        BY <2>6 DEF Accounted, Pending
      <4>2. j < 1
        BY <1>2, <2>6, <3>1, <4>1 DEF BeforeOwn
      <4> QED
        BY <4>1, <4>2, ListFacts DEF Inv
    <3>3. \A i \in Items : <<i, "running">> \notin S
      BY <2>2, <2>6
    <3>4. \A y \in Instances : \E i \in Items : y = <<i, "pending">> \/ y = <<i, "running">>
      BY DEF Instances
    <3> QED
      BY <3>2, <3>3, <3>4
  <2>7. /\ owe[u].own = {} => owe'[u].own = {}
        /\ owe[u].children = {} => owe'[u].children = {}
        /\ owe[u] = OweNothing => owe'[u] = OweNothing
    <3>1. Taken({}, h) = {}
      BY DEF Taken
    <3>2. owe'[u].own = Taken(owe[u].own, h) /\ owe'[u].children = Taken(owe[u].children, h)
      BY <1>7
    <3>3. owe'[u] = [own |-> Taken(owe[u].own, h), children |-> Taken(owe[u].children, h)]
      BY <1>7
    <3>4. owe[u] = OweNothing => owe[u].own = {} /\ owe[u].children = {}
      BY DEF OweNothing
    <3>5. owe[u] = OweNothing => owe'[u] = OweNothing
      BY <3>1, <3>3, <3>4 DEF OweNothing
    <3> QED
      BY <3>1, <3>2, <3>5
  <2>8. InFlight(u) /\ th[u].round = 1 /\ ~Pending(u)' => owe[u].own = {}
    BY <1>7, <2>1, <2>6 DEF OweOK
  <2>9. InFlight(u) /\ th[u].round = 2 /\ ~Pending(u)' => owe[u].children = {}
    BY <1>7, <2>1, <2>6 DEF OweOK
  <2> QED
    BY <2>1, <2>3, <2>5, <2>7, <2>8, <2>9 DEF OweOK
<1> QED
  BY <1>8, <1>9, <1>10, <1>11, <1>12, <1>13, <1>14, <1>15 DEF Inv

-----------------------------------------------------------------------------
(* The theorems.                                                               *)

LEMMA NextInv == Inv /\ [Next]_vars => Inv'
<1> SUFFICES ASSUME Inv, [Next]_vars PROVE Inv'
  OBVIOUS
<1>1. CASE UNCHANGED vars
  <2>1. rearm' = rearm /\ UNCHANGED <<list, sem, shouldExit, kthread, th, done, heap, owe>>
    BY <1>1 DEF vars
  <2>2. rearm \in BOOLEAN
    BY DEF Inv, TypeOK
  <2> QED
    BY <2>1, <2>2, RearmStep
<1>2. CASE nv_kthread_q_init
  BY <1>2, InitQueueInv
<1>3. CASE CeaseRearming
  BY <1>3, RearmStep DEF CeaseRearming
<1>4. ASSUME NEW u \in Users,
             \/ UserStep(u) \/ Flush(u) \/ Stop(u)
             \/ \E i \in Items : Schedule(u, i) \/ EnqueueWork(u, i)
      PROVE  Inv'
  <2>1. CASE UserStep(u)
    <3>1. CASE AgentStep(u)
      BY <3>1, CheckExitUserInv, AddInv, UpUserInv, AgentFacts DEF AgentStep
    <3>2. CASE nv_kthread_q_flush(u)
      BY <3>2, WaitedInv, FlushReturnInv DEF nv_kthread_q_flush
    <3>3. CASE nv_kthread_q_stop(u)
      BY <3>3, SetExitKickInv, JoinInv DEF nv_kthread_q_stop
    <3> QED
      BY <2>1, <3>1, <3>2, <3>3 DEF UserStep
  <2>2. CASE Flush(u) \/ Stop(u)
    BY <1>1, <2>2, FlushStopInv
  <2>3. ASSUME NEW i \in Items, Schedule(u, i) \/ EnqueueWork(u, i) PROVE Inv'
    BY <2>3, ScheduleInv
  <2> QED
    BY <1>4, <2>1, <2>2, <2>3
<1>5. CASE WorkerStep
  <2>1. CASE AgentStep(Worker)
    BY <2>1, CheckExitWorkerInv, AddInv, UpWorkerInv, AgentFacts DEF AgentStep
  <2>2. CASE main_loop
    BY <2>2, DownInv, LookExitInv, ConsumeInv, RunFlushItemInv, RunSpawningInv, RunPlainInv, LeaveInv
       DEF main_loop, RunItem
  <2> QED
    BY <1>5, <2>1, <2>2 DEF WorkerStep
<1> QED
  BY <1>1, <1>2, <1>3, <1>4, <1>5 DEF Next

\* Whatever callers, callbacks and the kthread do and in whatever order, the list,
\* the semaphore, the flags and the items in flight fit together.
THEOREM Invariance == Spec => []Inv
<1>1. Inv /\ [Next]_vars => Inv'
  BY NextInv
<1> QED
  BY InitInv, <1>1, PTL DEF Spec

\* Every variable keeps the type of the C data it stands for.
THEOREM TypeCorrect == Spec => []TypeOK
<1>1. Inv => TypeOK
  BY DEF Inv
<1> QED
  BY Invariance, <1>1, PTL

\* The semaphore counts the list, for any number of callers caught between the
\* insertion of their item (under the lock) and up(&q->q_sem) (outside it).
THEOREM SemCountsHolds == Spec => []SemCounts
<1>1. Inv => SemCounts
  BY DEF Inv
<1> QED
  BY Invariance, <1>1, PTL

\* The WARN of _main_loop's empty-list branch is never reached.
THEOREM NeverEmptyHolds == Spec => []NeverEmpty
<1>1. Inv => NeverEmpty
  BY ConsumeFinds DEF NeverEmpty
<1> QED
  BY Invariance, <1>1, PTL

\* nv_kthread_q_flush keeps its promise for every number of items and every relation
\* "the callback of i schedules j": two passes are enough.
THEOREM FlushDrainsHolds == Spec => []FlushDrains
<1>1. Inv => FlushDrains
  <2> SUFFICES ASSUME Inv, NEW u \in Users, th[u].pc \in {"flushed", "kick", "join"}
               PROVE  owe[u] = OweNothing
    BY DEF FlushDrains
  <2>1. Flushes(u)
    BY DEF Inv, ShapeInv, UserOK
  <2> QED
    BY <2>1 DEF Inv, OweInv, OweOK
<1> QED
  BY Invariance, <1>1, PTL

\* nv_kthread_q_stop leaves no item behind and no callback running, although a
\* callback that was told to cease too late may still have scheduled one.
THEOREM StopDrainsHolds == Spec => []StopDrains
<1>1. Inv => StopDrains
  <2> SUFFICES ASSUME Inv, NEW u \in Users, th[u].op = "stop",
                      th[u].pc \in {"flushed", "kick", "join"}
               PROVE  list = << >> /\ th[Worker].cur = NoItem
    BY DEF StopDrains
  <2>1. StopOK(u) /\ WorkerOK
    BY DEF Inv, StopInv, ShapeInv
  <2> QED
    BY <2>1 DEF StopOK, WorkerOK, Waiting
<1> QED
  BY Invariance, <1>1, PTL

\* A work item of nv_dbell_try_enqueue_resolve is not freed while it is queued or
\* running, nor twice: its schedule is never refused.
THEOREM QueuedItemsLiveHolds == Spec => []QueuedItemsLive
<1>1. Inv => QueuedItemsLive
  BY DEF Inv, ItemInv
<1> QED
  BY Invariance, <1>1, PTL

-----------------------------------------------------------------------------
(* The client items of a list.  Each fact is proved by smallest                *)
(* counterexample over the prefixes of the list.                               *)

\* f gives the client items of every prefix of l.
UpTo(f, l) ==
    f = [n \in 0 .. Len(l) |->
            IF n = 0 THEN << >>
            ELSE IF l[n] \in Items THEN Append(f[n - 1], l[n]) ELSE f[n - 1]]

LEMMA UpToStep ==
    ASSUME NEW l \in Seq(QItems), NEW f, UpTo(f, l)
    PROVE  /\ Len(l) \in Nat /\ f[0] = << >>
           /\ \A n \in 1 .. Len(l) :
                 f[n] = IF l[n] \in Items THEN Append(f[n - 1], l[n]) ELSE f[n - 1]
<1>1. Len(l) \in Nat
  OBVIOUS
<1>2. 0 \in 0 .. Len(l) /\ \A n \in 1 .. Len(l) : n \in 0 .. Len(l) /\ n # 0
  BY <1>1
<1> QED
  BY <1>1, <1>2 DEF UpTo

LEMMA UpToExists ==
    ASSUME NEW l \in Seq(QItems)
    PROVE  \E f : UpTo(f, l)
<1> DEFINE Step(f, n) == IF l[n] \in Items THEN Append(f[n - 1], l[n]) ELSE f[n - 1]
           Is(f, m) == f = [n \in 0 .. m |-> IF n = 0 THEN << >> ELSE Step(f, n)]
           Bad == {m \in Nat : ~\E f : Is(f, m)}
<1>1. Bad = {}
  <2> SUFFICES ASSUME Bad # {} PROVE FALSE
    OBVIOUS
  <2>1. PICK m \in Bad : \A y \in Bad : m <= y
    <3>1. Bad \in SUBSET Nat
      OBVIOUS
    <3> HIDE DEF Bad
    <3> QED
      BY <3>1, LeastNatural
  <2>2. m \in Nat /\ ~\E f : Is(f, m)
    OBVIOUS
  <2>3. m # 0
    <3>1. Is([n \in 0 .. 0 |-> << >>], 0)
      OBVIOUS
    <3> QED
      BY <2>2, <3>1
  <2>4. PICK f : Is(f, m - 1)
    <3>1. m - 1 \in Nat /\ ~(m <= m - 1)
      BY <2>2, <2>3
    <3>2. m - 1 \notin Bad
      BY <2>1, <3>1
    <3> QED
      BY <3>1, <3>2
  <2> HIDE DEF Bad
  <2> DEFINE g == [n \in 0 .. m |-> IF n = m THEN Step(f, m) ELSE f[n]]
  <2>5. \A n \in 0 .. m : n # 0 => n - 1 \in 0 .. m /\ n - 1 # m /\ n - 1 \in 0 .. m - 1
    BY <2>2, <2>3
  <2>6. \A n \in 0 .. m : n # 0 => Step(g, n) = Step(f, n)
    BY <2>5
  <2>7. \A n \in 0 .. m : n # m => n \in 0 .. m - 1
    BY <2>2, <2>3
  <2>8. \A n \in 0 .. m - 1 : f[n] = IF n = 0 THEN << >> ELSE Step(f, n)
    <3> HIDE DEF Step
    <3> QED
      BY <2>4
  <2> HIDE DEF Step
  <2>9. \A n \in 0 .. m : g[n] = IF n = 0 THEN << >> ELSE Step(g, n)
    <3> SUFFICES ASSUME NEW n \in 0 .. m
                 PROVE  g[n] = IF n = 0 THEN << >> ELSE Step(g, n)
      OBVIOUS
    <3>1. CASE n = m
      <4>1. g[n] = Step(f, n)
        BY <3>1
      <4> HIDE DEF g
      <4> QED
        BY <2>3, <2>6, <3>1, <4>1
    <3>2. CASE n # m
      <4>1. g[n] = f[n]
        BY <3>2
      <4> HIDE DEF g
      <4> QED
        BY <2>6, <2>7, <2>8, <3>2, <4>1
    <3> QED
      BY <3>1, <3>2
  <2>10. Is(g, m)
    <3>1. g = [n \in 0 .. m |-> g[n]]
      OBVIOUS
    <3> HIDE DEF g
    <3> QED
      BY <2>9, <3>1
  <2> QED
    BY <2>2, <2>10
<1>2. Len(l) \in Nat
  OBVIOUS
<1>3. \E f : Is(f, Len(l))
  BY <1>1, <1>2
<1> QED
  BY <1>3 DEF UpTo

LEMMA ClientItemsUpTo ==
    ASSUME NEW l \in Seq(QItems)
    PROVE  \E f : UpTo(f, l) /\ ClientItems(l) = f[Len(l)]
<1> DEFINE c == CHOOSE f : UpTo(f, l)
<1>1. UpTo(c, l)
  BY UpToExists
<1>2. ClientItems(l) = c[Len(l)]
  BY DEF ClientItems, UpTo
<1> HIDE DEF c
<1> QED
  BY <1>1, <1>2

\* The client items of a prefix do not depend on what follows it.
LEMMA UpToPrefix ==
    ASSUME NEW l \in Seq(QItems), NEW m \in Seq(QItems), Len(l) <= Len(m),
           \A n \in 1 .. Len(l) : l[n] = m[n],
           NEW f, UpTo(f, l), NEW g, UpTo(g, m)
    PROVE  f[Len(l)] = g[Len(l)]
<1> DEFINE Bad == {n \in 0 .. Len(l) : f[n] # g[n]}
<1>0. Len(l) \in Nat /\ Len(m) \in Nat
  OBVIOUS
<1>1. Bad = {}
  <2> SUFFICES ASSUME Bad # {} PROVE FALSE
    OBVIOUS
  <2>1. PICK n \in Bad : \A y \in Bad : n <= y
    <3>1. Bad \in SUBSET Nat
      BY <1>0
    <3> HIDE DEF Bad
    <3> QED
      BY <3>1, LeastNatural
  <2>2. n \in 0 .. Len(l) /\ f[n] # g[n]
    OBVIOUS
  <2>3. n # 0
    BY <2>2, UpToStep
  <2>4. n \in 1 .. Len(l) /\ n \in 1 .. Len(m) /\ n - 1 \in 0 .. Len(l) /\ ~(n <= n - 1)
    BY <1>0, <2>2, <2>3
  <2>5. f[n - 1] = g[n - 1]
    BY <2>1, <2>4
  <2>6. f[n] = IF l[n] \in Items THEN Append(f[n - 1], l[n]) ELSE f[n - 1]
    BY <2>4, UpToStep
  <2>7. g[n] = IF m[n] \in Items THEN Append(g[n - 1], m[n]) ELSE g[n - 1]
    BY <2>4, UpToStep
  <2>8. l[n] = m[n]
    BY <2>4
  <2> HIDE DEF Bad
  <2> QED
    BY <2>2, <2>5, <2>6, <2>7, <2>8
<1>2. Len(l) \in 0 .. Len(l)
  BY <1>0
<1> QED
  BY <1>1, <1>2

\* Every prefix has only client items of the list.
LEMMA UpToType ==
    ASSUME NEW l \in Seq(QItems), NEW f, UpTo(f, l)
    PROVE  \A n \in 0 .. Len(l) :
              /\ f[n] \in Seq(Items)
              /\ \A j \in DOMAIN f[n] : \E i \in 1 .. Len(l) : l[i] = f[n][j]
<1> DEFINE Good(n) == /\ f[n] \in Seq(Items)
                      /\ \A j \in DOMAIN f[n] : \E i \in 1 .. Len(l) : l[i] = f[n][j]
           Bad == {n \in 0 .. Len(l) : ~Good(n)}
<1>0. Len(l) \in Nat
  OBVIOUS
<1> SUFFICES ASSUME Bad # {} PROVE FALSE
  OBVIOUS
<1>1. PICK n \in Bad : \A y \in Bad : n <= y
  <2>1. Bad \in SUBSET Nat
    BY <1>0
  <2> HIDE DEF Bad
  <2> QED
    BY <2>1, LeastNatural
<1>2. n \in 0 .. Len(l) /\ ~Good(n)
  OBVIOUS
<1>3. n # 0
  <2>1. f[0] = << >>
    BY UpToStep
  <2>2. << >> \in Seq(Items) /\ DOMAIN << >> = {}
    OBVIOUS
  <2>3. Good(0)
    BY <2>1, <2>2
  <2> QED
    BY <1>2, <2>3
<1>4. n \in 1 .. Len(l) /\ n - 1 \in 0 .. Len(l) /\ ~(n <= n - 1)
  BY <1>0, <1>2, <1>3
<1>5. Good(n - 1)
  BY <1>1, <1>4
<1>6. f[n] = IF l[n] \in Items THEN Append(f[n - 1], l[n]) ELSE f[n - 1]
  BY <1>4, UpToStep
<1>7. CASE l[n] \notin Items
  BY <1>2, <1>5, <1>6, <1>7
<1>8. CASE l[n] \in Items
  <2> DEFINE s == f[n - 1]
  <2>1. s \in Seq(Items) /\ f[n] = Append(s, l[n])
    BY <1>5, <1>6, <1>8
  <2>2. /\ f[n] \in Seq(Items)
        /\ \A j \in DOMAIN f[n] : f[n][j] = l[n] \/ (j \in DOMAIN s /\ f[n][j] = s[j])
    <3> HIDE DEF s
    <3> QED
      BY <1>8, <2>1
  <2>3. Good(n)
    BY <1>4, <1>5, <2>2
  <2> QED
    BY <1>2, <2>3
<1> QED
  BY <1>7, <1>8

\* The client items of a prefix, with and without the head of the list.
LEMMA UpToTail ==
    ASSUME NEW l \in Seq(QItems), l # << >>, NEW f, UpTo(f, l), NEW g, UpTo(g, Tail(l))
    PROVE  \A n \in 0 .. Len(l) - 1 :
              IF l[1] \in Items
              THEN f[n + 1] # << >> /\ Head(f[n + 1]) = l[1] /\ Tail(f[n + 1]) = g[n]
              ELSE f[n + 1] = g[n]
<1> DEFINE Good(n) == IF l[1] \in Items
                      THEN f[n + 1] # << >> /\ Head(f[n + 1]) = l[1] /\ Tail(f[n + 1]) = g[n]
                      ELSE f[n + 1] = g[n]
           Bad == {n \in 0 .. Len(l) - 1 : ~Good(n)}
<1>0. /\ Len(l) \in Nat /\ Len(l) # 0 /\ Tail(l) \in Seq(QItems) /\ Len(Tail(l)) = Len(l) - 1
      /\ \A i \in 1 .. Len(l) - 1 : Tail(l)[i] = l[i + 1]
  BY HeadTailProperties, EmptySeq
<1> SUFFICES ASSUME Bad # {} PROVE FALSE
  OBVIOUS
<1>1. PICK n \in Bad : \A y \in Bad : n <= y
  <2>1. Bad \in SUBSET Nat
    BY <1>0
  <2> HIDE DEF Bad
  <2> QED
    BY <2>1, LeastNatural
<1>2. n \in 0 .. Len(l) - 1 /\ ~Good(n)
  OBVIOUS
<1>3. n # 0
  <2> SUFFICES ASSUME n = 0 PROVE Good(0)
    BY <1>2
  <2>1. 1 \in 1 .. Len(l) /\ 1 - 1 = 0 /\ 0 + 1 = 1
    BY <1>0
  <2>2. f[0] = << >> /\ g[0] = << >>
    BY <1>0, UpToStep
  <2>3. f[1] = IF l[1] \in Items THEN Append(<< >>, l[1]) ELSE << >>
    <3>1. f[1] = IF l[1] \in Items THEN Append(f[1 - 1], l[1]) ELSE f[1 - 1]
      BY <2>1, UpToStep
    <3> QED
      BY <2>1, <2>2, <3>1
  <2>4. \A x : Append(<< >>, x) # << >> /\ Head(Append(<< >>, x)) = x /\ Tail(Append(<< >>, x)) = << >>
    OBVIOUS
  <2> QED
    BY <2>1, <2>2, <2>3, <2>4
<1>4. /\ n \in 1 .. Len(l) - 1 /\ n - 1 \in 0 .. Len(l) - 1 /\ ~(n <= n - 1)
      /\ n + 1 \in 1 .. Len(l) /\ (n - 1) + 1 = n /\ (n + 1) - 1 = n
  BY <1>0, <1>2, <1>3
<1>5. Good(n - 1)
  BY <1>1, <1>4
<1>6. f[n + 1] = IF l[n + 1] \in Items THEN Append(f[n], l[n + 1]) ELSE f[n]
  <2>1. f[n + 1] = IF l[n + 1] \in Items THEN Append(f[(n + 1) - 1], l[n + 1]) ELSE f[(n + 1) - 1]
    BY <1>4, UpToStep
  <2> QED
    BY <1>4, <2>1
<1>7. g[n] = IF l[n + 1] \in Items THEN Append(g[n - 1], l[n + 1]) ELSE g[n - 1]
  <2>1. g[n] = IF Tail(l)[n] \in Items THEN Append(g[n - 1], Tail(l)[n]) ELSE g[n - 1]
    <3> DEFINE t == Tail(l)
    <3>1. t \in Seq(QItems) /\ UpTo(g, t) /\ n \in 1 .. Len(t)
      BY <1>0, <1>4
    <3> HIDE DEF t
    <3>2. g[n] = IF t[n] \in Items THEN Append(g[n - 1], t[n]) ELSE g[n - 1]
      BY <3>1, UpToStep
    <3> QED
      BY <3>2 DEF t
  <2>2. Tail(l)[n] = l[n + 1]
    BY <1>0, <1>4
  <2> QED
    BY <2>1, <2>2
<1>8. IF l[1] \in Items
      THEN f[n] # << >> /\ Head(f[n]) = l[1] /\ Tail(f[n]) = g[n - 1]
      ELSE f[n] = g[n - 1]
  BY <1>4, <1>5
<1>9. f[n] \in Seq(Items)
  <2>1. n \in 0 .. Len(l)
    BY <1>0, <1>2
  <2> QED
    BY <2>1, UpToType
<1>10. Good(n)
  <2>1. CASE l[1] \notin Items \/ l[n + 1] \notin Items
    BY <1>6, <1>7, <1>8, <2>1
  <2>2. CASE l[1] \in Items /\ l[n + 1] \in Items
    <3>1. f[n + 1] = Append(f[n], l[n + 1]) /\ g[n] = Append(Tail(f[n]), l[n + 1])
      BY <1>6, <1>7, <1>8, <2>2
    <3>2. f[n] # << >> /\ Head(f[n]) = l[1]
      BY <1>8, <2>2
    <3>3. Head(f[n + 1]) = l[1] /\ Tail(f[n + 1]) = g[n]
      BY <1>9, <3>1, <3>2, HeadTailAppend
    <3>4. f[n + 1] # << >>
      <4>1. \A s \in Seq(Items) : \A x \in Items : Append(s, x) # << >>
        OBVIOUS
      <4> QED
        BY <1>9, <2>2, <3>1, <4>1
    <3> QED
      BY <2>2, <3>3, <3>4
  <2> QED
    BY <2>1, <2>2
<1> QED
  BY <1>2, <1>10

\* What adding and removing an item does to the client's view of the list.
LEMMA ClientItemsFacts ==
    ASSUME NEW l \in Seq(QItems)
    PROVE  /\ ClientItems(l) \in Seq(Items)
           /\ \A j \in DOMAIN ClientItems(l) : \E i \in DOMAIN l : l[i] = ClientItems(l)[j]
           /\ l = << >> => ClientItems(l) = << >>
<1>1. PICK f : UpTo(f, l) /\ ClientItems(l) = f[Len(l)]
  BY ClientItemsUpTo
<1>2. Len(l) \in Nat /\ Len(l) \in 0 .. Len(l) /\ DOMAIN l = 1 .. Len(l)
  OBVIOUS
<1>3. l = << >> => Len(l) = 0
  BY EmptySeq
<1>4. f[0] = << >>
  BY <1>1, UpToStep
<1>5. /\ f[Len(l)] \in Seq(Items)
      /\ \A j \in DOMAIN f[Len(l)] : \E i \in 1 .. Len(l) : l[i] = f[Len(l)][j]
  BY <1>1, <1>2, UpToType
<1> QED
  BY <1>1, <1>2, <1>3, <1>4, <1>5

LEMMA ClientItemsAppend ==
    ASSUME NEW l \in Seq(QItems), NEW x \in QItems
    PROVE  ClientItems(Append(l, x)) =
              IF x \in Items THEN Append(ClientItems(l), x) ELSE ClientItems(l)
<1> DEFINE m == Append(l, x)
<1>1. /\ m \in Seq(QItems) /\ Len(l) \in Nat /\ Len(m) = Len(l) + 1
      /\ m[Len(l) + 1] = x /\ \A i \in 1 .. Len(l) : l[i] = m[i]
  BY AppendProperties
<1> HIDE DEF m
<1>2. PICK f : UpTo(f, l) /\ ClientItems(l) = f[Len(l)]
  BY ClientItemsUpTo
<1>3. PICK g : UpTo(g, m) /\ ClientItems(m) = g[Len(m)]
  BY <1>1, ClientItemsUpTo
<1>4. Len(l) <= Len(m)
  BY <1>1
<1>5. f[Len(l)] = g[Len(l)]
  BY <1>1, <1>2, <1>3, <1>4, UpToPrefix
<1>6. Len(l) + 1 \in 1 .. Len(m) /\ (Len(l) + 1) - 1 = Len(l)
  BY <1>1
<1>7. g[Len(l) + 1] = IF x \in Items THEN Append(g[Len(l)], x) ELSE g[Len(l)]
  <2>1. g[Len(l) + 1] = IF m[Len(l) + 1] \in Items
                        THEN Append(g[(Len(l) + 1) - 1], m[Len(l) + 1]) ELSE g[(Len(l) + 1) - 1]
    BY <1>1, <1>3, <1>6, UpToStep
  <2> QED
    BY <1>1, <1>6, <2>1
<1>8. ClientItems(m) = IF x \in Items THEN Append(ClientItems(l), x) ELSE ClientItems(l)
  BY <1>1, <1>2, <1>3, <1>5, <1>7
<1> QED
  BY <1>8 DEF m

LEMMA ClientItemsTail ==
    ASSUME NEW l \in Seq(QItems), l # << >>
    PROVE  IF Head(l) \in Items
           THEN /\ ClientItems(l) # << >> /\ Head(ClientItems(l)) = Head(l)
                /\ ClientItems(Tail(l)) = Tail(ClientItems(l))
           ELSE ClientItems(Tail(l)) = ClientItems(l)
<1>1. Tail(l) \in Seq(QItems) /\ Len(Tail(l)) = Len(l) - 1 /\ Len(l) \in Nat /\ Len(l) # 0
  BY HeadTailProperties, EmptySeq
<1>2. PICK f : UpTo(f, l) /\ ClientItems(l) = f[Len(l)]
  BY ClientItemsUpTo
<1>3. PICK g : UpTo(g, Tail(l)) /\ ClientItems(Tail(l)) = g[Len(l) - 1]
  BY <1>1, ClientItemsUpTo
<1>4. Len(l) - 1 \in 0 .. Len(l) - 1 /\ (Len(l) - 1) + 1 = Len(l)
  BY <1>1
<1>5. IF l[1] \in Items
      THEN f[Len(l)] # << >> /\ Head(f[Len(l)]) = l[1] /\ Tail(f[Len(l)]) = g[Len(l) - 1]
      ELSE f[Len(l)] = g[Len(l) - 1]
  BY <1>2, <1>3, <1>4, UpToTail
<1>6. Head(l) = l[1]
  OBVIOUS
<1> QED
  BY <1>2, <1>3, <1>5, <1>6

-----------------------------------------------------------------------------
(* The refinement: every step of the queue is one of WorkQueue or none.        *)

Hands == IF th[Worker].cur \in Items THEN th[Worker].cur ELSE NoItem

LEMMA StutterWQ ==
    ASSUME list' = list, Hands' = Hands
    PROVE  UNCHANGED WQ!vars
<1>1. ClientItems(list)' = ClientItems(list)
  OBVIOUS
<1> QED
  BY <1>1 DEF WQ!vars, Hands

LEMMA FinishWQ ==
    ASSUME list' = list, Hands # NoItem, Hands' = NoItem
    PROVE  WQ!Next
<1>1. ClientItems(list)' = ClientItems(list)
  OBVIOUS
<1>2. WQ!Finish
  BY <1>1 DEF WQ!Finish, Hands
<1> QED
  BY <1>2 DEF WQ!Next

\* An item of a client is submitted; an item of a flush is none of theirs.
LEMMA SubmitWQ ==
    ASSUME TypeOK, NEW i \in QItems, ~Pending(i), list' = Append(list, i), Hands' = Hands
    PROVE  [WQ!Next]_(WQ!vars)
<1>1. list \in Seq(QItems)
  BY DEF TypeOK
<1>2. ClientItems(list)' = IF i \in Items THEN Append(ClientItems(list), i) ELSE ClientItems(list)
  <2>1. ClientItems(list)' = ClientItems(Append(list, i))
    OBVIOUS
  <2> QED
    BY <1>1, <2>1, ClientItemsAppend
<1>3. CASE i \notin Items
  BY <1>2, <1>3 DEF WQ!vars, Hands
<1>4. CASE i \in Items
  <2>1. \A j \in DOMAIN ClientItems(list) : ClientItems(list)[j] # i
    BY <1>1, ClientItemsFacts DEF Pending
  <2>2. WQ!Submit(i)
    BY <1>2, <1>4, <2>1 DEF WQ!Submit, Hands
  <2> QED
    BY <1>4, <2>2 DEF WQ!Next
<1> QED
  BY <1>3, <1>4

LEMMA StartWQ ==
    ASSUME TypeOK, list # << >>, th[Worker].cur = NoItem,
           list' = Tail(list), th'[Worker].cur = Head(list)
    PROVE  [WQ!Next]_(WQ!vars)
<1>1. list \in Seq(QItems)
  BY DEF TypeOK
<1>2. ClientItems(list)' = ClientItems(Tail(list))
  OBVIOUS
<1>3. Hands = NoItem /\ (Head(list) \notin Items => Hands' = NoItem)
      /\ (Head(list) \in Items => Hands' = Head(list))
  BY AgentFacts DEF Hands
<1>4. CASE Head(list) \notin Items
  <2>1. ClientItems(list)' = ClientItems(list)
    BY <1>1, <1>2, <1>4, ClientItemsTail
  <2> QED
    BY <1>3, <1>4, <2>1 DEF WQ!vars, Hands
<1>5. CASE Head(list) \in Items
  <2>1. /\ ClientItems(list) # << >> /\ Head(ClientItems(list)) = Head(list)
        /\ ClientItems(list)' = Tail(ClientItems(list))
    BY <1>1, <1>2, <1>5, ClientItemsTail
  <2>2. WQ!Start
    BY <1>3, <1>5, <2>1 DEF WQ!Start, Hands
  <2> QED
    BY <2>2 DEF WQ!Next
<1> QED
  BY <1>4, <1>5

\* A step that only moves a caller does not touch what the kthread has in hand.
LEMMA CallerWQ ==
    ASSUME TypeOK, NEW u \in Users, NEW r, th' = [th EXCEPT ![u] = r], list' = list
    PROVE  UNCHANGED WQ!vars
<1>1. th'[Worker] = th[Worker]
  BY AgentFacts DEF TypeOK
<1>2. Hands' = Hands
  BY <1>1 DEF Hands
<1> QED
  BY <1>2, StutterWQ

\* The kthread moves on with the same item in hand.
LEMMA GotoWQ ==
    ASSUME TypeOK, NEW pc \in PCs, Goto(Worker, pc)
    PROVE  Hands' = Hands
<1>1. PICK r \in Thread : th' = [th EXCEPT ![Worker] = r] /\ r.cur = th[Worker].cur
  BY AgentFacts, GotoFields
<1>2. th'[Worker] = r
  BY <1>1, AgentFacts, ThreadUpdate
<1> QED
  BY <1>1, <1>2 DEF Hands

\* The kthread is back in its loop: the callback of a client's item is finished,
\* that of a flush item does not count.
LEMMA LoopWQ ==
    ASSUME Inv, th' = [th EXCEPT ![Worker] = MainLoop], list' = list
    PROVE  [WQ!Next]_(WQ!vars)
<1>1. th'[Worker].cur = NoItem
  BY AgentFacts, RecordFacts, ThreadUpdate DEF Inv
<1>2. Hands' = NoItem
  BY <1>1, AgentFacts DEF Hands
<1>3. CASE Hands = NoItem
  BY <1>2, <1>3, StutterWQ
<1>4. CASE Hands # NoItem
  BY <1>2, <1>4, FinishWQ
<1> QED
  BY <1>3, <1>4

LEMMA AddWQ ==
    ASSUME Inv, NEW a \in Agents, Add(a)
    PROVE  [WQ!Next]_(WQ!vars)
<1>0. a \in Users \/ a = Worker
  BY DEF Agents
<1>1. CASE Pending(th[a].item)
  <2>1. list' = list /\ th' = [th EXCEPT ![a] = IF a = Worker THEN MainLoop ELSE Idle]
    BY <1>1 DEF Add, EndCall
  <2>2. CASE a = Worker
    BY <2>1, <2>2, LoopWQ
  <2>3. CASE a # Worker
    BY <1>0, <2>1, <2>3, CallerWQ DEF Inv
  <2> QED
    BY <2>2, <2>3
<1>2. CASE ~Pending(th[a].item)
  <2>1. list' = Append(list, th[a].item) /\ Goto(a, "up") /\ th[a].pc = "add"
    BY <1>2 DEF Add, Insert
  <2>2. th[a].item \in QItems
    <3>1. CASE a \in Users
      <4>1. UserOK(a)
        BY <3>1 DEF Inv, ShapeInv
      <4> QED
        BY <2>1, <3>1, <4>1, AgentFacts DEF UserOK
    <3>2. CASE a = Worker
      <4>1. WorkerOK
        BY DEF Inv, ShapeInv
      <4> QED
        BY <2>1, <3>2, <4>1, AgentFacts DEF WorkerOK, Spawning
    <3> QED
      BY <1>0, <3>1, <3>2
  <2>3. Hands' = Hands
    <3>1. CASE a = Worker
      BY <2>1, <3>1, GotoWQ DEF Inv, PCs
    <3>2. CASE a # Worker
      <4>1. th'[Worker] = th[Worker]
        BY <2>1, <3>2, AgentFacts DEF Goto, Inv, TypeOK
      <4> QED
        BY <4>1 DEF Hands
    <3> QED
      BY <3>1, <3>2
  <2> QED
    BY <1>2, <2>1, <2>2, <2>3, SubmitWQ DEF Inv
<1> QED
  BY <1>1, <1>2

LEMMA CallerStepWQ ==
    ASSUME Inv, NEW u \in Users,
           \/ CheckExit(u) \/ Up(u) \/ nv_kthread_q_flush(u) \/ nv_kthread_q_stop(u)
           \/ Flush(u) \/ Stop(u)
           \/ \E i \in Items : Schedule(u, i) \/ EnqueueWork(u, i)
    PROVE  UNCHANGED WQ!vars
<1>0. TypeOK /\ u # Worker
  BY AgentFacts DEF Inv
<1>1. CASE CheckExit(u) \/ Up(u)
  <2>1. list' = list /\ \E r : th' = [th EXCEPT ![u] = r]
    BY <1>0, <1>1 DEF CheckExit, Up, EndCall, Goto
  <2> QED
    BY <1>0, <2>1, CallerWQ
<1>2. CASE nv_kthread_q_flush(u)
  <2>1. list' = list /\ \E r : th' = [th EXCEPT ![u] = r]
    BY <1>2 DEF nv_kthread_q_flush, Waited, FlushReturn, Goto
  <2> QED
    BY <1>0, <2>1, CallerWQ
<1>3. CASE nv_kthread_q_stop(u)
  <2>1. list' = list /\ \E r : th' = [th EXCEPT ![u] = r]
    BY <1>3 DEF nv_kthread_q_stop, SetExit, Kick, Join, Goto
  <2> QED
    BY <1>0, <2>1, CallerWQ
<1>4. CASE Flush(u) \/ Stop(u) \/ \E i \in Items : Schedule(u, i) \/ EnqueueWork(u, i)
  <2>1. list' = list /\ (th' = th \/ \E r : th' = [th EXCEPT ![u] = r])
    BY <1>4 DEF Flush, Stop, Schedule, EnqueueWork
  <2>2. CASE th' = th
    BY <2>1, <2>2, StutterWQ DEF Hands
  <2> QED
    BY <1>0, <2>1, <2>2, CallerWQ
<1> QED
  BY <1>1, <1>2, <1>3, <1>4

LEMMA MainLoopWQ ==
    ASSUME Inv, CheckExit(Worker) \/ Up(Worker) \/ main_loop
    PROVE  [WQ!Next]_(WQ!vars)
<1>0. TypeOK /\ WorkerOK
  BY DEF Inv, ShapeInv
<1>1. ASSUME NEW pc \in PCs, Goto(Worker, pc), list' = list PROVE UNCHANGED WQ!vars
  BY <1>0, <1>1, GotoWQ, StutterWQ
<1>2. CASE CheckExit(Worker) \/ Up(Worker)
  <2>1. /\ list' = list
        /\ \/ th' = [th EXCEPT ![Worker] = MainLoop]
           \/ Goto(Worker, "add") \/ Goto(Worker, "wait")
    BY <1>2 DEF CheckExit, Up, EndCall
  <2> QED
    BY <1>1, <2>1, LoopWQ DEF PCs
<1>3. CASE Down \/ LookExit \/ Leave
  <2>1. list' = list /\ \E pc \in PCs : Goto(Worker, pc)
    BY <1>3 DEF Down, LookExit, Leave, PCs
  <2> QED
    BY <1>1, <2>1
<1>4. CASE Consume
  <2>1. th[Worker].pc = "consume" /\ list # << >>
    BY <1>4, ConsumeFinds DEF Consume
  <2>2. /\ list' = Tail(list)
        /\ th' = [th EXCEPT ![Worker].pc = "call", ![Worker].cur = Head(list)]
    BY <1>4, <2>1 DEF Consume
  <2>3. th'[Worker].cur = Head(list)
    <3>1. th'[Worker] = [th[Worker] EXCEPT !.pc = "call", !.cur = Head(list)]
      BY <1>0, <2>2, AgentFacts DEF TypeOK
    <3>2. th[Worker] \in Thread
      BY <1>0, AgentFacts DEF TypeOK
    <3> QED
      BY <3>1, <3>2 DEF Thread
  <2>4. th[Worker].cur = NoItem
    BY <1>0, <2>1 DEF WorkerOK, Waiting
  <2> QED
    BY <1>0, <2>1, <2>2, <2>3, <2>4, StartWQ
<1>5. CASE RunFlushItem \/ RunPlain
  <2>1. list' = list /\ th' = [th EXCEPT ![Worker] = MainLoop]
    BY <1>5 DEF RunFlushItem, RunPlain, EndCall
  <2> QED
    BY <2>1, LoopWQ
<1>6. CASE RunSpawning
  <2>1. /\ list' = list
        /\ th' = [th EXCEPT ![Worker].pc = "check", ![Worker].item = Spawns[th[Worker].cur]]
    BY <1>6 DEF RunSpawning
  <2>2. th'[Worker].cur = th[Worker].cur
    <3>1. th'[Worker] = [th[Worker] EXCEPT !.pc = "check", !.item = Spawns[th[Worker].cur]]
      BY <1>0, <2>1, AgentFacts DEF TypeOK
    <3>2. th[Worker] \in Thread
      BY <1>0, AgentFacts DEF TypeOK
    <3> QED
      BY <3>1, <3>2 DEF Thread
  <2> QED
    BY <2>1, <2>2, StutterWQ DEF Hands
<1> QED
  BY <1>2, <1>3, <1>4, <1>5, <1>6 DEF main_loop, RunItem

\* An init finds the list empty and no callback running: it loses nothing.
LEMMA InitQueueWQ ==
    ASSUME Inv, nv_kthread_q_init
    PROVE  UNCHANGED WQ!vars
<1>1. ~kthread /\ list' = << >> /\ (th' = th \/ th' = [th EXCEPT ![Worker] = MainLoop])
  BY DEF nv_kthread_q_init
<1>2. list = << >> /\ th[Worker].pc = "gone" /\ WorkerOK /\ TypeOK
  BY <1>1 DEF Inv, LifeInv, ShapeInv
<1>3. th[Worker].cur = NoItem
  BY <1>2 DEF WorkerOK, Waiting
<1>4. th'[Worker].cur = NoItem
  BY <1>1, <1>2, <1>3, AgentFacts, RecordFacts, ThreadUpdate
<1> QED
  BY <1>1, <1>2, <1>3, <1>4, StutterWQ DEF Hands

LEMMA NextWQ == Inv /\ [Next]_vars => [WQ!Next]_(WQ!vars)
<1> SUFFICES ASSUME Inv, [Next]_vars PROVE [WQ!Next]_(WQ!vars)
  OBVIOUS
<1>1. CASE UNCHANGED vars \/ CeaseRearming
  <2>1. list' = list /\ th' = th
    BY <1>1 DEF vars, CeaseRearming
  <2> QED
    BY <2>1, StutterWQ DEF Hands
<1>2. CASE nv_kthread_q_init
  BY <1>2, InitQueueWQ
<1>3. ASSUME NEW u \in Users,
             \/ UserStep(u) \/ Flush(u) \/ Stop(u)
             \/ \E i \in Items : Schedule(u, i) \/ EnqueueWork(u, i)
      PROVE  [WQ!Next]_(WQ!vars)
  <2>1. CASE Add(u)
    BY <2>1, AddWQ, AgentFacts
  <2>2. CASE ~Add(u)
    BY <1>3, <2>2, CallerStepWQ DEF UserStep, AgentStep
  <2> QED
    BY <2>1, <2>2
<1>4. CASE WorkerStep
  BY <1>4, AddWQ, MainLoopWQ, AgentFacts DEF WorkerStep, AgentStep
<1> QED
  BY <1>1, <1>2, <1>3, <1>4 DEF Next

LEMMA InitWQ == Init => WQ!Init
<1> SUFFICES ASSUME Init PROVE WQ!Init
  OBVIOUS
<1>1. list = << >> /\ << >> \in Seq(QItems)
  BY DEF Init
<1>2. ClientItems(list) = << >>
  BY <1>1, ClientItemsFacts
<1>3. th[Worker].cur = NoItem
  BY AgentFacts DEF Init, MainLoop, Idle
<1> QED
  BY <1>2, <1>3, AgentFacts DEF WQ!Init

\* The list, the semaphore and the kthread implement the safety part of WorkQueue:
\* whatever flushes, stops and later inits do, the callbacks run one at a time and in
\* the order of submission, and no submitted item is dropped, doubled or overtaken.
THEOREM Refinement == Spec => WQ!Safety
<1>1. Init => WQ!Init
  BY InitWQ
<1>2. Inv /\ [Next]_vars => [WQ!Next]_(WQ!vars)
  BY NextWQ
<1> QED
  BY <1>1, <1>2, Invariance, PTL DEF Spec, WQ!Safety
=============================================================================

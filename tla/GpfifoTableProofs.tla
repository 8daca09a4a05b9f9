-------------------------- MODULE GpfifoTableProofs --------------------------
(***************************************************************************)
(* What TLAPS proves of GpfifoTable, for every number of slots, every set   *)
(* of channels and every hash function.                                     *)
(*                                                                         *)
(* The inductive invariant is Inv: the three parts need each other.  That a *)
(* probe that stops at an empty slot has missed nothing follows from        *)
(* ProbeChain; UniqueKey rests on it (a channel is inserted only when it is *)
(* absent), and ProbeChain is kept because removal never empties a slot.    *)
(***************************************************************************)
EXTENDS GpfifoTable, FiniteSetTheorems, TLAPS

Inv == TypeOK /\ UniqueKey /\ ProbeChain

-----------------------------------------------------------------------------
(* The probe sequence                                                         *)

\* A probe visits a slot after a whole number of iterations, fewer than
\* SlotCount: the loop "i < TRACE_DBELL_GPFIFO_SLOTS" reaches every slot.
LEMMA DistType ==
    ASSUME NEW k \in Keys, NEW s \in Slots
    PROVE  Dist(k, s) \in 0 .. SlotCount - 1
<1>1. Hash[k] \in 0 .. SlotCount - 1
  BY HashAssumption DEF Slots
<1> QED
  BY <1>1, SlotCountAssumption DEF Dist, Slots

\* Two slots are never visited in the same iteration.
LEMMA DistInjective ==
    ASSUME NEW k \in Keys, NEW s \in Slots, NEW t \in Slots, Dist(k, s) = Dist(k, t)
    PROVE  s = t
<1>1. Hash[k] \in 0 .. SlotCount - 1
  BY HashAssumption DEF Slots
<1> QED
  BY <1>1, SlotCountAssumption DEF Dist, Slots

\* Slots are totally ordered by the probe sequence of a channel.
LEMMA BeforeTotal ==
    ASSUME NEW k \in Keys, NEW s \in Slots, NEW t \in Slots, s # t
    PROVE  Before(k, s, t) \/ Before(k, t, s)
<1>1. Dist(k, s) # Dist(k, t)
  BY DistInjective
<1>2. Dist(k, s) \in Nat /\ Dist(k, t) \in Nat
  BY DistType, SlotCountAssumption
<1> QED
  BY <1>1, <1>2 DEF Before

LEMMA BeforeIrreflexive ==
    ASSUME NEW k \in Keys, NEW s \in Slots
    PROVE  ~Before(k, s, s)
<1>1. Dist(k, s) \in Nat
  BY DistType, SlotCountAssumption
<1> QED
  BY <1>1 DEF Before

\* A probe that ends at an empty slot, or runs through the whole table, has
\* missed no entry of the channel.
LEMMA NotFoundAbsent ==
    ASSUME Inv, NEW k \in Keys, NotFound(k), NEW s \in Slots
    PROVE  ~Holds(s, k)
<1>1. CASE NoStop(k)
  BY <1>1 DEF NoStop, ProbeStops
<1>2. CASE \E e \in Slots : FirstStop(k, e) /\ table[e].state = EMPTY
  <2>1. PICK e \in Slots : FirstStop(k, e) /\ table[e].state = EMPTY
    BY <1>2
  <2>2. SUFFICES ASSUME Holds(s, k) PROVE FALSE
    OBVIOUS
  <2>3. s # e
    BY <2>1, <2>2 DEF Holds, LIVE, EMPTY
  <2>4. CASE Before(k, s, e)
    BY <2>1, <2>2, <2>4 DEF FirstStop, ProbeStops
  <2>5. CASE Before(k, e, s)
    BY <2>1, <2>2, <2>5 DEF Inv, ProbeChain, Holds
  <2> QED
    BY <2>3, <2>4, <2>5, BeforeTotal
<1> QED
  BY <1>1, <1>2 DEF NotFound

\* Where Register inserts, no live entry is overwritten, and the slots it passed
\* on the way are not empty.
LEMMA InsertSlotFree ==
    ASSUME Inv, NEW k \in Keys, NEW s \in Slots, InsertSlot(k, s)
    PROVE  /\ table[s].state # LIVE
           /\ \A t \in Slots : Before(k, t, s) => table[t].state # EMPTY
           /\ \A t \in Slots : ~Holds(t, k)
<1>1. \A t \in Slots : ~Holds(t, k)
  BY NotFoundAbsent DEF InsertSlot
<1>2. CASE FirstTombstone(k, s)
  BY <1>1, <1>2 DEF FirstTombstone, ProbeStops, TOMBSTONE, LIVE
<1>3. CASE FirstStop(k, s)
  BY <1>1, <1>3 DEF FirstStop, ProbeStops, EMPTY, LIVE
<1> QED
  BY <1>1, <1>2, <1>3 DEF InsertSlot

-----------------------------------------------------------------------------
(* The inductive invariant                                                    *)

LEMMA InitInv == Init => Inv
<1> SUFFICES ASSUME Init PROVE Inv
  OBVIOUS
<1>1. EmptySlot \in Slot
  BY DEF EmptySlot, Slot
<1>2. \A s \in Slots : table[s] = EmptySlot
  BY DEF Init
<1>3. \A s \in Slots : table[s].state # LIVE /\ table[s].key = NoKey
  BY <1>2 DEF EmptySlot, EMPTY, LIVE
<1>4. TypeOK
  BY <1>1, <1>3 DEF Init, TypeOK
<1> QED
  BY <1>3, <1>4 DEF Inv, UniqueKey, ProbeChain

\* An insertion keeps the invariant.
LEMMA StoreInv ==
    ASSUME Inv, NEW k \in Keys, NEW p \in Params, NEW s \in Slots,
           InsertSlot(k, s), Store(s, k, p)
    PROVE  Inv'
<1> DEFINE new == [state |-> LIVE, key |-> k, param |-> p]
<1>1. new \in Slot /\ new.state = LIVE /\ new.key = k /\ new.param = p
  BY DEF Slot
<1>2. table \in [Slots -> Slot]
  BY DEF Inv, TypeOK
<1>3. table' = [table EXCEPT ![s] = new]
  BY DEF Store
<1> HIDE DEF new
<1>4. /\ table' \in [Slots -> Slot]
      /\ table'[s] = new
      /\ \A t \in Slots : t # s => table'[t] = table[t]
  BY <1>1, <1>2, <1>3
<1>5. TypeOK'
  BY <1>1, <1>4 DEF Inv, TypeOK
<1>6. /\ \A t \in Slots : Before(k, t, s) => table[t].state # EMPTY
      /\ \A t \in Slots : ~Holds(t, k)
  BY InsertSlotFree
<1>7. UniqueKey'
  BY <1>1, <1>4, <1>6 DEF Inv, UniqueKey, Holds
<1>8. ProbeChain'
  <2> SUFFICES ASSUME NEW u \in Slots, NEW t \in Slots,
                      table'[u].state = LIVE, Before(table'[u].key, t, u)
               PROVE  table'[t].state # EMPTY
    BY DEF ProbeChain, Before, Dist
  <2>1. CASE t = s
    BY <1>1, <1>4, <2>1 DEF LIVE, EMPTY
  <2>2. CASE t # s /\ u = s
    BY <1>1, <1>4, <1>6, <2>2
  <2>3. CASE t # s /\ u # s
    BY <1>4, <2>3 DEF Inv, ProbeChain
  <2> QED
    BY <2>1, <2>2, <2>3
<1> QED
  BY <1>5, <1>7, <1>8 DEF Inv

\* An update in place keeps the invariant: state and key are not touched.
LEMMA UpdateInv ==
    ASSUME Inv, NEW p \in Params, NEW s \in Slots, table[s].state = LIVE,
           table' = [table EXCEPT ![s].param = p]
    PROVE  Inv'
<1>1. table \in [Slots -> Slot]
  BY DEF Inv, TypeOK
<1>2. /\ table' \in [Slots -> Slot]
      /\ \A t \in Slots : table'[t].state = table[t].state /\ table'[t].key = table[t].key
      /\ \A t \in Slots : t # s => table'[t].param = table[t].param
      /\ table'[s].param = p
  BY <1>1 DEF Slot
<1>3. TypeOK'
  BY <1>2 DEF Inv, TypeOK
<1>4. UniqueKey'
  BY <1>2 DEF Inv, UniqueKey
<1>5. ProbeChain'
  BY <1>2 DEF Inv, ProbeChain, Before, Dist
<1> QED
  BY <1>3, <1>4, <1>5 DEF Inv

\* A removal keeps the invariant: a tombstone is not empty.
LEMMA BuryInv ==
    ASSUME Inv, NEW s \in Slots, Bury(s)
    PROVE  Inv'
<1> DEFINE grave == [state |-> TOMBSTONE, key |-> NoKey, param |-> NoEntries]
<1>1. grave \in Slot /\ grave.state = TOMBSTONE /\ grave.key = NoKey
  BY DEF Slot
<1>2. table \in [Slots -> Slot]
  BY DEF Inv, TypeOK
<1>3. table' = [table EXCEPT ![s] = grave]
  BY DEF Bury
<1> HIDE DEF grave
<1>4. /\ table' \in [Slots -> Slot]
      /\ table'[s] = grave
      /\ \A t \in Slots : t # s => table'[t] = table[t]
  BY <1>1, <1>2, <1>3
<1>5. TypeOK'
  BY <1>1, <1>4 DEF Inv, TypeOK, TOMBSTONE, LIVE
<1>6. UniqueKey'
  BY <1>1, <1>4 DEF Inv, UniqueKey, TOMBSTONE, LIVE
<1>7. ProbeChain'
  <2> SUFFICES ASSUME NEW u \in Slots, NEW t \in Slots,
                      table'[u].state = LIVE, Before(table'[u].key, t, u)
               PROVE  table'[t].state # EMPTY
    BY DEF ProbeChain, Before, Dist
  <2>1. u # s /\ table[u].state = LIVE /\ Before(table[u].key, t, u)
    BY <1>1, <1>4 DEF TOMBSTONE, LIVE
  <2> QED
    BY <1>1, <1>4, <2>1 DEF Inv, ProbeChain, TOMBSTONE, EMPTY
<1> QED
  BY <1>5, <1>6, <1>7 DEF Inv

LEMMA SameTableInv ==
    ASSUME Inv, table' = table
    PROVE  Inv'
BY DEF Inv, TypeOK, UniqueKey, ProbeChain, Before, Dist

LEMMA NextInv == Inv /\ [Next]_vars => Inv'
<1> SUFFICES ASSUME Inv, [Next]_vars PROVE Inv'
  OBVIOUS
<1>1. CASE UNCHANGED vars
  BY <1>1, SameTableInv DEF vars
<1>2. ASSUME NEW k \in Keys, NEW p \in Params \cup {NoEntries}, nvGpuOpsDbellGpfifoRegister(k, p)
      PROVE  Inv'
  <2>1. CASE RegisterIgnored(k, p)
    BY <2>1, SameTableInv DEF RegisterIgnored
  <2>2. CASE RegisterUpdate(k, p)
    <3>1. PICK s \in Slots : FoundAt(k, s) /\ table' = [table EXCEPT ![s].param = p]
      BY <2>2 DEF RegisterUpdate
    <3>2. p \in Params /\ table[s].state = LIVE
      BY <2>2, <3>1 DEF RegisterUpdate, FoundAt, Holds
    <3> QED
      BY <3>1, <3>2, UpdateInv
  <2>3. CASE RegisterNew(k, p)
    <3>1. PICK s \in Slots : InsertSlot(k, s) /\ Store(s, k, p)
      BY <2>3 DEF RegisterNew
    <3>2. p \in Params
      BY <2>3 DEF RegisterNew
    <3> QED
      BY <3>1, <3>2, StoreInv
  <2>4. CASE RegisterFull(k, p)
    BY <2>4, SameTableInv DEF RegisterFull
  <2> QED
    BY <1>2, <2>1, <2>2, <2>3, <2>4 DEF nvGpuOpsDbellGpfifoRegister
<1>3. ASSUME NEW k \in Keys, nvGpuOpsDbellGpfifoUnregister(k)
      PROVE  Inv'
  BY <1>3, BuryInv, SameTableInv DEF nvGpuOpsDbellGpfifoUnregister
<1>4. ASSUME NEW k \in Keys, dbellGpfifoLookup(k)
      PROVE  Inv'
  BY <1>4, SameTableInv DEF dbellGpfifoLookup
<1> QED
  BY <1>1, <1>2, <1>3, <1>4 DEF Next

\* The inductive invariant holds in every reachable state of the table.
THEOREM Invariance == Spec => []Inv
BY InitInv, NextInv, PTL DEF Spec

\* Every slot always holds a legal combination of state, channel and parameters:
\* a live slot has a channel with gpFifoEntries > 0, the others have pGpu = NULL.
THEOREM TypeCorrect == Spec => []TypeOK
<1>1. Inv => TypeOK
  BY DEF Inv
<1> QED
  BY <1>1, Invariance, PTL

\* A channel never occupies two slots, whatever the hash function and however
\* often tombstones were reused.
THEOREM UniqueKeyHolds == Spec => []UniqueKey
<1>1. Inv => UniqueKey
  BY DEF Inv
<1> QED
  BY <1>1, Invariance, PTL

\* The probe chain of a live entry is never broken by an empty slot.
THEOREM ProbeChainHolds == Spec => []ProbeChain
<1>1. Inv => ProbeChain
  BY DEF Inv
<1> QED
  BY <1>1, Invariance, PTL

-----------------------------------------------------------------------------
(* The table implements the bounded map                                       *)

\* The map has the parameters of the entry that holds the channel ...
LEMMA MapOfFound ==
    ASSUME UniqueKey, NEW k \in Keys, NEW s \in Slots, Holds(s, k)
    PROVE  MapOf[k] = table[s].param
<1> DEFINE c == CHOOSE t \in Slots : Holds(t, k)
<1>1. c \in Slots /\ Holds(c, k)
  OBVIOUS
<1>2. c = s
  BY <1>1 DEF UniqueKey, Holds
<1> QED
  BY <1>2 DEF MapOf

\* ... and nothing for a channel that no slot holds.
LEMMA MapOfAbsent ==
    ASSUME NEW k \in Keys, \A s \in Slots : ~Holds(s, k)
    PROVE  MapOf[k] = NoParam
BY DEF MapOf

\* The same of the table after a step.
LEMMA MapOfFoundNext ==
    ASSUME UniqueKey', NEW k \in Keys, NEW s \in Slots, Holds(s, k)'
    PROVE  MapOf'[k] = table'[s].param
<1> DEFINE c == CHOOSE t \in Slots : table'[t].state = LIVE /\ table'[t].key = k
<1>1. c \in Slots /\ table'[c].state = LIVE /\ table'[c].key = k
  BY DEF Holds
<1>2. c = s
  BY <1>1 DEF UniqueKey, Holds
<1> QED
  BY <1>1, <1>2 DEF MapOf, Holds

LEMMA MapOfAbsentNext ==
    ASSUME NEW k \in Keys, \A s \in Slots : ~Holds(s, k)'
    PROVE  MapOf'[k] = NoParam
BY DEF MapOf

\* A channel whose slots are not touched keeps its parameters.
LEMMA MapOfFrame ==
    ASSUME Inv, Inv', NEW j \in Keys,
           \A s \in Slots : Holds(s, j)' <=> Holds(s, j),
           \A s \in Slots : Holds(s, j) => table'[s].param = table[s].param
    PROVE  MapOf'[j] = MapOf[j]
<1>1. CASE \E s \in Slots : Holds(s, j)
  <2>1. PICK s \in Slots : Holds(s, j)
    BY <1>1
  <2>2. MapOf[j] = table[s].param
    BY <2>1, MapOfFound DEF Inv
  <2>3. MapOf'[j] = table'[s].param
    BY <2>1, MapOfFoundNext DEF Inv
  <2> QED
    BY <2>1, <2>2, <2>3
<1>2. CASE \A s \in Slots : ~Holds(s, j)
  BY <1>2, MapOfAbsent, MapOfAbsentNext
<1> QED
  BY <1>1, <1>2

LEMMA SameTableMap ==
    ASSUME table' = table
    PROVE  MapOf' = MapOf
BY DEF MapOf, Holds

\* A store of k's parameters in a slot that holds k or nobody is an update of
\* the map at k.
LEMMA WriteMap ==
    ASSUME Inv, Inv', NEW k \in Keys, NEW s \in Slots, NEW p \in Params,
           table[s].state # LIVE \/ table[s].key = k,
           Holds(s, k)', table'[s].param = p,
           \A t \in Slots : t # s => table'[t] = table[t]
    PROVE  MapOf' = [MapOf EXCEPT ![k] = p]
<1>1. MapOf'[k] = p
  BY MapOfFoundNext DEF Inv
<1>2. ASSUME NEW j \in Keys, j # k PROVE MapOf'[j] = MapOf[j]
  <2>1. ~Holds(s, j) /\ ~Holds(s, j)'
    BY <1>2 DEF Holds
  <2>2. \A t \in Slots : t # s => (Holds(t, j)' <=> Holds(t, j))
    BY DEF Holds
  <2> QED
    BY <1>2, <2>1, <2>2, MapOfFrame
<1>3. /\ MapOf  = [j \in Keys |-> MapOf[j]]
      /\ MapOf' = [j \in Keys |-> MapOf'[j]]
  BY DEF MapOf
<1> HIDE DEF MapOf
<1> QED
  BY <1>1, <1>2, <1>3

\* A removal takes k out of the map.
LEMMA BuryMap ==
    ASSUME Inv, Inv', NEW k \in Keys, NEW s \in Slots, Holds(s, k), Bury(s)
    PROVE  MapOf' = [MapOf EXCEPT ![k] = NoParam]
<1>1. /\ table'[s].state # LIVE
      /\ \A t \in Slots : t # s => table'[t] = table[t]
  BY DEF Bury, Inv, TypeOK, TOMBSTONE, LIVE
<1>2. \A t \in Slots : ~Holds(t, k)'
  BY <1>1 DEF Inv, UniqueKey, Holds
<1>3. MapOf'[k] = NoParam
  BY <1>2, MapOfAbsentNext
<1>4. ASSUME NEW j \in Keys, j # k PROVE MapOf'[j] = MapOf[j]
  <2>1. ~Holds(s, j) /\ ~Holds(s, j)'
    BY <1>1, <1>4 DEF Holds
  <2>2. \A t \in Slots : t # s => (Holds(t, j)' <=> Holds(t, j))
    BY <1>1 DEF Holds
  <2> QED
    BY <1>1, <1>4, <2>1, <2>2, MapOfFrame
<1>5. /\ MapOf  = [j \in Keys |-> MapOf[j]]
      /\ MapOf' = [j \in Keys |-> MapOf'[j]]
  BY DEF MapOf
<1> QED
  BY <1>3, <1>4, <1>5

\* A table in which a registration finds neither an empty slot nor a tombstone
\* holds as many channels as it has slots: nothing is dropped before.
LEMMA FullAtCapacity ==
    ASSUME Inv, NEW k \in Keys, TableFull(k)
    PROVE  Cardinality(Abs!Registered) >= SlotCount
<1> DEFINE f == [s \in Slots |-> table[s].key]
<1>1. \A s \in Slots : table[s].state = LIVE /\ table[s].key \in Keys /\ table[s].param \in Params
  BY DEF TableFull, NoStop, ProbeStops, Inv, TypeOK, Slot
<1>2. \A s \in Slots : MapOf[table[s].key] # NoParam
  <2> TAKE s \in Slots
  <2>1. Holds(s, table[s].key)
    BY <1>1 DEF Holds
  <2>2. MapOf[table[s].key] = table[s].param
    BY <1>1, <2>1, MapOfFound DEF Inv
  <2> QED
    BY <1>1, <2>2, ParamsAssumption
<1>3. f \in [Slots -> Abs!Registered]
  BY <1>1, <1>2 DEF Abs!Registered
<1>4. \A s, t \in Slots : f[s] = f[t] => s = t
  BY <1>1 DEF Inv, UniqueKey
<1>5. f \in Injection(Slots, Abs!Registered)
  BY <1>3, <1>4 DEF Injection, IsInjective
<1>6. Abs!Registered \in SUBSET Keys
  BY DEF Abs!Registered
<1>7. IsFiniteSet(Abs!Registered)
  BY <1>6, KeysAssumption, FS_Subset
<1>8. Cardinality(Slots) <= Cardinality(Abs!Registered)
  BY <1>5, <1>7, FS_Injection
<1>9. Cardinality(Slots) = SlotCount
  BY SlotCountAssumption, FS_Interval DEF Slots
<1>10. Cardinality(Abs!Registered) \in Nat
  BY <1>7, FS_CardinalityType
<1> QED
  BY <1>8, <1>9, <1>10, SlotCountAssumption

LEMMA InitMap == Init => Abs!AbsInit
<1> SUFFICES ASSUME Init PROVE Abs!AbsInit
  OBVIOUS
<1>1. \A k \in Keys, s \in Slots : ~Holds(s, k)
  BY DEF Init, Holds, EmptySlot, EMPTY, LIVE
<1>2. MapOf = [k \in Keys |-> NoParam]
  BY <1>1 DEF MapOf
<1> QED
  BY <1>2 DEF Init, Abs!AbsInit

\* Every registration is a registration of the map.
LEMMA RegisterMap ==
    ASSUME Inv, Inv', NEW k \in Keys, NEW p \in Params \cup {NoEntries},
           nvGpuOpsDbellGpfifoRegister(k, p)
    PROVE  Abs!AbsRegister(k, p)
<1>1. CASE RegisterIgnored(k, p)
  BY <1>1, SameTableMap DEF RegisterIgnored, Abs!AbsRegister, Answer, Abs!Answer
<1>2. CASE RegisterUpdate(k, p)
  <2>1. PICK s \in Slots : FoundAt(k, s) /\ table' = [table EXCEPT ![s].param = p]
    BY <1>2 DEF RegisterUpdate
  <2>2. p \in Params /\ Holds(s, k) /\ table[s].param \in Params
    BY <1>2, <2>1 DEF RegisterUpdate, FoundAt, Holds, Inv, TypeOK
  <2>3. table \in [Slots -> Slot]
    BY DEF Inv, TypeOK
  <2>4. /\ Holds(s, k)'
        /\ table'[s].param = p
        /\ \A t \in Slots : t # s => table'[t] = table[t]
    BY <2>1, <2>2, <2>3 DEF Holds, Slot
  <2>5. MapOf' = [MapOf EXCEPT ![k] = p]
    BY <2>2, <2>4, WriteMap DEF Holds
  <2>6. MapOf[k] # NoParam
    BY <2>2, MapOfFound, ParamsAssumption DEF Inv
  <2> QED
    BY <1>2, <2>2, <2>5, <2>6 DEF RegisterUpdate, Abs!AbsRegister, Answer, Abs!Answer
<1>3. CASE RegisterNew(k, p)
  <2>1. PICK s \in Slots : InsertSlot(k, s) /\ Store(s, k, p)
    BY <1>3 DEF RegisterNew
  <2>2. p \in Params
    BY <1>3 DEF RegisterNew
  <2>3. table[s].state # LIVE /\ \A t \in Slots : ~Holds(t, k)
    BY <2>1, InsertSlotFree
  <2>4. /\ Holds(s, k)'
        /\ table'[s].param = p
        /\ \A t \in Slots : t # s => table'[t] = table[t]
    BY <2>1 DEF Store, Holds, Inv, TypeOK
  <2>5. MapOf' = [MapOf EXCEPT ![k] = p]
    BY <2>2, <2>3, <2>4, WriteMap
  <2>6. MapOf[k] = NoParam
    BY <2>3, MapOfAbsent
  <2> QED
    BY <1>3, <2>2, <2>5, <2>6 DEF RegisterNew, Abs!AbsRegister, Answer, Abs!Answer
<1>4. CASE RegisterFull(k, p)
  <2>1. p \in Params /\ TableFull(k)
    BY <1>4 DEF RegisterFull
  <2>2. MapOf' = MapOf
    BY <1>4, SameTableMap DEF RegisterFull
  <2>3. \A s \in Slots : ~Holds(s, k)
    BY <2>1 DEF TableFull, NoStop, ProbeStops
  <2>4. MapOf[k] = NoParam
    BY <2>3, MapOfAbsent
  <2>5. Abs!Cardinality(Abs!Registered) >= SlotCount
    BY <2>1, FullAtCapacity DEF Cardinality, Abs!Cardinality
  <2> QED
    BY <1>4, <2>1, <2>2, <2>4, <2>5 DEF RegisterFull, Abs!AbsRegister, Answer, Abs!Answer
<1> QED
  BY <1>1, <1>2, <1>3, <1>4 DEF nvGpuOpsDbellGpfifoRegister

\* Every removal is a removal from the map, found or not.
LEMMA UnregisterMap ==
    ASSUME Inv, Inv', NEW k \in Keys, nvGpuOpsDbellGpfifoUnregister(k)
    PROVE  Abs!AbsUnregister(k)
<1>1. CASE \E s \in Slots : FoundAt(k, s) /\ Bury(s)
  <2>1. MapOf' = [MapOf EXCEPT ![k] = NoParam]
    BY <1>1, BuryMap DEF FoundAt
  <2> QED
    BY <2>1 DEF nvGpuOpsDbellGpfifoUnregister, Abs!AbsUnregister, Answer, Abs!Answer
<1>2. CASE NotFound(k) /\ table' = table
  <2>1. MapOf[k] = NoParam
    BY <1>2, NotFoundAbsent, MapOfAbsent
  <2>2. MapOf' = MapOf
    BY <1>2, SameTableMap
  <2>3. MapOf = [j \in Keys |-> MapOf[j]]
    BY DEF MapOf
  <2>4. MapOf = [MapOf EXCEPT ![k] = NoParam]
    BY <2>1, <2>3
  <2> QED
    BY <2>2, <2>4 DEF nvGpuOpsDbellGpfifoUnregister, Abs!AbsUnregister, Answer, Abs!Answer
<1> QED
  BY <1>1, <1>2 DEF nvGpuOpsDbellGpfifoUnregister

\* The resolver's lookup answers what the map holds.
LEMMA LookupMap ==
    ASSUME Inv, NEW k \in Keys, dbellGpfifoLookup(k)
    PROVE  Abs!AbsLookup(k)
<1>1. MapOf' = MapOf
  BY SameTableMap DEF dbellGpfifoLookup
<1>2. CASE \E s \in Slots : FoundAt(k, s) /\ ret' = Answer("lookup", k, table[s].param)
  <2>1. PICK s \in Slots : FoundAt(k, s) /\ ret' = Answer("lookup", k, table[s].param)
    BY <1>2
  <2>2. MapOf[k] = table[s].param
    BY <2>1, MapOfFound DEF FoundAt, Inv
  <2> QED
    BY <1>1, <2>1, <2>2 DEF Abs!AbsLookup, Answer, Abs!Answer
<1>3. CASE NotFound(k) /\ ret' = Answer("lookup", k, NoParam)
  <2>1. MapOf[k] = NoParam
    BY <1>3, NotFoundAbsent, MapOfAbsent
  <2> QED
    BY <1>1, <1>3, <2>1 DEF Abs!AbsLookup, Answer, Abs!Answer
<1> QED
  BY <1>2, <1>3 DEF dbellGpfifoLookup

LEMMA NextMap == Inv /\ Inv' /\ [Next]_vars => [Abs!AbsNext]_(Abs!absVars)
<1> SUFFICES ASSUME Inv, Inv', [Next]_vars PROVE [Abs!AbsNext]_(Abs!absVars)
  OBVIOUS
<1>1. CASE UNCHANGED vars
  <2>1. MapOf' = MapOf /\ ret' = ret
    BY <1>1, SameTableMap DEF vars
  <2> QED
    BY <2>1 DEF Abs!absVars
<1>2. ASSUME NEW k \in Keys, NEW p \in Params \cup {NoEntries}, nvGpuOpsDbellGpfifoRegister(k, p)
      PROVE  Abs!AbsNext
  <2>1. Abs!AbsRegister(k, p)
    BY <1>2, RegisterMap
  <2> QED
    BY <2>1 DEF Abs!AbsNext
<1>3. ASSUME NEW k \in Keys, nvGpuOpsDbellGpfifoUnregister(k) PROVE Abs!AbsNext
  <2>1. Abs!AbsUnregister(k)
    BY <1>3, UnregisterMap
  <2> QED
    BY <2>1 DEF Abs!AbsNext
<1>4. ASSUME NEW k \in Keys, dbellGpfifoLookup(k) PROVE Abs!AbsNext
  <2>1. Abs!AbsLookup(k)
    BY <1>4, LookupMap
  <2> QED
    BY <2>1 DEF Abs!AbsNext
<1> QED
  BY <1>1, <1>2, <1>3, <1>4 DEF Next

\* The hash table implements the bounded map of GpfifoMap: what channel
\* construction, channel destruction and the doorbell resolver see of it is a
\* map that loses a registration only when SlotCount channels are registered.
THEOREM Refinement == Spec => ImplementsMap
<1>1. Init => Abs!AbsInit
  BY InitMap
<1>2. Inv /\ Inv' /\ [Next]_vars => [Abs!AbsNext]_(Abs!absVars)
  BY NextMap
<1> QED
  BY <1>1, <1>2, Invariance, PTL DEF Spec, ImplementsMap, Abs!AbsSpec
=============================================================================

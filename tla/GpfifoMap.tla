------------------------------ MODULE GpfifoMap ------------------------------
(***************************************************************************)
(* What the GPFIFO parameter table of nv_gpu_ops.c promises its callers: a  *)
(* partial map from channels (pGpu, runlist, chid) to the GPFIFO parameters *)
(* (gpFifoOffset, gpFifoEntries) given at channel construction, of bounded  *)
(* capacity.  Nothing of the hash, the probing or the tombstones shows.     *)
(***************************************************************************)
EXTENDS Naturals, FiniteSets

CONSTANTS
    Keys,       \* channels: (pGpu, runlist, chid) triples
    Params,     \* usable GPFIFO parameters: gpFifoEntries > 0
    NoEntries,  \* parameters whose gpFifoEntries is 0
    NoParam,    \* "not in the table"
    Capacity    \* TRACE_DBELL_GPFIFO_SLOTS

VARIABLES
    map,        \* the parameters of every channel, NoParam if it has none
    ret         \* the last operation, its channel and what it answered

absVars == <<map, ret>>

Answer(op, k, r) == [op |-> op, key |-> k, res |-> r]

Registered == {k \in Keys : map[k] # NoParam}

AbsInit ==
    /\ map = [k \in Keys |-> NoParam]
    /\ ret = [op |-> "none"]

\* A registration is dropped only when it carries no entries or when the table
\* holds as many channels as it has slots; it is "new" exactly when the channel
\* was absent, which is what makes the caller start a pre-resolve.
AbsRegister(k, p) ==
    \/ /\ p = NoEntries
       /\ map' = map
       /\ ret' = Answer("register", k, "ignored")
    \/ /\ p \in Params
       /\ map[k] # NoParam
       /\ map' = [map EXCEPT ![k] = p]
       /\ ret' = Answer("register", k, "update")
    \/ /\ p \in Params
       /\ map[k] = NoParam
       /\ map' = [map EXCEPT ![k] = p]
       /\ ret' = Answer("register", k, "new")
    \/ /\ p \in Params
       /\ map[k] = NoParam
       /\ Cardinality(Registered) >= Capacity
       /\ map' = map
       /\ ret' = Answer("register", k, "full")

AbsUnregister(k) ==
    /\ map' = [map EXCEPT ![k] = NoParam]
    /\ ret' = Answer("unregister", k, "done")

AbsLookup(k) ==
    /\ map' = map
    /\ ret' = Answer("lookup", k, map[k])

AbsNext ==
    \E k \in Keys :
        \/ \E p \in Params \cup {NoEntries} : AbsRegister(k, p)
        \/ AbsUnregister(k)
        \/ AbsLookup(k)

AbsSpec == AbsInit /\ [][AbsNext]_absVars
=============================================================================

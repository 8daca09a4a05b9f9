-------------------------------- MODULE Pbcap --------------------------------
(***************************************************************************)
(* The doorbell watchpoint of the LD_PRELOAD shim pbcap.c: the table of      *)
(* mappings, the write protection of the 64 KiB doorbell windows, and the    *)
(* SIGSEGV / single-step / SIGTRAP sequence that lets one store through.     *)
(*                                                                         *)
(* Windows come and go through the hooks of mmap and munmap, or by libcuda's *)
(* own system calls: the scan before a cudaMemcpy makes up for a mapping the *)
(* hook has not seen, and nothing for such an unmapping, which leaves its    *)
(* row behind.  Any number of threads map and scan at once, and the table    *)
(* may fill.  Protections are per process: while one thread steps over its   *)
(* store, the window is open to every thread.  Handlers read the table row   *)
(* by row, without its mutex.                                                *)
(*                                                                         *)
(* The application does not store to a window before mmap has returned or    *)
(* after munmap is called, and does not unmap one that another thread is      *)
(* storing to, mapping, or about to arm in a scan.                           *)
(***************************************************************************)
EXTENDS Naturals, Sequences

CONSTANTS
    Mappers,    \* threads that map, unmap and call cudaMemcpy
    Ringers,    \* threads that write doorbells
    Windows,    \* the addresses of doorbell windows
    NULL,       \* an empty row
    TableSize   \* MAX_MAPPINGS

Threads == Mappers \cup Ringers
Rows == 1 .. TableSize

ASSUME TableAssumption == NULL \notin Windows /\ TableSize \in Nat

VARIABLES
    rows,     \* g_maps: the USERMODE_BAR0 window in each row, or NULL
    prot,     \* the protection of each window: unmapped "none", "rw" or "r"
    armed,    \* ghost: windows that have been armed since they were mapped
    stale,    \* ghost: windows that had a row already when they were mapped
    dropped,  \* ghost: windows that once found the table full
    th        \* program counter and locals of each thread

vars == <<rows, prot, armed, stale, dropped, th>>

PCs == {"user", "record", "arm", "unmap", "scan", "scanarm",
        "segv", "open", "step", "trap", "rearm", "close", "crash"}

\* w is the window at hand, i the row the lookup is at, pending the thread-local
\* g_dbell_pending, events what the store in progress has been traced as; todo and
\* the ghost seen (the windows mapped ever since the maps were read) are the scan's.
Thread == [pc : PCs, w : Windows \cup {NULL}, i : 1 .. TableSize + 1,
           pending : Windows \cup {NULL}, events : {<<>>} \cup {<<w>> : w \in Windows},
           todo : SUBSET Windows, seen : SUBSET Windows]

TypeOK ==
    /\ rows \in [Rows -> Windows \cup {NULL}]
    /\ prot \in [Windows -> {"none", "rw", "r"}]
    /\ armed \subseteq Windows /\ stale \subseteq Windows /\ dropped \subseteq Windows
    /\ th \in [Threads -> Thread]

InUser == [pc |-> "user", w |-> NULL, i |-> 1, pending |-> NULL, events |-> <<>>,
           todo |-> {}, seen |-> {}]

Init ==
    /\ rows = [j \in Rows |-> NULL]
    /\ prot = [w \in Windows |-> "none"]
    /\ armed = {} /\ stale = {} /\ dropped = {}
    /\ th = [t \in Threads |-> InUser]

At(t, pc, w) == th' = [th EXCEPT ![t].pc = pc, ![t].w = w]

\* Some thread is at one of the points pcs, at work on w.
Busy(pcs, w) == \E t \in Threads : th[t].pc \in pcs /\ th[t].w = w

\* What the scan looks for under the mutex.
Entered(w) == \E j \in Rows : rows[j] = w

FirstRow(j, v) == rows[j] = v /\ \A l \in Rows : rows[l] = v => j <= l

\* Mutant of AddRow: no entry is made.
AddRowForgotten(w) == UNCHANGED <<rows, dropped>>

\* The first empty row, if there is one; addr is published last.
AddRow(w) ==
    \/ /\ \E j \in Rows : FirstRow(j, NULL) /\ rows' = [rows EXCEPT ![j] = w]
       /\ UNCHANGED dropped
    \/ /\ ~Entered(NULL)
       /\ dropped' = dropped \cup {w}
       /\ UNCHANGED rows

\* map_forget, under the mutex: the first row of the window, if it has one.
map_forget(w) ==
    \/ \E j \in Rows : FirstRow(j, w) /\ rows' = [rows EXCEPT ![j] = NULL]
    \/ ~Entered(w) /\ UNCHANGED rows

\* mprotect(PROT_READ), which fails on an address that is not mapped.
dbell_arm_mapping(w) ==
    IF prot[w] = "none"
    THEN UNCHANGED <<prot, armed>>
    ELSE prot' = [prot EXCEPT ![w] = "r"] /\ armed' = armed \cup {w}

-----------------------------------------------------------------------------
(* The hooks of mmap and munmap, and libcuda's direct system calls.            *)

\* The kernel gives an address out; a row may be left from its last use.
Map(w) ==
    /\ prot[w] = "none"
    /\ prot' = [prot EXCEPT ![w] = "rw"]
    /\ stale' = IF Entered(w) THEN stale \cup {w} ELSE stale
    /\ UNCHANGED <<rows, armed, dropped>>

MmapHook(t, w) ==
    /\ t \in Mappers /\ th[t].pc = "user"
    /\ Map(w)
    /\ At(t, "record", w)

\* map_record: under the mutex a row, and after the unlock the protection.
Record(t) ==
    /\ th[t].pc = "record"
    /\ AddRow(th[t].w)
    /\ At(t, "arm", th[t].w)
    /\ UNCHANGED <<prot, armed, stale>>

ArmRecorded(t) ==
    /\ th[t].pc = "arm"
    /\ dbell_arm_mapping(th[t].w)
    /\ At(t, "user", NULL)
    /\ UNCHANGED <<rows, stale, dropped>>

\* libcuda "appears to call the mmap syscall directly": the hook sees nothing.
MmapDirect(t, w) ==
    /\ t \in Mappers /\ th[t].pc = "user"
    /\ Map(w)
    /\ UNCHANGED th

\* The application's discipline: nobody stores to w, maps it, unmaps it, or has it
\* before him in a scan.
Idle(w) ==
    /\ ~Busy(PCs \ {"user", "crash"}, w)
    /\ \A t \in Threads : w \notin th[t].todo

\* The pages go away, and a scan can no longer be asked to have armed them.
Unmap(f, w) ==
    /\ prot' = [prot EXCEPT ![w] = "none"]
    /\ armed' = armed \ {w}
    /\ stale' = stale \ {w}
    /\ th' = [u \in Threads |-> [f[u] EXCEPT !.seen = @ \ {w}]]

\* The munmap hook forgets the row ...
MunmapHook(t, w) ==
    /\ t \in Mappers /\ th[t].pc = "user" /\ prot[w] # "none" /\ Idle(w)
    /\ map_forget(w)
    /\ At(t, "unmap", w)
    /\ UNCHANGED <<prot, armed, stale, dropped>>

\* ... and then unmaps the window.
RealMunmap(t) ==
    /\ th[t].pc = "unmap"
    /\ Unmap([th EXCEPT ![t] = InUser], th[t].w)
    /\ UNCHANGED <<rows, dropped>>

\* libcuda's own munmap: the row stays.
MunmapDirect(t, w) ==
    /\ t \in Mappers /\ th[t].pc = "user" /\ prot[w] # "none" /\ Idle(w)
    /\ Unmap(th, w)
    /\ UNCHANGED <<rows, dropped>>

-----------------------------------------------------------------------------
(* dbell_scan_and_arm, called before every cudaMemcpy.                         *)

\* /proc/self/maps is read: the writable windows.
ScanBegin(t) ==
    /\ t \in Mappers /\ th[t].pc = "user"
    /\ th' = [th EXCEPT ![t] = [InUser EXCEPT !.pc = "scan",
          !.todo = {w \in Windows : prot[w] = "rw"}, !.seen = {w \in Windows : prot[w] # "none"}]]
    /\ UNCHANGED <<rows, prot, armed, stale, dropped>>

\* Mutant of ScanKnown: the scan ends at the first window it knows.
ScanKnownStops(t, w) ==
    /\ th[t].pc = "scan" /\ w \in th[t].todo /\ Entered(w)
    /\ th' = [th EXCEPT ![t].todo = {}]
    /\ UNCHANGED <<rows, prot, armed, stale, dropped>>

\* "Already tracked?": the window is left to whoever entered it.
ScanKnown(t, w) ==
    /\ th[t].pc = "scan" /\ w \in th[t].todo /\ Entered(w)
    /\ th' = [th EXCEPT ![t].todo = @ \ {w}]
    /\ UNCHANGED <<rows, prot, armed, stale, dropped>>

\* A new window is entered under the mutex and armed after it.
ScanNew(t, w) ==
    /\ th[t].pc = "scan" /\ w \in th[t].todo /\ ~Entered(w)
    /\ AddRow(w)
    /\ th' = [th EXCEPT ![t].pc = "scanarm", ![t].w = w, ![t].todo = @ \ {w}]
    /\ UNCHANGED <<prot, armed, stale>>

ScanArm(t) ==
    /\ th[t].pc = "scanarm"
    /\ dbell_arm_mapping(th[t].w)
    /\ At(t, "scan", NULL)
    /\ UNCHANGED <<rows, stale, dropped>>

ScanEnd(t) ==
    /\ th[t].pc = "scan" /\ th[t].todo = {}
    /\ th' = [th EXCEPT ![t] = InUser]
    /\ UNCHANGED <<rows, prot, armed, stale, dropped>>

dbell_scan_and_arm(t) ==
    (\E w \in Windows : ScanKnown(t, w) \/ ScanNew(t, w)) \/ ScanArm(t) \/ ScanEnd(t)

-----------------------------------------------------------------------------
(* A doorbell write, and the two signal handlers.                              *)

\* A store to a read-only window faults; one to an open window goes through and
\* leaves no trace.  Nobody is mapping or unmapping the window.
Store(t, w) ==
    /\ t \in Ringers /\ th[t].pc = "user" /\ ~Busy({"record", "arm", "unmap"}, w) /\ prot[w] = "r"
    /\ At(t, "segv", w)
    /\ UNCHANGED <<rows, prot, armed, stale, dropped>>

\* The rows are tried one at a time, without the mutex, until one holds the address
\* or the table ends; then the handler goes on at pc with row i.
dbell_find_mapping(t, pc) ==
    /\ th' = IF th[t].i \in Rows /\ rows[th[t].i] # th[t].w
             THEN [th EXCEPT ![t].i = @ + 1]
             ELSE [th EXCEPT ![t].pc = pc]
    /\ UNCHANGED <<rows, prot, armed, stale, dropped>>

SegvLookup(t) == th[t].pc = "segv" /\ dbell_find_mapping(t, "open")

\* mprotect of the address in a row, which fails on one that is not mapped.
SetProt(w, p) == prot' = IF w \in Windows /\ prot[w] # "none" THEN [prot EXCEPT ![w] = p] ELSE prot

\* The address is read again and stashed for sig_trap, and TF set.
Stepping(t) == [th EXCEPT ![t].pc = "step", ![t].pending = rows[th[t].i], ![t].i = 1]

\* Mutants of sig_segv: TF is not set, so no SIGTRAP follows the store; the page
\* is not opened; g_dbell_pending is one variable for all threads.
SegvNoStep(t) ==
    /\ th[t].pc = "open"
    /\ IF th[t].i \in Rows
       THEN SetProt(rows[th[t].i], "rw") /\ th' = [th EXCEPT ![t] = InUser]
       ELSE At(t, "crash", th[t].w) /\ UNCHANGED prot
    /\ UNCHANGED <<rows, armed, stale, dropped>>

SegvStaysArmed(t) ==
    /\ th[t].pc = "open"
    /\ IF th[t].i \in Rows THEN th' = Stepping(t) ELSE At(t, "crash", th[t].w)
    /\ UNCHANGED <<rows, prot, armed, stale, dropped>>

SegvSharedPending(t) ==
    /\ th[t].pc = "open"
    /\ IF th[t].i \in Rows
       THEN /\ SetProt(rows[th[t].i], "rw")
            /\ th' = [u \in Threads |-> [Stepping(t)[u] EXCEPT !.pending = rows[th[t].i]]]
       ELSE At(t, "crash", th[t].w) /\ UNCHANGED prot
    /\ UNCHANGED <<rows, armed, stale, dropped>>

\* sig_segv after its lookup; a fault that is "not one of ours" is given back to
\* the default action.
sig_segv(t) ==
    /\ th[t].pc = "open"
    /\ IF th[t].i \in Rows
       THEN SetProt(rows[th[t].i], "rw") /\ th' = Stepping(t)
       ELSE At(t, "crash", th[t].w) /\ UNCHANGED prot
    /\ UNCHANGED <<rows, armed, stale, dropped>>

\* The store is replayed; it faults again when another thread's handler has closed
\* the window meanwhile.
Replay(t) ==
    /\ th[t].pc = "step"
    /\ At(t, IF prot[th[t].w] = "rw" THEN "trap" ELSE "segv", th[t].w)
    /\ UNCHANGED <<rows, prot, armed, stale, dropped>>

\* Mutant of sig_trap: the event is written in two places.
SigTrapTwice(t) ==
    /\ th[t].pc = "trap"
    /\ th' = [th EXCEPT ![t].pc = "rearm", ![t].w = th[t].pending, ![t].pending = NULL,
                        ![t].events = @ \o <<th[t].pending, th[t].pending>>]
    /\ UNCHANGED <<rows, prot, armed, stale, dropped>>

\* sig_trap up to the snapshot: the pending window is taken and the doorbell event
\* emitted; a trap with nothing pending returns at once.
sig_trap(t) ==
    /\ th[t].pc = "trap"
    /\ th' = IF th[t].pending = NULL
             THEN [th EXCEPT ![t] = InUser]
             ELSE [th EXCEPT ![t].pc = "rearm", ![t].w = th[t].pending, ![t].pending = NULL,
                             ![t].events = Append(@, th[t].pending)]
    /\ UNCHANGED <<rows, prot, armed, stale, dropped>>

RearmLookup(t) == th[t].pc = "rearm" /\ dbell_find_mapping(t, "close")

\* The end of sig_trap: the window is closed again, whoever else is stepping.
Rearm(t) ==
    /\ th[t].pc = "close"
    /\ IF th[t].i \in Rows THEN SetProt(rows[th[t].i], "r") ELSE UNCHANGED prot
    /\ th' = [th EXCEPT ![t] = InUser]
    /\ UNCHANGED <<rows, armed, stale, dropped>>

SignalStep(t) ==
    SegvLookup(t) \/ sig_segv(t) \/ Replay(t) \/ sig_trap(t) \/ RearmLookup(t) \/ Rearm(t)

-----------------------------------------------------------------------------
HookStep(t) == Record(t) \/ ArmRecorded(t) \/ RealMunmap(t) \/ dbell_scan_and_arm(t)

Next ==
    \E t \in Threads :
        \/ HookStep(t) \/ SignalStep(t) \/ ScanBegin(t)
        \/ \E w \in Windows :
              \/ MmapHook(t, w) \/ MmapDirect(t, w)
              \/ MunmapHook(t, w) \/ MunmapDirect(t, w) \/ Store(t, w)

Spec == Init /\ [][Next]_vars

\* A thread on its way through a fault runs on.
FairSpec == Spec /\ \A t \in Ringers : WF_vars(SignalStep(t))

-----------------------------------------------------------------------------
\* The shim makes the traced program crash only for a window that once found all
\* MAX_MAPPINGS rows taken and was armed all the same: in every other case a window
\* that faults has a row and the walk over the table meets it, although windows are
\* entered twice, armed and forgotten while other threads store.
NoFalseCrash == \A t \in Threads : th[t].pc = "crash" => th[t].w \in dropped

\* An armed window is closed unless a thread is on its way through it: however the
\* handlers of several threads interleave, the last one leaves the window armed.
QuietArmed == \A w \in armed : Busy({"step", "trap", "rearm", "close"}, w) \/ prot[w] = "r"

\* "Call this periodically ... so the doorbell watchpoint is armed by the time CUDA
\* submits work": when the scan is done, every window that was mapped when it began,
\* through the hook or not, and still is, has been armed or is about to be by the
\* thread that entered its row.  The exception is a window mapped over a row that
\* was left behind, which line 1221 takes for a window already seen to.
ScanArms ==
    \A t \in Threads : th[t].pc = "scan" /\ th[t].todo = {} =>
        \A w \in th[t].seen : w \in armed \cup stale \/ Busy({"arm", "scanarm"}, w)

\* A store that faults is traced once, when it has gone through, and as a store to
\* its own window, even when it is replayed several times because other threads
\* close the window under it: each SIGTRAP finds what its own thread's SIGSEGV left.
OneEventPerFault ==
    \A t \in Threads :
        /\ th[t].pc \in {"segv", "open", "step", "trap"} => th[t].events = <<>>
        /\ th[t].pc \in {"step", "trap"} => th[t].pending = th[t].w
        /\ th[t].pc \in {"rearm", "close"} => th[t].events = <<th[t].w>>

\* Faulting stores do not fault for ever: one of the threads gets through, unless
\* the table was full.
StoresProgress ==
    (\E t \in Threads : th[t].pc = "segv") ~> (\E t \in Threads : th[t].pc \in {"trap", "crash"})
=============================================================================

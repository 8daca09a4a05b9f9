------------------------------ MODULE WorkQueue ------------------------------
(***************************************************************************)
(* What nv_kthread_q promises its clients: submitted items run one at a     *)
(* time, in the order of submission, an item that is pending is not         *)
(* submitted again, and none is lost, whatever flush, stop and init do.     *)
(* The cache of the doorbell watcher is modelled against this queue.        *)
(***************************************************************************)
EXTENDS Sequences

CONSTANTS Items, NoItem

VARIABLES pending, running

vars == <<pending, running>>

Init == pending = << >> /\ running = NoItem

Submit(i) ==
    /\ ~\E j \in DOMAIN pending : pending[j] = i
    /\ pending' = Append(pending, i)
    /\ UNCHANGED running

Start ==
    /\ running = NoItem /\ pending # << >>
    /\ running' = Head(pending)
    /\ pending' = Tail(pending)

Finish ==
    /\ running # NoItem
    /\ running' = NoItem
    /\ UNCHANGED pending

Next == (\E i \in Items : Submit(i)) \/ Start \/ Finish

\* What never happens, and that every submitted item is run in the end.
Safety == Init /\ [][Next]_vars

Spec == Safety /\ WF_vars(Start) /\ WF_vars(Finish)
=============================================================================

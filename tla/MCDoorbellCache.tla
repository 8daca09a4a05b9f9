--------------------------- MODULE MCDoorbellCache ---------------------------
(***************************************************************************)
(* Two channels.  k1 keeps its USERD at a small offset of a BAR1 mapping,     *)
(* one that lies inside every mapping; k2 in RM's own pool or, with            *)
(* MCSpaceSys, in system memory.  k1 is chid 0 of runlist 0, the pair a        *)
(* zeroed entry holds.  The rings are in the other mapping when there is       *)
(* one.  The cfgs choose the mappings, and which of them are torn down.        *)
(***************************************************************************)
EXTENDS DoorbellCache, TLC

CONSTANTS k1, k2, m1

MCSize == [m \in Maps |-> IF m = m1 THEN 2 ELSE 1]
MCNeed == [k \in Keys |-> IF k = k1 THEN 1 ELSE 2]
MCHome == [k \in Keys |-> m1]
MCId == [k \in Keys \cup {NoKey} |-> IF k = k2 THEN 2 ELSE 0]
MCSpace == [k \in Keys |-> IF k = k1 THEN "fb" ELSE "pool"]
MCSpaceSys == [k \in Keys |-> IF k = k1 THEN "fb" ELSE "sys"]
MCCovers == {<<m, k>> \in Maps \X Keys : Maps = {m1} \/ m # m1}
Symmetry == Permutations(Threads)
=============================================================================

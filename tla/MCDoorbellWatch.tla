--------------------------- MODULE MCDoorbellWatch ---------------------------
(***************************************************************************)
(* One process with two windows (the BAR0 and the BAR1 variant a CUDA       *)
(* process maps), and a second process with one window and one thread.      *)
(***************************************************************************)
EXTENDS DoorbellWatch, TLC

CONSTANTS v1, v2, v3, t1, t2, t3

MCProcOf == [x \in Vmas \cup Threads |-> IF x \in {v3, t3} THEN "q" ELSE "p"]
=============================================================================

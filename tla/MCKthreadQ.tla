----------------------------- MODULE MCKthreadQ -----------------------------
(***************************************************************************)
(* Two callers, an item that reschedules itself until told to cease, and a   *)
(* work item of the doorbell resolver.                                       *)
(***************************************************************************)
EXTENDS KthreadQ, TLC

CONSTANTS tick, work

MCSpawns == (tick :> tick) @@ (work :> NoItem)
=============================================================================

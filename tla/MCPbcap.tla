------------------------------- MODULE MCPbcap -------------------------------
(***************************************************************************)
(* Two threads that map, unmap and copy, one of which also rings, and one    *)
(* that only rings; two windows and two rows, so that a window entered twice *)
(* fills the table.                                                          *)
(***************************************************************************)
EXTENDS Pbcap
=============================================================================

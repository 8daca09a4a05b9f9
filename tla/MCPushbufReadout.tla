-------------------------- MODULE MCPushbufReadout --------------------------
(***************************************************************************)
(* A thread with a channel of four ring entries; two large mappings side by  *)
(* side, b2 beginning where b1 ends, and a tracker with one row.  The two    *)
(* pushbuffers are a chunk and a half and one chunk long.                    *)
(***************************************************************************)
EXTENDS PushbufReadout

CONSTANTS t1, c1, b1, b2

MCRings == {<<t1, c1>>}
MCStart == [m \in Bufs |-> IF m = b1 THEN 4 ELSE 8]
MCEnd == [m \in Bufs |-> IF m = b1 THEN 8 ELSE 12]
MCPushbufs == {[buf |-> b1, off |-> 0, len |-> 3], [buf |-> b2, off |-> 0, len |-> 2]}
=============================================================================

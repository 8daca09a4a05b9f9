---------------------------- MODULE MCGpfifoTable ----------------------------
(***************************************************************************)
(* Five channels in four slots, so that the table wraps, collides, fills    *)
(* with live entries and fills with tombstones.  Two channels share a home  *)
(* slot at the end of the table, two one in the middle.                     *)
(***************************************************************************)
EXTENDS GpfifoTable, TLC

CONSTANTS c1, c2, c3, c4, c5, p1, p2

MCKeys == {c1, c2, c3, c4, c5}
MCParams == {p1, p2}
MCHash == c1 :> 3 @@ c2 :> 3 @@ c3 :> 0 @@ c4 :> 1 @@ c5 :> 1

\* Channels with the same home slot are interchangeable, and so are the
\* parameters: nothing but equality is asked of them.
Symmetry == Permutations({c1, c2}) \cup Permutations({c4, c5}) \cup Permutations(MCParams)
=============================================================================

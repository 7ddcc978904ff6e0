-------------------------- MODULE MCResourceGrowth ---------------------------
(* Growth of the hash from four slots with two probes.  Slots 2, 3 and, by
   wrapping around, 0 fill up.  In 16 slots a2 has a place of its own, and there
   is room for the third; but if a3, in slot 0, is moved first and takes slot 3,
   a1 and a4, which share their slot in every table, do not both find a place
   (TRY_AGAIN).  The size then goes round from 64 to 1. *)
EXTENDS ResourceTable, TLC

CONSTANTS a1, a2, a3, a4, c1, r1, r2, r3, r4

MCAddress == {a1, a2, a3, a4}
MCCounter == {c1}
MCRecord == {r1, r2, r3, r4}
MCHome == (a1 :> 2) @@ (a2 :> 6) @@ (a3 :> 3) @@ (a4 :> 66) @@ (Zero :> 0)
MCSizes == {1}
=============================================================================

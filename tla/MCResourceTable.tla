-------------------------- MODULE MCResourceTable ---------------------------
(* Three addresses that all start at slot 1 of a table of two slots and two
   probes: the third one grows the table to 8, where they collide again.  An
   unsigned ends at 32, so the size goes round to 1, where two do not fit, to 4,
   where three do not, and to 16, where they do. *)
EXTENDS ResourceHistory, TLC

CONSTANTS a1, a2, a3, c1, c2, r1, r2, r3

MCAddress == {a1, a2, a3}
MCCounter == {c1, c2}
MCRecord == {r1, r2, r3}
MCHome == (a1 :> 1) @@ (a2 :> 9) @@ (a3 :> 17) @@ (Zero :> 0)
MCSizes == {1, 2}
MCSymmetry == Permutations(MCRecord) \cup Permutations(MCCounter)
=============================================================================

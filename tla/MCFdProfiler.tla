---------------------------- MODULE MCFdProfiler ----------------------------
(* Two threads, two descriptors and two call sites. *)
EXTENDS FdProfiler, TLC

CONSTANTS t1, t2, s1, s2

MCThread == {t1, t2}
MCSite == {s1, s2}
MCFd == 3 .. 4
MCSymmetry == Permutations(MCThread) \cup Permutations(MCSite)
=============================================================================

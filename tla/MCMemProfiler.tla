--------------------------- MODULE MCMemProfiler ---------------------------
(* Two threads and two blocks that are reused at once.  A block of one byte
   has two usable ones, a block of two has no overhead.  The plain programs of
   the memory profiler are run with each way to account overhead; all calls
   with all outcomes, requests for zero bytes, and profilers that are switched
   off and on, with both profilers; and with both, threads that end and exit(),
   for requests of one byte. *)
EXTENDS MemProfiler, TLC

CONSTANTS t1, t2, a1, a2, s1, s2

MCThread == {t1, t2}
MCAddress == {a1, a2}
MCSite == {s1, s2}
MCSizes == {0, 1, 2}
MCUsable == (0 :> 1) @@ (1 :> 2) @@ (2 :> 2)

AllOutcomes == {"moved", "kept", "failed"}
PlainMode(o, sites) ==
  [profiler |-> "mem", overhead |-> o, sizes |-> {1, 2}, toggles |-> FALSE, ends |-> FALSE,
   sites |-> sites,
   calls |-> {"malloc", "free", "realloc"}, outcomes |-> AllOutcomes]
FullMode(p, n, c) ==
  [profiler |-> p, overhead |-> "none", sizes |-> n, toggles |-> TRUE, ends |-> FALSE,
   sites |-> {s1},
   calls |-> c, outcomes |-> AllOutcomes]
EndingMode(p, c) ==
  [profiler |-> p, overhead |-> "none", sizes |-> {1}, toggles |-> FALSE, ends |-> TRUE,
   sites |-> {s1}, calls |-> c, outcomes |-> AllOutcomes]
MCModes == {PlainMode("none", MCSite), PlainMode("with", {s1}), PlainMode("delta", {s1})}
           \cup {FullMode("mem", {0, 1}, {"malloc", "free", "realloc"}),
                 FullMode("mem", {1}, {"free", "realloc", "memalign"}),
                 FullMode("empty", {0, 1}, {"malloc", "free", "realloc"})}
           \cup {EndingMode("mem", {"malloc", "free", "realloc"}),
                 EndingMode("empty", {"malloc", "free", "realloc"})}

RaceMode == [profiler |-> "empty", overhead |-> "none", sizes |-> {1}, sites |-> {s1},
             toggles |-> FALSE, ends |-> FALSE, calls |-> {"malloc", "free", "realloc"},
             outcomes |-> {"moved"}]
MCRaceModes == {RaceMode}

MCSymmetry == Permutations(MCThread) \cup Permutations(MCAddress)
=============================================================================

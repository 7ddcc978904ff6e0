---------------------------- MODULE MCStackTree ----------------------------
(* Two threads, stacks of two addresses up to the maximal depth, the empty
   stack, and the stack of a thread whose outermost address the unwinder left
   null.  The profiler is the performance profiler, the energy profiler on a
   machine that reports all four domains, or the memory profiler. *)
EXTENDS StackTree, TLC

CONSTANTS master, t1, t2

MCAddress == {1, 2}
MCBuffer == {master, t1, t2}
MCSymmetry == Permutations({t1, t2})
MCStacks == UNION {[1 .. k -> MCAddress] : k \in 0 .. 2} \cup {<<0, 1>>}
Performance == [counters |-> <<"PERF_TICKS">>, amounts |-> {1}, perThread |-> TRUE]
Energy == [counters |-> <<"NRG_PKG", "NRG_PP0", "NRG_PP1", "NRG_DRAM">>,
           amounts |-> {1}, perThread |-> TRUE]
Memory == [counters |-> <<"MEM_TOTAL", "MEM_MAX", "MEM_LIVE">>,
           amounts |-> {1, 2}, perThread |-> FALSE]
MCProfilers == {Performance, Energy, Memory}
=============================================================================

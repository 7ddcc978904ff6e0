------------------------------- MODULE MCAnalyse -------------------------------
(* A dump of up to five lines with two or three functions, for each set of options. *)
EXTENDS AnalyseCorrect

f == <<"f">>
g == <<"g">>
h == <<"h">>
k == <<"k">>
igp == <<"IgHookTrace">>
malloc == <<"malloc">>
refill == <<"S_refill">>

MCFileOf == (f :> <<"exe">>) @@ (g :> <<"lib">>) @@ (h :> <<"exe">>) @@ (k :> <<"exe">>)
              @@ (igp :> <<"libigprof.">>) @@ (malloc :> <<"libc">>) @@ (refill :> <<"libstd">>)

MCPeaks == <<1, 2, 3, 4, 5>>

(* The dumps of a profile *)
Dump(counter, names, bound) ==
  [counter |-> counter, names |-> names, leaks |-> {<<>>}, maxLines |-> bound,
   costs |-> <<20000, 3, 400, 0>>, depths |-> [i \in 1..bound |-> 1..MaxDepth]]

Ticks(names) == Dump("PERF_TICKS", names, 4)

(* Blocks of one to three pages; those of one line share no page. *)
Leak(addr, bytes) == [addr |-> addr, size |-> bytes]
Blocks == [Dump("MEM_LIVE", {f, malloc}, 3) EXCEPT
             !.leaks = {<<>>, <<Leak(0, 1)>>, <<Leak(2, 7)>>, <<Leak(13, 1), Leak(4, 2)>>}]

(* Blocks of some bytes, or of none *)
Small == [Dump("MEM_LIVE", {f, malloc}, 4) EXCEPT
            !.leaks = {<<>>, <<Leak(4, 0)>>, <<Leak(13, 1), Leak(4, 2)>>}]

(* Lines that cost the same, or the hundredth part of a percent of all *)
Even   == [Ticks({f, h, k}) EXCEPT !.maxLines = 5, !.costs = <<2, 2, 2, 2, 2>>,
                                   !.depths = <<{1}, {2}, {1}, {2}, {3}>>]
Border == [Ticks({f, g, h}) EXCEPT !.costs = <<19994, 2, 2, 2>>]

(* Costs that move from a function to what it calls *)
Moved == [Dump("PERF_TICKS", {f, g}, 3) EXCEPT !.costs = <<0, 400, 400>>]

(* Blocks at paths through the profiler's own frames *)
Framed == [Dump("MEM_LIVE", {f, igp}, 3) EXCEPT
             !.leaks = {<<>>, <<Leak(0, 1)>>, <<Leak(2, 7)>>}]

Run(args, dump) == dump @@ [args |-> args]

MCExecutions ==
  {Run(<< >>, Ticks({f, g, igp})),
   Run(<< <<"-nf">> >>, Ticks({f, igp})),
   Run(<< <<"--value", "peak">> >>, Ticks({f, g})),
   Run(<< <<"-r", "MEM_MAX">>, <<"-nf">> >>, Dump("MEM_MAX", {f, malloc, igp}, 4)),
   Run(<< <<"-r", "MEM_TOTAL">> >>, Dump("MEM_TOTAL", {f, malloc, igp}, 4)),
   Run(<< <<"-r", "MEM_LIVE">> >>, Dump("MEM_LIVE", {f, malloc, refill}, 4)),
   Run(<< <<"-ml">> >>, Ticks({f, g, h})),
   Run(<< <<"-mr", {f, g}, <<"X">>>> >>, Ticks({f, g, h})),
   Run(<< <<"-ma", <<{f}, {g}>>, <<"W">>>> >>, Ticks({f, g})),
   Run(<< <<"-tn", 2>> >>, Ticks({f, g})),
   Run(<< <<"-T">> >>, Ticks({f, g, h})),
   Run(<< <<"-mc", 2>>, <<"-Ma", 300>> >>, Ticks({f, g})),
   Run(<< <<"-D">>, <<"-b">> >>, Dump("PERF_TICKS", {f, igp}, 3)),
   Run(<< <<"-b">> >>, Dump("MEM_TOTAL", {f, malloc}, 3)),
   Run(<< <<"-b">>, <<"-ml">>, <<"-D">> >>, Dump("PERF_TICKS", {f, g}, 3)),
   Run(<< <<"--show-pages">> >>, Blocks),
   Run(<< <<"--show-page-ranges">> >>, Blocks),
   Run(<< <<"--show-locality-metrics">> >>, Blocks),
   Run(<< <<"--dump-allocations">> >>, Small),
   Run(<< <<"-o">> >>, Blocks),
   Run(<< <<"-D">> >>, Blocks),
   Run(<< <<"-mr", {f}, <<"X">>>> >>, Even),
   Run(<< >>, Border),
   Run(<< <<"--show-pages">> >>, Framed),
   Run(<< <<"-T">>, <<"-b">> >>, Moved),
   Run(<< <<"-T">>, <<"-b">>, <<"-D">> >>, Moved),
   Run(<< <<"--dump-allocations">>, <<"-b">> >>, Dump("MEM_LIVE", {f, malloc}, 2)),
   Run(<< <<"--dump-allocations">>, <<"-b">>, <<"-D">> >>, Dump("MEM_LIVE", {f, malloc}, 2))}

===============================================================================

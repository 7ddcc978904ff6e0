-------------------------------- MODULE Options --------------------------------
(***************************************************************************)
(* The command line of igprof-analyse: parseArgs() and setKey().  Options  *)
(* are taken in their order: --report sets the filters up at once, so that *)
(* a later --no-filter has no effect.  An option is a tuple of its short   *)
(* name and its arguments; wording, output format and pcre's syntax are    *)
(* left out, and what an option cannot be without is taken to be there.    *)
(***************************************************************************)
EXTENDS Integers, SequencesExt

Configuration ==
  [key |-> "", keyMax |-> FALSE, filters |-> <<>>, disableFilters |-> FALSE,
   normalValue |-> TRUE, ordering |-> 1, mergeLibraries |-> FALSE,
   regexps |-> <<>>, ancestors |-> <<>>, with |-> <<>>,
   baseline |-> FALSE, diffMode |-> FALSE, topN |-> 0, tree |-> FALSE,
   dumpAllocations |-> FALSE,
   showPages |-> FALSE, showPageRanges |-> FALSE, showLocalityMetrics |-> FALSE,
   minCountValue |-> 0, maxCountValue |-> 0, minCallsValue |-> 0, maxCallsValue |-> 0,
   minAverageValue |-> 0, maxAverageValue |-> 0, dies |-> FALSE]

(* The names of counters that end in _MAX or begin with MEM_ *)
MaxKeys == {"MEM_MAX"}
MemKeys == {"MEM_TOTAL", "MEM_LIVE", "MEM_MAX"}

setKey(c, value) ==
  [c EXCEPT
     !.key = value,
     !.keyMax = @ \/ value \in MaxKeys,
     !.filters = IF c.disableFilters THEN @
                 ELSE @ \o <<"igprof">>
                        \o (IF value \in MemKeys THEN <<"malloc">> ELSE <<>>)
                        \o (IF value = "MEM_LIVE" THEN <<"pool">> ELSE <<>>)]

(* -ma is --merge-ancestors; --min-average-value, which shares it, is spelt out. *)
LimitOf == [o \in {"-Mc", "-mc", "-Mf", "-mf", "-Ma", "--min-average-value"} |->
              CASE o = "-Mc" -> "maxCountValue"   [] o = "-mc" -> "minCountValue"
                [] o = "-Mf" -> "maxCallsValue"   [] o = "-mf" -> "minCallsValue"
                [] o = "-Ma" -> "maxAverageValue" [] OTHER     -> "minAverageValue"]

Option(c, arg) ==
  CASE arg[1] = "-r"  -> IF c.key # "" THEN [c EXCEPT !.dies = TRUE] ELSE setKey(c, arg[2])
    [] arg[1] = "-nf" -> [c EXCEPT !.disableFilters = TRUE]
    [] arg[1] = "--value" -> [c EXCEPT !.normalValue = (arg[2] = "normal")]
    [] arg[1] = "-o"  -> [c EXCEPT !.dies = TRUE]  \* takes its own name for the order
    [] arg[1] = "-ml" -> [c EXCEPT !.mergeLibraries = TRUE]
    [] arg[1] = "-mr" -> [c EXCEPT !.regexps = Append(@, [re |-> arg[2], with |-> arg[3]])]
    [] arg[1] = "-ma" -> [c EXCEPT !.ancestors = arg[2], !.with = arg[3]]
    [] arg[1] = "-b"  -> [c EXCEPT !.baseline = TRUE]
    [] arg[1] = "-D"  -> [c EXCEPT !.diffMode = TRUE]
    [] arg[1] = "-tn" -> [c EXCEPT !.topN = arg[2]]
    [] arg[1] = "-T"  -> [c EXCEPT !.tree = TRUE]
    [] arg[1] = "--dump-allocations" -> [c EXCEPT !.dumpAllocations = TRUE]
    [] arg[1] = "--show-pages" -> [c EXCEPT !.showPages = TRUE]
    [] arg[1] = "--show-page-ranges" -> [c EXCEPT !.showPages = TRUE, !.showPageRanges = TRUE]
    [] arg[1] = "--show-locality-metrics" ->
         [c EXCEPT !.showPages = TRUE, !.showLocalityMetrics = TRUE]
    [] arg[1] \in DOMAIN LimitOf -> [c EXCEPT ![LimitOf[arg[1]]] = arg[2]]
    [] OTHER -> [c EXCEPT !.dies = TRUE]

parseArgs(args) ==
  LET parsed == FoldLeft(Option, Configuration, args)
      keyed  == IF parsed.showPages /\ parsed.key = "" THEN setKey(parsed, "MEM_LIVE") ELSE parsed
  IN  [keyed EXCEPT !.dies = \/ @
                             \/ parsed.showPages /\ parsed.key # ""
                             \/ parsed.diffMode /\ ~ parsed.baseline]

hasHitFilter(c) == \E limit \in DOMAIN LimitOf : c[LimitOf[limit]] > 0

(* What the report counts, and which report it is *)
PageMode(c) == CASE c.showPageRanges      -> "ranges"
                 [] c.showLocalityMetrics -> "locality"
                 [] c.showPages           -> "pages"
                 [] OTHER                 -> "none"

Output(c) == CASE c.topN > 0        -> "top"
               [] c.tree            -> "tree"
               [] c.dumpAllocations -> "allocations"
               [] OTHER             -> "report"

===============================================================================

-------------------------------- MODULE Analyse --------------------------------
(***************************************************************************)
(* One execution of igprof-analyse: IgProfAnalyzerApplication::run() with  *)
(* readDump(), prepdata() and one of the reports.  The tokens of a dump    *)
(* and its identifiers are the subject of DumpRoundTrip; here a line is a  *)
(* depth, a function, and the cost and the leaks of the key counter.       *)
(*                                                                         *)
(* lines is history: the call path of every line read and what it costs.   *)
(***************************************************************************)
EXTENDS Report

CONSTANTS
  Executions,      \* each: its command line args, the counter, the names, leaks and costs
                   \* in its dumps, how many lines these have, and at which depths
  FileOf,          \* the file of every function
  Peaks,           \* the peak value of the counter in the i-th line of a dump
  MaxLines,        \* bound on the lines of a dump, which an execution may have lower
  MaxDepth,        \* bound on its depth
  PageSize         \* 4096, in the units of addresses

ASSUME PeaksAssumption == \A i \in 1..MaxLines : Peaks[i] \in Nat
ASSUME ExecutionsAssumption ==
  \A e \in Executions :
    /\ e.maxLines \in 1..MaxLines
    /\ \A i \in 1..e.maxLines : e.costs[i] \in Nat /\ e.depths[i] \subseteq 1..MaxDepth

VARIABLES
  exec,       \* of Executions
  config,     \* what its command line sets up
  phase,      \* what run() is doing
  passes,     \* the filters that are still to be applied
  nodes,      \* the call tree
  nodestack,  \* the nodes of the last line's path
  lines,      \* history
  baseline,   \* the flat map of the baseline and its totals
  flat,       \* the flat map of the profile
  report      \* the result

vars == <<exec, config, phase, passes, nodes, nodestack, lines, baseline, flat, report>>

NoBaseline == [flat |-> << >>, totals |-> 0, mapped |-> FALSE]

Init ==
  /\ exec \in Executions
  /\ config = parseArgs(exec.args)
  /\ phase = IF config.dies THEN "died" ELSE IF config.baseline THEN "baseline" ELSE "profile"
  /\ passes = <<>>
  /\ nodes = <<Spontaneous>>
  /\ nodestack = <<>>
  /\ lines = <<>>
  /\ baseline = NoBaseline
  /\ flat = << >>
  /\ report = << >>

(***************************************************************************)
(* HitFilter: what is outside the limits counts for nothing.  A limit of   *)
(* zero is none.  BaseLineFilter turns the sign.                           *)
(***************************************************************************)
Outside(value, min, max) == (min > 0 /\ value < min) \/ (max > 0 /\ value > max)

HitFilter(counter, freq) ==
  IF \/ Outside(counter, config.minCountValue, config.maxCountValue)
     \/ Outside(freq, config.minCallsValue, config.maxCallsValue)
     \/ freq # 0 /\ Outside(counter \div freq, config.minAverageValue, config.maxAverageValue)
  THEN <<0, 0>> ELSE <<counter, freq>>

Filtered(counter, freq) ==
  IF phase = "baseline" THEN <<-counter, -freq>>
  ELSE IF hasHitFilter(config) THEN HitFilter(counter, freq)
  ELSE <<counter, freq>>

(***************************************************************************)
(* readDump(): one line.  The first counter defined becomes the key, if no *)
(* option has set it.  Leaks are of interest if pages or blocks are shown; *)
(* none may be empty.                                                      *)
(***************************************************************************)
Tracked(leaks) == IF config.showPages \/ config.dumpAllocations THEN leaks ELSE <<>>

Unit == IF config.showPages THEN PageSize ELSE 1

LinesOfDump == Cardinality({i \in DOMAIN lines : lines[i].phase = phase})

ReadLine(depth, name, leaks) ==
  LET i    == LinesOfDump + 1
      put  == Place(nodes, nodestack, depth, SymbolInfo(name, FileOf[name], 0))
      n    == Last(put.nodestack)
      cost == Filtered(IF config.normalValue THEN exec.costs[i] ELSE Peaks[i], i)
      path == Append(SubSeq(IF lines = <<>> THEN <<>> ELSE Last(lines).path, 1, depth - 1), name)
  IN  /\ phase \in {"baseline", "profile"}
      /\ passes = <<>>
      /\ i <= exec.maxLines
      /\ depth \in exec.depths[i]
      /\ depth <= Len(nodestack) + 1
      /\ config' = IF config.key = "" THEN setKey(config, exec.counter) ELSE config
      /\ nodes' = IF config'.key # exec.counter THEN put.nodes
                  ELSE AddLeaks(Charge(put.nodes, n, cost[1], cost[2]), n, Tracked(leaks), Unit)
      /\ nodestack' = put.nodestack
      /\ lines' = Append(lines, [phase |-> phase, path |-> path, cost |-> cost[1],
                                freq |-> cost[2], leaks |-> leaks])
      /\ phase' = IF \E l \in Range(Tracked(leaks)) : l.size = 0 THEN "died" ELSE phase
      /\ UNCHANGED <<exec, passes, baseline, flat, report>>

(***************************************************************************)
(* prepdata(): the filters one after the other, each in a walk of its own, *)
(* and the walk that builds the flat map, as every report begins.  The     *)
(* report of the allocations first turns costs into allocations per page.  *)
(***************************************************************************)
Filter(kind) ==
  [kind |-> kind, isMax |-> config.keyMax, rules |-> config.regexps,
   pass |-> IF phase = "baseline" THEN 1 ELSE 2]

(* Mutant: malloc is merged before the profiler's own frames are removed. *)
FilterKinds_Reversed == Reverse(config.filters)

FilterKinds ==
  config.filters \o (IF config.mergeLibraries THEN <<"libs">> ELSE <<>>)
                 \o (IF config.regexps # <<>> THEN <<"regexp">> ELSE <<>>)

prepdata ==
  /\ phase \in {"baseline", "profile"}
  /\ passes = <<>>
  /\ LinesOfDump > 0
  /\ passes' = (IF phase = "profile" /\ Output(config) = "allocations" THEN <<"perPage">> ELSE <<>>)
                 \o FilterKinds
                 \o (IF config.ancestors # <<>> THEN <<"ancestors">> ELSE <<>>)
                 \o <<"cumulative", "flat">>
  /\ UNCHANGED <<exec, config, phase, nodes, nodestack, lines, baseline, flat, report>>

(* The state s in which the walk of a filter ended *)
Applied(s) ==
  IF s.died THEN /\ phase' = "died"
                 /\ passes' = <<>>
                 /\ UNCHANGED nodes
  ELSE /\ nodes' = s.nodes
       /\ passes' = Tail(passes)
       /\ UNCHANGED phase

applyFilter ==
  /\ passes # <<>>
  /\ Head(passes) \notin {"ancestors", "flat"}
  /\ Applied(walk(nodes, Filter(Head(passes))))
  /\ UNCHANGED <<exec, config, nodestack, lines, baseline, flat, report>>

mergeAncestors ==
  /\ passes # <<>>
  /\ Head(passes) = "ancestors"
  /\ nodes' = walk_ancestors(nodes, [ancestors |-> config.ancestors, with |-> config.with])
  /\ passes' = Tail(passes)
  /\ UNCHANGED <<exec, config, phase, nodestack, lines, baseline, flat, report>>

(* The baseline's flat map is kept, its tree goes on. *)
KeptAsBaseline(built) ==
  /\ nodes' = built.nodes
  /\ baseline' = [flat |-> built.flat, totals |-> built.flat[built.first].CUM_KEY[1],
                   mapped |-> TRUE]
  /\ phase' = "profile"
  /\ nodestack' = <<>>
  /\ UNCHANGED flat

KeptAsProfile(built) ==
  /\ nodes' = built.nodes
  /\ flat' = built.flat
  /\ phase' = "prepared"
  /\ UNCHANGED <<nodestack, baseline>>

Kept(built) == IF phase = "baseline" THEN KeptAsBaseline(built) ELSE KeptAsProfile(built)

buildFlat ==
  /\ passes = <<"flat">>
  /\ Kept(walk(nodes, Filter("flat")))
  /\ passes' = <<>>
  /\ UNCHANGED <<exec, config, lines, report>>

Finish(died) ==
  /\ phase' = IF died THEN "died" ELSE "done"
  /\ UNCHANGED <<exec, config, passes, nodestack, lines, baseline, flat>>

Root == Key(symbol(nodes[1]))

Total == flat[Root].CUM_KEY[1]

FlatReport(mode, base) ==
  LET infos == summarizePageInfo(mode, flat)
  IN  generateFlatReport(
        [flat |-> infos, ranked |-> Ranked(infos), mode |-> mode, isMax |-> config.keyMax,
         baseline |-> base.flat, mapped |-> base.mapped, diffMode |-> config.diffMode,
         totals |-> infos[Root].CUM_KEY[1] - base.totals])

analyse ==
  /\ phase = "prepared" /\ Output(config) = "report"
  /\ report' = FlatReport(PageMode(config), baseline)
  /\ Finish(report'.died)
  /\ UNCHANGED nodes

(* The blocks of the nodes are printed as they are: nodes[n].RANGES.  The report   *)
(* is given no baseline, even if there is one.                                    *)
dumpAllocations ==
  /\ phase = "prepared" /\ Output(config) = "allocations"
  /\ report' = FlatReport("none", NoBaseline)
  /\ Finish(report'.died)
  /\ UNCHANGED nodes

topN ==
  /\ phase = "prepared" /\ Output(config) = "top"
  /\ report' = TopReport(WalkOn(Filter("top"), Start(nodes, config.topN)).top)
  /\ Finish(FALSE)
  /\ UNCHANGED nodes

tree ==
  /\ phase = "prepared" /\ Output(config) = "tree"
  /\ LET s == walk(nodes, Filter("massif"))
     IN  /\ nodes' = IF s.died THEN nodes ELSE s.nodes
         /\ Finish(s.died)
  /\ UNCHANGED report

Next ==
  \/ \E depth \in 1..MaxDepth, name \in exec.names, leaks \in exec.leaks :
       ReadLine(depth, name, leaks)
  \/ prepdata
  \/ applyFilter
  \/ mergeAncestors
  \/ buildFlat
  \/ analyse
  \/ dumpAllocations
  \/ topN
  \/ tree

Spec == Init /\ [][Next]_vars

===============================================================================

---------------------------- MODULE AnalyseCorrect ----------------------------
(***************************************************************************)
(* What an execution of igprof-analyse promises.  The references are given *)
(* in terms of the call paths in the dumps: which function of a path a     *)
(* cost is charged to after the filters, and which functions it passes.    *)
(***************************************************************************)
EXTENDS Analyse

Active(kind) == \E i \in DOMAIN config.filters : config.filters[i] = kind

IsIgProf(name) == Active("igprof") /\ FileOf[name] \in IgProfFiles
IsMalloc(name) == Active("malloc") /\ name \in MallocNames
IsPool(name)   == Active("pool") /\ name \in PoolNames

(* A path without the profiler's own frames and the allocator below it *)
Reduced(path) ==
  LET users == SelectSeq(path, LAMBDA f : ~ IsIgProf(f))
  IN  SubSeq(users, 1, SelectLastInSeq(users, LAMBDA f : ~ IsMalloc(f)))

(* Costs of the profiler itself, below an allocator or in a pool are dropped. *)
IsBelow(path) ==
  \E i \in DOMAIN Reduced(path) : IsMalloc(Reduced(path)[i]) \/ IsPool(Reduced(path)[i])

IsDropped(path) == IsIgProf(Last(path)) \/ IsBelow(path)

FinalName(name) ==
  LET sym == IF config.mergeLibraries THEN SymbolInfo(FileOf[name], FileOf[name], -1)
             ELSE SymbolInfo(name, FileOf[name], 0)
  IN  Translated(config.regexps, sym)

Owners(path)  == {Spontaneous.SYMBOL.NAME} \union {FinalName(Reduced(path)[i]) : i \in DOMAIN Reduced(path)}
Owner(path)   == IF Reduced(path) = <<>> THEN Spontaneous.SYMBOL.NAME ELSE FinalName(Last(Reduced(path)))

Paths == {lines[i].path : i \in DOMAIN lines}
KeptPaths == {p \in Paths : ~ IsDropped(p)}

Sum(path, field) ==
  FoldLeft(LAMBDA sum, l : IF l.path = path THEN sum + l[field] ELSE sum, 0, lines)

(* For the allocations' report: how many allocations of the path fill a page *)
CostOf(path) ==
  IF Output(config) = "allocations" /\ Sum(path, "freq") # 0
  THEN (4096 * Sum(path, "freq")) \div Sum(path, "cost")
  ELSE Sum(path, "cost")

(* The sum, or for peaks the maximum, over a set *)
Combined(S, Cost(_)) ==
  MapThenFoldSet(LAMBDA a, b : IF config.keyMax THEN Larger(a, b) ELSE a + b,
                 0, Cost, LAMBDA T : CHOOSE x \in T : TRUE, S)

BaseName(name) == IF Last(name) \in Range(Tick) THEN Front(name) ELSE name

Names == {BaseName(k[1]) : k \in DOMAIN flat}

Built == phase \in {"prepared", "done"}

(* Renaming by ancestors depends on the order of the walk: no reference. *)
Referable == Built /\ config.ancestors = <<>>

(* Allocations per page are those of a node, whose counts are sums of several
   paths once the baseline has been filtered: no reference either. *)
Costed == Referable /\ ~ (config.baseline /\ Output(config) = "allocations")

(***************************************************************************)
(* After all surgery by the filters the nodes still are one tree: none is  *)
(* the child of two nodes or twice of one, and none is above the root.     *)
(***************************************************************************)
RECURSIVE ReachedFrom(_, _)
ReachedFrom(tr, n) ==
  {n} \union UNION {ReachedFrom(tr, tr[n].CHILDREN[i]) : i \in DOMAIN tr[n].CHILDREN}

NodesAreATree ==
  LET places == {<<n, i>> \in (DOMAIN nodes) \X (DOMAIN nodes) :
                   n \in ReachedFrom(nodes, 1) /\ i \in DOMAIN nodes[n].CHILDREN}
  IN  \A p, q \in places :
        /\ nodes[p[1]].CHILDREN[p[2]] # 1
        /\ nodes[p[1]].CHILDREN[p[2]] = nodes[q[1]].CHILDREN[q[2]] => p = q

(***************************************************************************)
(* The self costs in the flat profile are those of the dumps: each path's  *)
(* cost, less the baseline's, is charged to the innermost function that    *)
(* the filters leave, whatever nodes were merged on the way.               *)
(***************************************************************************)
SelfExact ==
  Costed => \A name \in Names :
    Combined({k \in DOMAIN flat : BaseName(k[1]) = name}, LAMBDA k : flat[k].SELF_KEY[1])
      = Combined({p \in KeptPaths : Owner(p) = name}, CostOf)

(***************************************************************************)
(* The cumulative cost of a function counts every path through it once,    *)
(* however often it recurs on the path.                                    *)
(***************************************************************************)
CumExact ==
  Costed => \A name \in Names :
    Combined({k \in DOMAIN flat : k[1] = name}, LAMBDA k : flat[k].CUM_KEY[1])
      = Combined({p \in KeptPaths : name \in Owners(p)}, CostOf)

(***************************************************************************)
(* Pages: no page is counted twice or where it does not belong, and none   *)
(* is lost, neither of a function's own blocks nor of all blocks below it; *)
(* the same for the bytes in the list of allocations.  Unlike the costs,   *)
(* the blocks of the profiler's own frames go to the function above.       *)
(* Lost are those of a path through frames of the profiler that without    *)
(* them is the path of other lines too: mergeToNode() adds the counters of *)
(* the two nodes and not their ranges.  Blocks of one line that share a    *)
(* page must not be listed from the upper to the lower one.                *)
(***************************************************************************)
Users(path) == SelectSeq(path, LAMBDA f : ~ IsIgProf(f))

(* The path of the node that gets the blocks *)
Host(path) == SubSeq(path, 1, SelectLastInSeq(path, LAMBDA f : ~ IsIgProf(f)))

Hosts == {Host(q) : q \in UNION {Prefixes(p) : p \in Paths}}

Overlaid(path) ==
  /\ Host(path) # Users(path)
  /\ \E q \in Hosts \ {Host(path)} : Users(q) = Users(path)

LeakPages(path) ==
  UNION {UNION {LET r == LeakRange(lines[i].leaks[j], Unit) IN r.startAddr .. r.endAddr :
                  j \in DOMAIN lines[i].leaks} :
           i \in {n \in DOMAIN lines : lines[n].path = path}}

(* The pages are all those of the paths, but for the overlaid ones. *)
PagesAre(pages, paths) ==
  /\ pages \subseteq UNION {LeakPages(p) : p \in paths}
  /\ UNION {LeakPages(p) : p \in {q \in paths : ~ Overlaid(q)}} \subseteq pages

PagesExact ==
  Referable /\ (config.showPages \/ config.dumpAllocations) =>
    /\ \A k \in DOMAIN flat :
         /\ countPages(flat[k].SELF_RANGES) = Cardinality(PagesOf(flat[k].SELF_RANGES))
         /\ countPages(flat[k].CUM_RANGES) = Cardinality(PagesOf(flat[k].CUM_RANGES))
    /\ \A name \in Names :
         /\ PagesAre(UNION {PagesOf(flat[k].SELF_RANGES) :
                              k \in {q \in DOMAIN flat : BaseName(q[1]) = name}},
                     {p \in Paths : ~ IsBelow(p) /\ Owner(p) = name})
         /\ PagesAre(UNION {PagesOf(flat[k].CUM_RANGES) : k \in {q \in DOMAIN flat : q[1] = name}},
                     {p \in Paths : ~ IsBelow(p) /\ name \in Owners(p)})

(***************************************************************************)
(* The rows of a report agree with each other, as its foreign keys demand: *)
(* a caller or callee has a main row of its own with the same edge on its  *)
(* side, the callees make up what is not the function's own cost, and the  *)
(* callers all of it.  The edges of a row are a set ordered by costs and   *)
(* name: of twins, symbols of one name that --merge-regexp makes of        *)
(* several nodes, with the same costs, one stands for all.  With a         *)
(* baseline it does not hold: an edge may change where its ends do not.    *)
(***************************************************************************)
EdgeCost(caller, callee) == Callee(flat, caller, callee)[1]

Alike(a, b) == a # b /\ a[1] = b[1] /\ flat[a].CUM_KEY[1] = flat[b].CUM_KEY[1]

TwinCallers(k, a, b) == Alike(a, b) /\ EdgeCost(a, k) = EdgeCost(b, k)
TwinCallees(k, a, b) == Alike(a, b) /\ EdgeCost(k, a) = EdgeCost(k, b)

Reported == phase = "done" /\ Output(config) = "report"

EdgeSum(edges) == MapThenFoldSet(LAMBDA a, b : a + b, 0, LAMBDA e : e.values[1],
                                 LAMBDA T : CHOOSE x \in T : TRUE, edges)

RowsAgree ==
  Reported /\ ~ config.baseline /\ PageMode(config) = "none" =>
    LET db == report.database
        From(row, edges) == {e \in edges : e.main = row.id}
        Turned(e) == [e EXCEPT !.other = e.main, !.main = e.other]
        Ids == {row.id : row \in db.mainrows}
        KeyOf(id) == (CHOOSE row \in Range(report.table) : row.rank = id).key
    IN  /\ \A e \in db.parents \union db.children : {e.main, e.other} \subseteq Ids
        /\ \A e \in db.children :
             \/ Turned(e) \in db.parents
             \/ \E p \in db.parents :
                  p.main = e.other /\ TwinCallers(KeyOf(e.other), KeyOf(p.other), KeyOf(e.main))
        /\ ~ config.keyMax =>
             \A row \in db.mainrows :
               LET k == KeyOf(row.id)
               IN  /\ \/ row.values[3] = EdgeSum(From(row, db.children))
                      \/ \E a, b \in DOMAIN flat[k].CALLS : TwinCallees(k, a, b)
                   /\ \/ row.values[2] = EdgeSum(From(row, db.parents))
                      \/ From(row, db.parents) = {}
                      \/ \E a, b \in flat[k].CALLERS : TwinCallers(k, a, b)

(* The printed lists end at their first small entry, and still show every
   function with 1% of the cumulative or more than 0.01% of the self costs. *)
ListsShowHeavy ==
  Reported /\ ~ config.baseline /\ PageMode(config) = "none" =>
    \A k \in DOMAIN flat :
      /\ flat[k].CUM_KEY[1] > 0 /\ 100 * flat[k].CUM_KEY[1] >= Total =>
           \E i \in DOMAIN report.cumList : report.cumList[i].key = k
      /\ flat[k].SELF_KEY[1] > 0 /\ 10000 * flat[k].SELF_KEY[1] > Total =>
           \E i \in DOMAIN report.selfList : report.selfList[i].key = k

(* --top shows the largest self costs of the tree, each with its path. *)
TopAreLargest ==
  phase = "done" /\ Output(config) = "top" =>
    LET shown == {Last(report[i].trace) : i \in DOMAIN report}
        Cost(n) == nodes[n].COUNTER.cnt
    IN  /\ Cardinality(shown) = Len(report)
        /\ \A i \in DOMAIN report : report[i].value = Cost(Last(report[i].trace))
        /\ \A n \in ReachedFrom(nodes, 1) \ shown :
             Cost(n) > 0 => /\ Len(report) = config.topN
                            /\ \A m \in shown : Cost(m) >= Cost(n)

(***************************************************************************)
(* No list leaves out what it is printed for: the lists of a report that   *)
(* end at their first small entry still show every heavy function, and the *)
(* paths of --top are those of the largest self costs.  The limit of 0.01% *)
(* itself is a small entry, other than the title of the list has it.       *)
(***************************************************************************)
LargestShown == ListsShowHeavy /\ TopAreLargest

(***************************************************************************)
(* The analysis dies of nothing but its command line, a block without      *)
(* bytes, or a baseline: no percentage of a report is below -100%, and     *)
(* with --diff-mode a decrease is divided by what it is a decrease of.     *)
(* The tree does not do so and divides by the net total, in diff mode too; *)
(* and the list of allocations is given no baseline to look up.            *)
(***************************************************************************)
EmptyBlocks ==
  \/ \E i \in DOMAIN lines : \E j \in DOMAIN lines[i].leaks : lines[i].leaks[j].size = 0
  \/ \E p \in Paths : Sum(p, "cost") = 0

DeathsExcused ==
  phase = "died" => \/ config.dies
                    \/ (config.showPages \/ config.dumpAllocations) /\ EmptyBlocks
                    \/ config.baseline /\ (config.diffMode => Output(config) # "report")

(***************************************************************************)
(* --tree leaves out only nodes with less than 1% of the total cost.  With *)
(* a baseline costs are differences: a heavy node can be below one that    *)
(* changed little, and goes with it; and where the total fell below zero,  *)
(* the percentages of what fell most are the highest, and are cut off.     *)
(***************************************************************************)
Heavy(n) == 100 * nodes[n].COUNTER.ccnt >= nodes[1].COUNTER.ccnt

RECURSIVE HeavyFrom(_)
HeavyFrom(n) ==
  {n} \union UNION {HeavyFrom(c) : c \in {k \in Range(nodes[n].CHILDREN) : Heavy(k)}}

TreeKeepsHeavy ==
  [][tree /\ phase' = "done" /\ nodes[1].COUNTER.ccnt >= 0 =>
       (IF config.baseline THEN HeavyFrom(1) ELSE {n \in ReachedFrom(nodes, 1) : Heavy(n)})
         \subseteq ReachedFrom(nodes', 1)]_vars

===============================================================================

------------------------------ MODULE FlatProfile ------------------------------
(***************************************************************************)
(* The walks of igprof-analyse over the call tree, the flat profile they   *)
(* build, and the three reports made of it (analyse.cc).                   *)
(*                                                                         *)
(* A filter f is a record: its kind, isMax, and what else its kind needs.  *)
(* The state s of a walk holds the nodes, the stack of items to do, and    *)
(* what the filter remembers: made (RegexpFilter), died                    *)
(* (AllocationsPerPage and percent()), seen, flat and first (TreeMapBuilderFilter),      *)
(* trace and top (TopNBuilderFilter).                                      *)
(***************************************************************************)
EXTENDS CallTree

RECURSIVE WalkOn(_, _), WalkAncestorsOn(_, _)

(***************************************************************************)
(* TreeMapBuilderFilter                                                    *)
(***************************************************************************)
FlatInfo(sym) ==
  [SYMBOL |-> sym, DEPTH |-> -1, CALLERS |-> {}, CALLS |-> << >>,
   SELF_KEY |-> <<0, 0, 0>>, CUM_KEY |-> <<0, 0, 0>>,
   SELF_RANGES |-> <<>>, CUM_RANGES |-> <<>>]

CallInfo == [VALUES |-> <<0, 0, 0>>, RANGES |-> <<>>]

accumulateCounts(buffer, c, f, isMax) ==
  <<IF isMax THEN Larger(buffer[1], c) ELSE buffer[1] + c, buffer[2] + f, buffer[3] + 1>>

Tick == <<"'2", "'3", "'4", "'5", "'6", "'7">>

getUniqueName(name, seen) ==
  name \o <<Tick[SelectInSeq(Tick, LAMBDA t : name \o <<t>> \notin seen)]>>

(* Mutant: recursive calls keep the name of the function. *)
symfor_SameName(node, seen) == node

(* A name that is on the path already gets a symbol with a new name. *)
symfor(node, seen) ==
  IF node.reportSymbol = NoSymbol /\ node.SYMBOL.NAME \in seen
  THEN [node EXCEPT !.reportSymbol =
          SymbolInfo(getUniqueName(node.SYMBOL.NAME, seen), node.SYMBOL.FILE, 0)]
  ELSE node

TreeMapDown(s, parent, n, isMax) ==
  LET node  == symfor(s.nodes[n], s.seen)
      sym   == symbol(node)
      key   == Key(sym)
      seen  == s.seen \union {sym.NAME}
      map   == IF key \in DOMAIN s.flat THEN s.flat ELSE (key :> FlatInfo(sym)) @@ s.flat
      par   == Key(symbol(s.nodes[parent]))
      calls == map[par].CALLS
      call  == IF key \in DOMAIN calls THEN calls[key] ELSE CallInfo
      c     == node.COUNTER
      Edge  == [VALUES |-> accumulateCounts(call.VALUES, c.ccnt, c.cfreq, isMax),
                RANGES |-> mergeRanges(call.RANGES, node.CUM_RANGES)]
      called == IF parent = 0 THEN map
                ELSE [map EXCEPT ![key].CALLERS = @ \union {par},
                                 ![par].CALLS   = (key :> Edge) @@ @]
  IN  [s EXCEPT
         !.nodes[n] = node,
         !.seen  = seen,
         !.first = IF @ = <<>> THEN key ELSE @,
         !.flat  = [called EXCEPT
           ![key].DEPTH       = IF @ < 0 \/ Cardinality(seen) < @ THEN Cardinality(seen) ELSE @,
           ![key].SELF_KEY    = accumulateCounts(@, c.cnt, c.freq, isMax),
           ![key].SELF_RANGES = mergeRanges(@, node.RANGES),
           ![key].CUM_KEY     = accumulateCounts(@, c.ccnt, c.cfreq, isMax),
           ![key].CUM_RANGES  = mergeRanges(@, node.CUM_RANGES)]]

TreeMapUp(s, n) == [s EXCEPT !.seen = @ \ {symbol(s.nodes[n]).NAME}]

(* Mutant: the first smaller entry gives way. *)
TopNDown_First(s, n) ==
  LET trace == Append(s.trace, n)
      cnt   == s.nodes[n].COUNTER.cnt
      i     == SelectInSeq(s.top, LAMBDA e : e.value < cnt)
  IN  [s EXCEPT !.trace = trace,
                !.top = IF i = 0 THEN @ ELSE [@ EXCEPT ![i] = [value |-> cnt, trace |-> trace]]]

(***************************************************************************)
(* TopNBuilderFilter: the smallest of the entries below the node gives way *)
(***************************************************************************)
TopNDown(s, n) ==
  LET trace == Append(s.trace, n)
      cnt   == s.nodes[n].COUNTER.cnt
      below == {i \in DOMAIN s.top : s.top[i].value < cnt}
      Least(i) == \A j \in below : \/ s.top[i].value < s.top[j].value
                                   \/ /\ s.top[i].value = s.top[j].value
                                      /\ i <= j
  IN  [s EXCEPT !.trace = trace,
                !.top = IF below = {} THEN @
                        ELSE [@ EXCEPT ![CHOOSE i \in below : Least(i)] =
                                [value |-> cnt, trace |-> trace]]]

TopNUp(s) == [s EXCEPT !.trace = Front(@)]

(***************************************************************************)
(* percent() ends the program for less than -100%.  A percentage is        *)
(* compared as a fraction, with a limit in hundredths of a percent; totals *)
(* below zero turn the order around, and zero makes it no finite number.   *)
(***************************************************************************)
percentDies(a, b) == IF b < 0 THEN a > -b ELSE a < -b

Below(cost, limit, totals) ==
  IF totals < 0 THEN 10000 * cost > limit * totals ELSE 10000 * cost < limit * totals

(***************************************************************************)
(* MassifTreeBuilder: a node keeps as many of its costliest children as it *)
(* has heavy ones, the lightest first.  All of them are percentages of the *)
(* root's total, the baseline's costs taken off.                           *)
(***************************************************************************)
(* Mutant: the children are not sorted before the tail is cut off. *)
MassifDown_Unsorted(s, n) ==
  LET totals == s.nodes[1].COUNTER.ccnt
      Cost(c) == s.nodes[c].COUNTER.ccnt
      kids    == s.nodes[n].CHILDREN
      Heavy(c) == ~ Below(Cost(c), 10, totals)
  IN  [s EXCEPT !.nodes[n].CHILDREN = SubSeq(kids, 1, Len(SelectSeq(kids, Heavy)))]

MassifDown(s, n) ==
  LET totals == s.nodes[1].COUNTER.ccnt
      Cost(c) == s.nodes[c].COUNTER.ccnt
      Heavy(c) == /\ ~ Below(Cost(c), 10, totals)
                  /\ Below(Cost(c), 100, totals) => ~ Below(Cost(n), 100, totals)
      kids    == s.nodes[n].CHILDREN
      falling == SortSeq(kids, LAMBDA a, b : Cost(a) > Cost(b))
      kept    == SubSeq(falling, 1, Len(SelectSeq(kids, Heavy)))
  IN  [s EXCEPT !.nodes[n].CHILDREN = SortSeq(kept, LAMBDA a, b : Cost(a) < Cost(b)),
                !.died = @ \/ \E c \in {n} \union Range(kids) : percentDies(Cost(c), totals)]

(***************************************************************************)
(* walk(): depth first with an explicit stack, the last child first. An    *)
(* item is a parent, a node, and whether the node is met on the way up.    *)
(***************************************************************************)
Pre(f, s, parent, n) ==
  CASE f.kind \in {"libs", "regexp"} -> CollapsingFilter(s, parent, n, f)
    [] f.kind = "cumulative" -> [s EXCEPT !.nodes = CumulativeDown(@, n)]
    [] f.kind = "flat"       -> TreeMapDown(s, parent, n, f.isMax)
    [] f.kind = "top"        -> TopNDown(s, n)
    [] f.kind = "massif"     -> MassifDown(s, n)
    [] OTHER                 -> s

Post(f, s, parent, n) ==
  CASE f.kind = "igprof"     -> [s EXCEPT !.nodes = RemoveIgProfFilter(@, parent, n, f.isMax)]
    [] f.kind = "malloc"     -> [s EXCEPT !.nodes = MallocFilter(@, parent, n, f.isMax)]
    [] f.kind = "pool"       -> [s EXCEPT !.nodes = IgProfGccPoolAllocFilter(@, parent, n)]
    [] f.kind = "perPage"    -> [s EXCEPT !.nodes = AllocationsPerPage(@, n),
                                          !.died  = @ \/ Undivided(s.nodes[n])]
    [] f.kind = "cumulative" -> [s EXCEPT !.nodes = CumulativeUp(@, parent, n, f.isMax)]
    [] f.kind = "flat"       -> TreeMapUp(s, n)
    [] f.kind = "top"        -> TopNUp(s)
    [] OTHER                 -> s

Item(parent, n, up) == [parent |-> parent, node |-> n, up |-> up]

Children(nodes, n) == [i \in DOMAIN nodes[n].CHILDREN |-> Item(n, nodes[n].CHILDREN[i], FALSE)]

WalkDown(item, s) ==
  [s EXCEPT !.stack = @ \o <<[item EXCEPT !.up = TRUE]>> \o Children(s.nodes, item.node)]

WalkStep(f, s, item) ==
  IF item.up THEN Post(f, s, item.parent, item.node)
  ELSE WalkDown(item, Pre(f, s, item.parent, item.node))

WalkOn(f, s) ==
  IF s.stack = <<>> THEN s
  ELSE WalkOn(f, WalkStep(f, [s EXCEPT !.stack = Front(@)], Last(s.stack)))

Start(nodes, topN) ==
  [nodes |-> nodes, stack |-> <<Item(0, 1, FALSE)>>, todos |-> <<>>, made |-> << >>, died |-> FALSE,
   seen |-> {}, flat |-> << >>, first |-> <<>>,
   trace |-> <<>>, top |-> [i \in 1..topN |-> [value |-> 0, trace |-> <<>>]]]

walk(nodes, f) == WalkOn(f, Start(nodes, 0))

(***************************************************************************)
(* walk_ancestors(): nodes below the whole list of ancestors are renamed.  *)
(* control counts the matches on the path; with grows by every renaming.   *)
(***************************************************************************)
WalkAncestorsOn(ancestors, s) ==
  IF s.stack = <<>> THEN s.nodes
  ELSE LET item  == Last(s.stack)
           n     == item.node
           left  == [s EXCEPT !.stack = Front(@)]
           sym   == symbol(s.nodes[n])
           below == s.control = Len(ancestors)
           match == ~ below /\ sym.NAME \in ancestors[s.control + 1]
           last  == match /\ s.control + 1 = Len(ancestors)
           with  == IF below THEN Append(s.with, ":") ELSE s.with
           name  == IF below THEN with \o sym.NAME ELSE with
           named == IF below \/ last
                    THEN setSymbol(s.nodes, n, SymbolInfo(name, sym.FILE, n))
                    ELSE s.nodes
       IN  WalkAncestorsOn(ancestors,
             IF item.up THEN [left EXCEPT !.control = @ - 1]
             ELSE [left EXCEPT !.with = with, !.nodes = named,
                               !.control = IF match THEN @ + 1 ELSE @,
                               !.stack = @ \o (IF match THEN <<[item EXCEPT !.up = TRUE]>> ELSE <<>>)
                                           \o Children(s.nodes, n)])

walk_ancestors(nodes, specs) ==
  WalkAncestorsOn(specs.ancestors,
    [nodes |-> nodes, stack |-> <<Item(0, 1, FALSE)>>, control |-> 0, with |-> specs.with])

===============================================================================

------------------------------- MODULE CallTree -------------------------------
(***************************************************************************)
(* The call tree of igprof-analyse: its nodes, the lookup and merging of   *)
(* nodes, and what each filter of prepdata() does to a node (analyse.cc).  *)
(*                                                                         *)
(* nodes is the sequence of all nodes, in the order of their creation; a   *)
(* pointer to a node is its index, 0 the null pointer and 1 the root       *)
(* "<spontaneous>".  A name is a sequence of tokens.  The identity of a    *)
(* SymbolInfo is its name and id: 0 if it is shared by all that have the   *)
(* name, -1 or -2 if made by the first or second merge of libraries, and   *)
(* otherwise the one node that it was made for.                            *)
(***************************************************************************)
EXTENDS Ranges

RECURSIVE mergeToNode(_, _, _, _), Absorb(_, _, _)

(* What the names of the filters stand for *)
IgProfFiles == {<<"libigprof.">>}
MallocNames == {<<"malloc">>}
PoolNames   == {<<"S_refill">>}

SymbolInfo(name, file, id) == [NAME |-> name, FILE |-> file, id |-> id]
NoSymbol == SymbolInfo(<<>>, <<>>, 0)
Key(sym) == <<sym.NAME, sym.id>>

Counter == [cnt |-> 0, freq |-> 0, ccnt |-> 0, cfreq |-> 0]

Larger(a, b) == IF a < b THEN b ELSE a

(* Counter::add and Counter::accumulate *)
Add(c, other, isMax) ==
  [c EXCEPT !.freq = @ + other.freq,
            !.cnt  = IF isMax THEN Larger(@, other.cnt) ELSE @ + other.cnt]

Accumulate(c, other, isMax) ==
  [c EXCEPT !.cfreq = @ + other.cfreq,
            !.ccnt  = IF isMax THEN Larger(@, other.ccnt) ELSE @ + other.ccnt]

NodeInfo(sym) ==
  [SYMBOL |-> sym, reportSymbol |-> NoSymbol, COUNTER |-> Counter,
   RANGES |-> <<>>, CUM_RANGES |-> <<>>, CHILDREN |-> <<>>]

symbol(node) == IF node.reportSymbol # NoSymbol THEN node.reportSymbol ELSE node.SYMBOL

Spontaneous == NodeInfo(SymbolInfo(<<"<spontaneous>">>, <<"<unknown>">>, 0))

setSymbol(nodes, n, sym) ==
  [nodes EXCEPT ![n].SYMBOL = sym, ![n].reportSymbol = NoSymbol]

getChildrenBySymbol(nodes, n, sym) ==
  LET kids == nodes[n].CHILDREN
      i    == SelectInSeq(kids, LAMBDA c : nodes[c].SYMBOL.NAME = sym.NAME)
  IN  IF i = 0 THEN 0 ELSE kids[i]

removeChild(nodes, parent, node) ==
  [nodes EXCEPT ![parent].CHILDREN = SelectSeq(@, LAMBDA c : c # node)]

(***************************************************************************)
(* One line of a dump, as readDump() takes it in: the depth decides which  *)
(* of the last line's nodes is the parent; its counts go to the child.     *)
(***************************************************************************)
Place(nodes, nodestack, depth, sym) ==
  LET above  == SubSeq(nodestack, 1, depth - 1)
      parent == IF above = <<>> THEN 1 ELSE Last(above)
      child  == getChildrenBySymbol(nodes, parent, sym)
      new    == Len(nodes) + 1
  IN  IF child # 0
      THEN [nodes |-> nodes, nodestack |-> Append(above, child)]
      ELSE [nodes |-> Append([nodes EXCEPT ![parent].CHILDREN = Append(@, new)],
                             NodeInfo(sym)),
            nodestack |-> Append(above, new)]

Charge(nodes, n, ctrval, ctrfreq) ==
  [nodes EXCEPT ![n].COUNTER.cnt = @ + ctrval, ![n].COUNTER.freq = @ + ctrfreq]

(* The leaks of a line, [addr, size] each, as sorted and merged ranges: of    *)
(* pages, or of bytes if unit is 1                                            *)
LeakRange(leak, unit) ==
  [startAddr |-> leak.addr \div unit, endAddr |-> (leak.addr + leak.size + 1) \div unit]

AddLeaks(nodes, n, leaks, unit) ==
  LET ranges == [i \in DOMAIN leaks |-> LeakRange(leaks[i], unit)]
  IN  [nodes EXCEPT ![n].RANGES = mergeRanges(@, mergeSortedRanges(SortedRanges(ranges)))]

(***************************************************************************)
(* mergeToNode: the parent adopts the children of the node; where it has   *)
(* one of the same name already, the two are merged.                       *)
(***************************************************************************)
Adopt(nodes, parent, child, isMax) ==
  LET same == getChildrenBySymbol(nodes, parent, symbol(nodes[child]))
  IN  IF same = 0
      THEN [nodes EXCEPT ![parent].CHILDREN = Append(@, child)]
      ELSE mergeToNode([nodes EXCEPT ![same].COUNTER = Add(@, nodes[child].COUNTER, isMax)],
                       same, child, isMax)

(* Mutant: the node stays a child of its parent. *)
mergeToNode_Stays(nodes, parent, node, isMax) ==
  FoldLeft(LAMBDA ns, c : Adopt(ns, parent, c, isMax), nodes, nodes[node].CHILDREN)

mergeToNode(nodes, parent, node, isMax) ==
  LET merged == FoldLeft(LAMBDA ns, c : Adopt(ns, parent, c, isMax),
                         nodes, nodes[node].CHILDREN)
  IN  IF getChildrenBySymbol(merged, parent, symbol(nodes[node])) = node
      THEN removeChild([merged EXCEPT ![parent].RANGES = mergeRanges(@, merged[node].RANGES)],
                       parent, node)
      ELSE merged

(***************************************************************************)
(* The filters that are applied on the way up.                             *)
(***************************************************************************)
RemoveIgProfFilter(nodes, parent, node, isMax) ==
  IF parent # 0 /\ nodes[node].SYMBOL.FILE \in IgProfFiles
  THEN mergeToNode(nodes, parent, node, isMax)
  ELSE nodes

MallocFilter(nodes, parent, node, isMax) ==
  IF parent # 0 /\ symbol(nodes[node]).NAME \in MallocNames
  THEN removeChild(
         [nodes EXCEPT ![parent].COUNTER = Add(@, nodes[node].COUNTER, isMax),
                       ![parent].RANGES  = mergeRanges(@, nodes[node].RANGES)],
         parent, node)
  ELSE nodes

IgProfGccPoolAllocFilter(nodes, parent, node) ==
  IF symbol(nodes[node]).NAME \in PoolNames
  THEN removeChild(nodes, parent, node)
  ELSE nodes

(***************************************************************************)
(* The filters that collapse nodes on the way down.  A state s of the walk *)
(* has the nodes and, in made, the names RegexpFilter has given, with the  *)
(* file of the symbol that was the first to get the name.                  *)
(***************************************************************************)
UseFileName(s, node, pass) ==
  LET file == symbol(s.nodes[node]).FILE
  IN  [s EXCEPT !.nodes = setSymbol(@, node, SymbolInfo(file, file, -pass))]

(* The first rule that changes the symbol's name or else its file's name *)
Translated(rules, sym) ==
  LET Changes(r, name) == name \in r.re /\ name # r.with
      i == SelectInSeq(rules, LAMBDA r : Changes(r, sym.NAME) \/ Changes(r, sym.FILE))
  IN  IF i = 0 THEN sym.NAME ELSE rules[i].with

RegexpConvert(s, node, rules) ==
  LET sym  == symbol(s.nodes[node])
      name == Translated(rules, sym)
      made == s.made @@ (name :> sym.FILE)
  IN  IF sym.NAME \in DOMAIN s.made \/ name = sym.NAME THEN s
      ELSE [s EXCEPT !.nodes = setSymbol(@, node, SymbolInfo(name, made[name], node)),
                     !.made  = made]

convertSymbol(s, node, f) ==
  IF f.kind = "libs" THEN UseFileName(s, node, f.pass) ELSE RegexpConvert(s, node, f.rules)

(* The children wait in todos to be merged into the node or a new child. *)
AbsorbFirst(s, node, f) ==
  LET todo == Head(s.todos)
      gone == s.nodes[todo]
      sym  == symbol(gone)
      same == getChildrenBySymbol(s.nodes, node, sym)
      Merged(target) ==
        [s.nodes EXCEPT ![target].COUNTER = Add(@, gone.COUNTER, f.isMax),
                        ![target].RANGES  = mergeRanges(@, gone.RANGES)]
  IN  IF Key(sym) = Key(symbol(s.nodes[node]))
      THEN [s EXCEPT !.nodes = Merged(node), !.todos = Tail(@) \o gone.CHILDREN]
      ELSE IF same # 0
      THEN [s EXCEPT !.nodes = [Merged(same) EXCEPT ![same].CHILDREN = @ \o gone.CHILDREN],
                     !.todos = Tail(@)]
      ELSE [s EXCEPT !.nodes[node].CHILDREN = Append(@, todo), !.todos = Tail(@)]

Absorb(s, node, f) ==
  IF s.todos = <<>> THEN s
  ELSE Absorb(AbsorbFirst(convertSymbol(s, Head(s.todos), f), node, f), node, f)

CollapsingFilter(s, parent, node, f) ==
  IF parent = 0 THEN s
  ELSE Absorb(convertSymbol([s EXCEPT !.nodes[node].CHILDREN = <<>>,
                                      !.todos = s.nodes[node].CHILDREN], node, f), node, f)

(***************************************************************************)
(* AllocationsPerPage divides by the cost: none but freq is undefined.     *)
(* Less than nothing, as a baseline leaves it, is rounded towards zero.    *)
(***************************************************************************)
Magnitude(n) == IF n < 0 THEN -n ELSE n

Quotient(a, b) ==
  LET q == Magnitude(a) \div Magnitude(b) IN IF (a < 0) = (b < 0) THEN q ELSE -q

Undivided(node) == node.COUNTER.freq # 0 /\ node.COUNTER.cnt = 0

AllocationsPerPage(nodes, node) ==
  IF nodes[node].COUNTER.freq = 0 \/ Undivided(nodes[node]) THEN nodes
  ELSE [nodes EXCEPT ![node].COUNTER.cnt = Quotient(4096 * nodes[node].COUNTER.freq, @)]

(***************************************************************************)
(* AddCumulativeInfoFilter: down and up                                    *)
(***************************************************************************)
CumulativeDown(nodes, node) ==
  [nodes EXCEPT ![node].COUNTER.ccnt  = nodes[node].COUNTER.cnt,
                ![node].COUNTER.cfreq = nodes[node].COUNTER.freq,
                ![node].CUM_RANGES    = nodes[node].RANGES]

CumulativeUp(nodes, parent, node, isMax) ==
  IF parent = 0 THEN nodes
  ELSE [nodes EXCEPT ![parent].COUNTER    = Accumulate(@, nodes[node].COUNTER, isMax),
                     ![parent].CUM_RANGES = mergeRanges(@, nodes[node].CUM_RANGES)]

===============================================================================

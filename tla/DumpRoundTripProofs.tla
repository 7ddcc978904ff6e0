--------------------------- MODULE DumpRoundTripProofs ---------------------------
(***************************************************************************)
(* DumpRoundTrip: the analyser reads back what the program counted.        *)
(*                                                                         *)
(* The invariant says where the writer is and what the reader would be,    *)
(* had it read what has been put so far, without the file in between: its  *)
(* tables of symbols, files and counters decode the numbers of the writer, *)
(* its stack of nodes leads to the parents of what is still to be entered, *)
(* and its costs are those of the lines and counters that have been        *)
(* dumped.  FastIO then only has to preserve the sequence of the tokens.   *)
(*                                                                         *)
(* When a write has failed the file is no copy any more.  What is read of  *)
(* it is then bounded from above: a second invariant, Bound, weighs the    *)
(* tokens by what they count.                                              *)
(***************************************************************************)
EXTENDS DumpRoundTrip, SumTheorems, SequenceTheorems, FiniteSetTheorems, TLAPS

-----------------------------------------------------------------------------
(* Reading a sequence of tokens *)

(* A set of positions has a last one. *)
LEMMA LastOne ==
  ASSUME NEW n \in Nat, NEW s \in SUBSET (1..n), s # {}
  PROVE  /\ Max(s) \in s /\ \A y \in s : y <= Max(s)
         /\ IsFiniteSet(s) /\ IsFiniteSet(s \ {Max(s)})
         /\ Cardinality(s) \in Nat /\ Cardinality(s \ {Max(s)}) \in Nat
         /\ Cardinality(s) = Cardinality(s \ {Max(s)}) + 1
<1> DEFINE Q == {m \in Nat : \A t \in SUBSET (1..m) :
                               t # {} => \E x \in t : \A y \in t : x >= y}
<1>1. 0 \in Q
  <2>1. 1..0 = {}
    OBVIOUS
  <2>2. \A t \in SUBSET (1..0) : t = {}
    BY <2>1
  <2> QED BY <2>2
<1>2. ASSUME NEW m \in Nat, m \in Q PROVE m + 1 \in Q
  <2> SUFFICES ASSUME NEW t \in SUBSET (1..(m + 1)), t # {}
               PROVE  \E x \in t : \A y \in t : x >= y
    OBVIOUS
  <2>1. CASE m + 1 \in t
    BY <2>1
  <2>2. CASE m + 1 \notin t
    <3>1. t \in SUBSET (1..m)
      BY <2>2
    <3> QED BY <1>2, <3>1
  <2> QED BY <2>1, <2>2
<1>3. n \in Q
  <2> HIDE DEF Q
  <2> QED BY <1>1, <1>2, NumberInduction
<1>4. \E x \in s : \A y \in s : x >= y
  BY <1>3
<1>5. Max(s) \in s /\ \A y \in s : Max(s) >= y
  BY <1>4, Zenon DEF Max
<1>6. IsFiniteSet(s)
  <2>1. IsFiniteSet(1..n)
    BY FS_Interval
  <2> QED BY <2>1, FS_Subset
<1>7. \A y \in s : y <= Max(s)
  BY <1>5
<1> QED BY <1>5, <1>6, <1>7, RemoveOne

(* FoldLeft() over the tokens s of which the last ones are at the positions of a set *)
IsFold(g, base, s) ==
  g = [x \in SUBSET (DOMAIN s) |->
         IF x = {} THEN base ELSE ReadToken(g[x \ {Max(x)}], s[Max(x)])]

FoldAt(g, base, s, x) ==
  g[x] = IF x = {} THEN base ELSE ReadToken(g[x \ {Max(x)}], s[Max(x)])

(* One step of such a fold *)
LEMMA FoldOf ==
  ASSUME NEW base, NEW s, NEW g, IsFold(g, base, s), NEW x \in SUBSET (DOMAIN s)
  PROVE  FoldAt(g, base, s, x)
<1> DEFINE G(t) == IF t = {} THEN base ELSE ReadToken(g[t \ {Max(t)}], s[Max(t)])
<1>1. g = [t \in SUBSET (DOMAIN s) |-> G(t)]
  BY Zenon DEF IsFold
<1>2. [t \in SUBSET (DOMAIN s) |-> G(t)][x] = G(x)
  <2> HIDE DEF G
  <2> QED OBVIOUS
<1> QED BY <1>1, <1>2, Zenon DEF FoldAt

(* There is such a fold. *)
LEMMA FoldExists ==
  ASSUME NEW n \in Nat, NEW s, DOMAIN s = 1..n, NEW base
  PROVE  \E g : IsFold(g, base, s)
<1> DEFINE S == 1..n
           B(v, x) == ReadToken(v, s[x])
           Upto(m) == {t \in SUBSET S : Cardinality(t) <= m}
           G(g, t) == IF t = {} THEN base ELSE B(g[t \ {Max(t)}], Max(t))
           Eq(g, m) == g = [t \in Upto(m) |-> G(g, t)]
           N == {m \in Nat : \E g : Eq(g, m)}
<1>1. \A t \in SUBSET S : IsFiniteSet(t) /\ Cardinality(t) \in Nat
  <2>1. IsFiniteSet(1..n)
    BY FS_Interval
  <2> QED BY <2>1, FS_Subset, FS_CardinalityType
<1>2. 0 \in N
  <2> DEFINE g == [t \in Upto(0) |-> base]
  <2>1. \A t \in Upto(0) : t = {}
    BY <1>1, FS_EmptySet
  <2>2. \A t \in Upto(0) : G(g, t) = base
    BY <2>1
  <2>3. g = [t \in Upto(0) |-> G(g, t)]
    <3> HIDE DEF G, Upto
    <3> QED BY <2>2
  <2> HIDE DEF g, G, Upto
  <2>4. Eq(g, 0)
    BY <2>3
  <2> HIDE DEF Eq
  <2> QED BY <2>4
<1>3. ASSUME NEW m \in Nat, m \in N PROVE m + 1 \in N
  <2>1. PICK g : Eq(g, m)
    BY <1>3
  <2> DEFINE h == [t \in Upto(m + 1) |-> G(g, t)]
  <2>2. ASSUME NEW t \in Upto(m) PROVE g[t] = h[t]
    <3>1. t \in Upto(m + 1)
      BY <1>1
    <3>2. h[t] = G(g, t)
      <4> HIDE DEF G, Upto
      <4> QED BY <3>1
    <3>3. [u \in Upto(m) |-> G(g, u)][t] = G(g, t)
      <4> HIDE DEF G, Upto
      <4> QED OBVIOUS
    <3>4. g = [u \in Upto(m) |-> G(g, u)]
      BY <2>1, Zenon
    <3> HIDE DEF G, Upto, h
    <3> QED BY <3>2, <3>3, <3>4, Zenon
  <2>3. ASSUME NEW t \in Upto(m + 1), t # {} PROVE t \ {Max(t)} \in Upto(m)
    <3>1. t \in SUBSET (1..n) /\ Cardinality(t) <= m + 1
      OBVIOUS
    <3>2. /\ Cardinality(t) \in Nat /\ Cardinality(t \ {Max(t)}) \in Nat
          /\ Cardinality(t) = Cardinality(t \ {Max(t)}) + 1
      BY <2>3, <3>1, LastOne
    <3>3. Cardinality(t \ {Max(t)}) <= m
      BY <3>1, <3>2
    <3> QED BY <3>1, <3>3
  <2>4. \A t \in Upto(m + 1) : G(g, t) = G(h, t)
    <3> SUFFICES ASSUME NEW t \in Upto(m + 1), t # {}
                 PROVE  g[t \ {Max(t)}] = h[t \ {Max(t)}]
      <4> HIDE DEF B, h, Upto
      <4> QED OBVIOUS
    <3> HIDE DEF h, Upto
    <3> QED BY <2>2, <2>3
  <2>5. h = [t \in Upto(m + 1) |-> G(h, t)]
    <3>1. [t \in Upto(m + 1) |-> G(g, t)] = [t \in Upto(m + 1) |-> G(h, t)]
      <4> HIDE DEF G, Upto, h
      <4> QED BY <2>4
    <3>2. h = [t \in Upto(m + 1) |-> G(g, t)]
      OBVIOUS
    <3> HIDE DEF G, Upto, h
    <3> QED BY <3>1, <3>2
  <2> HIDE DEF h
  <2>6. Eq(h, m + 1)
    BY <2>5
  <2> HIDE DEF Eq
  <2> QED BY <2>6
<1>4. Nat \subseteq N
  <2> HIDE DEF N
  <2> QED BY <1>2, <1>3, NumberInduction
<1>5. PICK g : Eq(g, Cardinality(S))
  BY <1>1, <1>4
<1>6. Upto(Cardinality(S)) = SUBSET S
  <2>1. \A t \in SUBSET S : Cardinality(t) <= Cardinality(S)
    BY <1>1, FS_Subset
  <2> QED BY <2>1
<1>7. IsFold(g, base, s)
  <2> HIDE DEF Upto
  <2>1. g = [t \in SUBSET S |-> G(g, t)]
    BY <1>5, <1>6, Zenon
  <2> QED BY <2>1 DEF IsFold
<1> QED BY <1>7

(* The readers after the first k tokens *)
IsRun(h, base, s) ==
  /\ h[0] = base
  /\ \A k \in 1..Len(s) : h[k] = ReadToken(h[k - 1], s[k])

Reading(base, s) == FoldLeft(ReadToken, base, s)

(* Reading a sequence is reading its tokens one after the other. *)
LEMMA FoldRun ==
  ASSUME NEW S, NEW s \in Seq(S), NEW base
  PROVE  \E h : IsRun(h, base, s) /\ Reading(base, s) = h[Len(s)]
<1>0. DOMAIN s = 1..Len(s) /\ Len(s) \in Nat
  OBVIOUS
<1>1. \E g : IsFold(g, base, s)
  BY <1>0, FoldExists
<1>a. \E g : IsFold(g, base, s) /\ Reading(base, s) = g[DOMAIN s]
  <2> DEFINE w == CHOOSE g : IsFold(g, base, s)
  <2>1. IsFold(w, base, s)
    BY <1>1, Zenon
  <2>2. Reading(base, s) = w[DOMAIN s]
    BY Zenon DEF Reading, FoldLeft, MapThenFoldSet, IsFold
  <2> QED BY <2>1, <2>2
<1>b. PICK g : IsFold(g, base, s) /\ Reading(base, s) = g[DOMAIN s]
  BY <1>a
<1>2. IsFold(g, base, s)
  BY <1>b
<1>3. Reading(base, s) = g[DOMAIN s]
  BY <1>b
<1> DEFINE h == [k \in 0..Len(s) |-> g[1..k]]
<1>4. h[0] = base
  <2>1. 1..0 = {} /\ h[0] = g[1..0]
    BY <1>0
  <2>2. g[{}] = base
    <3>1. {} \in SUBSET (DOMAIN s)
      OBVIOUS
    <3>2. FoldAt(g, base, s, {})
      BY <1>2, <3>1, FoldOf, Zenon
    <3> QED BY <3>2 DEF FoldAt
  <2> QED BY <2>1, <2>2
<1>5. ASSUME NEW k \in 1..Len(s) PROVE h[k] = ReadToken(h[k - 1], s[k])
  <2>1. 1..k \in SUBSET (1..Len(s)) /\ 1..k # {}
    <3>1. k \in 1..k
      OBVIOUS
    <3>2. \A x \in 1..k : x \in 1..Len(s)
      BY <1>0
    <3> QED BY <3>1, <3>2
  <2>2. Max(1..k) = k
    <3>1. Max(1..k) \in 1..k /\ \A y \in 1..k : y <= Max(1..k)
      BY <1>0, <2>1, LastOne
    <3>2. k \in 1..k
      OBVIOUS
    <3>3. \A m \in 1..k : k <= m => m = k
      OBVIOUS
    <3> QED BY <3>1, <3>2, <3>3
  <2>3. (1..k) \ {k} = 1..(k - 1)
    OBVIOUS
  <2>4. g[1..k] = ReadToken(g[(1..k) \ {Max(1..k)}], s[Max(1..k)])
    <3>1. 1..k \in SUBSET (DOMAIN s)
      BY <1>0, <2>1
    <3>2. FoldAt(g, base, s, 1..k)
      BY <1>2, <3>1, FoldOf, Zenon
    <3> QED BY <2>1, <3>2, Zenon DEF FoldAt
  <2>5. h[k] = g[1..k] /\ h[k - 1] = g[1..(k - 1)]
    BY <1>0
  <2> QED BY <2>2, <2>3, <2>4, <2>5
<1>6. h[Len(s)] = g[DOMAIN s]
  BY <1>0
<1>7. IsRun(h, base, s)
  <2> HIDE DEF h
  <2> QED BY <1>4, <1>5 DEF IsRun
<1> HIDE DEF h
<1> QED BY <1>3, <1>6, <1>7

(* Two runs over sequences of which one begins like the other agree. *)
LEMMA RunsAgree ==
  ASSUME NEW S, NEW s \in Seq(S), NEW t \in Seq(S), Len(s) <= Len(t),
         \A k \in 1..Len(s) : s[k] = t[k],
         NEW base, NEW g, NEW h, IsRun(g, base, s), IsRun(h, base, t)
  PROVE  \A k \in 0..Len(s) : g[k] = h[k]
<1> DEFINE Q == {k \in Nat : k \in 0..Len(s) => g[k] = h[k]}
<1>1. 0 \in Q
  BY DEF IsRun
<1>2. ASSUME NEW k \in Nat, k \in Q PROVE k + 1 \in Q
  <2> SUFFICES ASSUME k + 1 \in 0..Len(s) PROVE g[k + 1] = h[k + 1]
    OBVIOUS
  <2>1. k + 1 \in 1..Len(s) /\ k + 1 \in 1..Len(t) /\ k \in 0..Len(s) /\ (k + 1) - 1 = k
    OBVIOUS
  <2>2. g[k + 1] = ReadToken(g[k], s[k + 1]) /\ h[k + 1] = ReadToken(h[k], t[k + 1])
    BY <2>1 DEF IsRun
  <2> QED BY <1>2, <2>1, <2>2
<1>3. Nat \subseteq Q
  <2> HIDE DEF Q
  <2> QED BY <1>1, <1>2, NumberInduction
<1> QED BY <1>3

(* Nothing is read of an empty sequence. *)
LEMMA ReadNothing ==
  ASSUME NEW base
  PROVE  Reading(base, <<>>) = base
<1>1. <<>> \in Seq({}) /\ Len(<<>>) = 0
  OBVIOUS
<1>2. PICK h : IsRun(h, base, <<>>) /\ Reading(base, <<>>) = h[Len(<<>>)]
  BY <1>1, FoldRun, Zenon
<1> QED BY <1>1, <1>2 DEF IsRun

(* One token more is read with what the reader was before it. *)
LEMMA ReadOneMore ==
  ASSUME NEW S, NEW s \in Seq(S), NEW x \in S, NEW base
  PROVE  Reading(base, Append(s, x)) = ReadToken(Reading(base, s), x)
<1> DEFINE t == Append(s, x)
<1>1. /\ t \in Seq(S) /\ Len(t) = Len(s) + 1 /\ t[Len(s) + 1] = x
      /\ \A k \in 1..Len(s) : s[k] = t[k]
      /\ Len(s) \in Nat
  BY AppendProperties
<1> HIDE DEF t
<1>2. PICK g : IsRun(g, base, s) /\ Reading(base, s) = g[Len(s)]
  BY FoldRun
<1>3. PICK h : IsRun(h, base, t) /\ Reading(base, t) = h[Len(t)]
  BY <1>1, FoldRun
<1>4. g[Len(s)] = h[Len(s)]
  <2>1. Len(s) <= Len(t) /\ Len(s) \in 0..Len(s)
    BY <1>1
  <2> QED BY <1>1, <1>2, <1>3, <2>1, RunsAgree
<1>5. h[Len(t)] = ReadToken(h[Len(s)], x)
  <2>1. Len(t) \in 1..Len(t) /\ Len(t) - 1 = Len(s)
    BY <1>1
  <2> QED BY <1>1, <1>3, <2>1 DEF IsRun
<1> QED BY <1>2, <1>3, <1>4, <1>5 DEF t

-----------------------------------------------------------------------------
(* The inductive invariant *)

Names == {ReadName(a) : a \in Addresses}
Items == [frame : Nat, depth : Nat]

FrameToken == [k : {"C"}, depth : Nat, fn : Nat, defines : BOOLEAN,
               file : [id : Nat \cup {-1}, defines : BOOLEAN, name : {BinaryOf[a] : a \in Addresses}],
               name : {Printed(a) : a \in Addresses}, offset : Addresses]
CounterToken == [k : {"V"}, id : Nat, defines : BOOLEAN, name : CounterDefs,
                 ticks : Nat, value : Nat, peak : Nat, leaks : {Leaks(c) : c \in Counter}]
Token == FrameToken \cup CounterToken \cup {[k |-> "P"], [k |-> "EOL"]}

Walking == phase \in {"frames", "counters"}
Loaded  == phase \in {"put", "flush", "read"}

Here(i) == <<dump, buffer, i>>
Seen == {1} \cup {i \in 2..Len(Buffer) : Here(i) \in lines}
ToEnter == IF phase = "counters" THEN Below(Buffer, Current) \o Tail(stack) ELSE stack

(* What a walk through a tree still has to enter *)
IsWalk(tree, items, seen) ==
  /\ items \in Seq([frame : 2..Len(tree), depth : Nat \ {0}])
  /\ \A i, j \in DOMAIN items : items[i].frame = items[j].frame => i = j
  /\ \A f \in 2..Len(tree) :
       (\E i \in DOMAIN items : items[i].frame = f) <=> f \notin seen /\ ParentOf(tree, f) \in seen
  /\ \A i \in DOMAIN items : items[i].depth = Len(PathsOf(tree)[items[i].frame])
  /\ \A i, j \in DOMAIN items : i <= j => items[j].depth <= items[i].depth

Closed(tree, seen) ==
  /\ 1 \in seen /\ seen \subseteq DOMAIN tree
  /\ \A f \in seen \ {1} : ParentOf(tree, f) \in seen

Fresh == phase = "frames" /\ stack = <<Root>> /\ \A i \in 2..Len(Buffer) : Here(i) \notin lines

WalkOK ==
  Walking =>
    /\ Fresh \/ IsWalk(Buffer, ToEnter, Seen)
    /\ Closed(Buffer, Seen)
    /\ phase = "counters" =>
         /\ stack \in Seq(Items) /\ stack # <<>>
         /\ Current.frame \in Seen \ {1}
         /\ Current.depth = Len(PathsOf(Buffer)[Current.frame])
         /\ ctr \in 0..Len(ThisFrame.counters)

LinesOK ==
  /\ lines \subseteq Frames
  /\ \A x \in Frames :
       /\ x[1] < dump => x \in lines
       /\ x[1] > dump => x \notin lines
       /\ x[1] = dump => IF Walking
                         THEN /\ x[2] < buffer => x \in lines
                              /\ x[2] > buffer => x \notin lines
                         ELSE x \in lines

PhaseOK ==
  /\ program \in Programs
  /\ phase \in {"begin", "frames", "counters", "put", "flush", "read", "done"}
  /\ dump \in 0..Len(program.dumps)
  /\ phase = "begin" => dump < Len(program.dumps)
  /\ phase # "begin" => dump > 0
  /\ phase = "done" => dump = Len(program.dumps)
  /\ Walking => buffer \in DOMAIN program.dumps[dump]

Chain(chain) ==
  /\ chain \in Seq(Addresses)
  /\ \A i, j \in DOMAIN chain : i < j => chain[i] < chain[j]

CacheOK(cache) ==
  /\ cache = [symcache |-> cache.symcache, symtable |-> cache.symtable,
              symId |-> cache.symId, binId |-> cache.binId]
  /\ DOMAIN cache.symcache = Slots /\ DOMAIN cache.symtable = Slots
  /\ \A s \in Slots : Chain(cache.symcache[s]) /\ Chain(cache.symtable[s])
                      /\ Range(cache.symcache[s]) \subseteq Range(cache.symtable[s])
  /\ DOMAIN cache.symId \subseteq Addresses
  /\ \A a \in Addresses : a \in Range(cache.symtable[Slot[a]]) <=> a \in DOMAIN cache.symId
  /\ DOMAIN cache.binId = {BinaryOf[a] : a \in DOMAIN cache.symId}

(* An IgProfDumpInfo: what it numbers is known to its cache. *)
InfoFits(i) ==
  /\ i = [nsyms |-> i.nsyms, nlibs |-> i.nlibs, nctrs |-> i.nctrs,
          symcache |-> i.symcache, ids |-> i.ids, out |-> i.out, crashed |-> FALSE]
  /\ i.nsyms \in Nat /\ i.nlibs \in Nat /\ i.nctrs \in Nat
  /\ i.out \in Seq(Token)
  /\ CacheOK(i.symcache)
  /\ \A a \in DOMAIN i.symcache.symId : i.symcache.symId[a] \in 0..(i.nsyms - 1)
  /\ \A b \in DOMAIN i.symcache.binId : i.symcache.binId[b] \in 0..(i.nlibs - 1)
  /\ i.ids \in [CounterDefs -> Int]
  /\ \A c \in CounterDefs : i.ids[c] = -1 \/ i.ids[c] \in 0..(i.nctrs - 1)

InfoOK ==
  /\ InfoFits(info) /\ info.out # <<>>
  /\ \A a \in DOMAIN info.symcache.symId : \E x \in Frames : FrameAt(x).address = a
  /\ \A c \in CounterDefs :
       info.ids[c] # -1 => Walking /\ \E i \in DOMAIN Buffer : c \in Defs(Buffer, i)

StreamOK ==
  /\ file \in Seq(Token) /\ buf \in Seq(Token) /\ todo \in Seq(Token)
  /\ failures \in Nat /\ (torn => failures # 0)
  /\ phase = "put" => off = 0 /\ todo # <<>>
  /\ phase = "flush" => off \in 0..(Len(buf) - 1)
  /\ phase \notin {"put", "flush"} => off = 0 /\ buf = <<>> /\ todo = <<>>
  /\ phase \notin {"put", "flush", "read"} => file = <<>>
  /\ failures = 0 /\ Loaded =>
       (file \o SubSeq(buf, off + 1, Len(buf))) \o todo = info.out

(* The counters that have been dumped *)
Dumped ==
  {c \in CountersOf(lines) :
     phase = "counters" /\ c[1] = Here(Current.frame) => c[2] <= ctr}

Unused(S) == \A c \in S : CounterAt(c).ticks = 0 /\ CounterAt(c).peak = 0

Costs(L, D, key) == [p \in {PathTo(x) : x \in L} |-> Counted(D, p, key)]

IsReader(r) ==
  r = [key |-> r.key, known |-> r.known, cost |-> r.cost, status |-> "reading",
       nodestack |-> r.nodestack, symbols |-> r.symbols, files |-> r.files,
       namedFiles |-> r.namedFiles, keys |-> r.keys, expects |-> r.expects]

(* The reader after what has been put so far *)
Follower == Reading(Reader(reader), info.out)

(* The tables of the reader are those of the writer. *)
SymbolTable(symbols, symId, n) ==
  /\ symbols \in Seq(Names) /\ Len(symbols) = n
  /\ \A a \in DOMAIN symId : symbols[symId[a] + 1] = ReadName(a)

FileTable(files, named, binId, n) ==
  /\ files \in Seq(named) /\ Len(files) = n
  /\ \A b \in DOMAIN binId : files[binId[b] + 1] = RealPath[b]
  /\ named = {RealPath[b] : b \in DOMAIN binId}

SymbolsFit(r, i) ==
  /\ SymbolTable(r.symbols, i.symcache.symId, i.nsyms)
  /\ FileTable(r.files, r.namedFiles, i.symcache.binId, i.nlibs)

(* So are its counters; it has a key when one of those dumped has counted something. *)
KeyTable(r, i) ==
  /\ r.keys \in Seq(BOOLEAN) /\ Len(r.keys) = i.nctrs
  /\ \A c \in CounterDefs : i.ids[c] # -1 => (r.keys[i.ids[c] + 1] <=> c = r.key)
  /\ r.key = "" => i.nctrs = 0

KeysFit(r, i, D, d) ==
  /\ KeyTable(r, i)
  /\ r.key = "" => Unused(D)
  /\ i.nctrs = 0 => Unused({c \in D : c[1][1] = d})

(* Where the reader's stack of nodes leads for what is still to be entered *)
OnStack(tree, items, nodestack) ==
  \A i \in DOMAIN items :
    /\ items[i].depth - 1 <= Len(nodestack)
    /\ SubSeq(nodestack, 1, items[i].depth - 1) =
         PathsOf(tree)[ParentOf(tree, items[i].frame)]

StackFits(r) ==
  /\ r.nodestack \in Seq(Names)
  /\ r.expects = IF phase = "counters" THEN "counter" ELSE "line"
  /\ phase = "counters" => r.nodestack = PathsOf(Buffer)[Current.frame]
  /\ Walking /\ ~ Fresh => OnStack(Buffer, ToEnter, r.nodestack)

(* The reader follows the writer. *)
Follows(r) ==
  /\ IsReader(r)
  /\ r.cost = Costs(lines, Dumped, r.key)
  /\ Walking => SymbolsFit(r, info)
  /\ KeysFit(r, info, Dumped, dump)
  /\ StackFits(r)

Good == failures = 0 /\ Counting /\ ~ SharedFile

ReadOK ==
  Good =>
    /\ IsReader(reader)
    /\ Walking \/ Loaded => Follows(Follower)
    /\ phase \in {"begin", "done"} =>
         /\ reader.cost = Costs(lines, CountersOf(lines), reader.key)
         /\ reader.key = "" => Unused(CountersOf(lines))

Inv ==
  PhaseOK /\ WalkOK /\ LinesOK /\ InfoOK /\ StreamOK /\ IsFiniteSet(Dumped) /\ ReadOK

-----------------------------------------------------------------------------
(* Trees *)

(* A sequence whose elements are in a set *)
LEMMA SeqIn ==
  ASSUME NEW S, NEW s \in Seq(S), NEW T, \A i \in 1..Len(s) : s[i] \in T
  PROVE  s \in Seq(T)
<1>1. PICK n \in Nat : n = Len(s) /\ DOMAIN s = 1..n /\ s = [i \in 1..n |-> s[i]]
  OBVIOUS
<1>2. s \in [1..n -> T]
  BY <1>1
<1> QED BY <1>2

Trees == {tree \in Seq(FrameRecord) : IsTree(tree)}

(* The buffers of the programs *)
LEMMA TreesOf ==
  ASSUME NEW p \in Programs
  PROVE  /\ p.dumps \in Seq(Seq(Trees)) /\ Len(p.dumps) \in Nat \ {0}
         /\ \A d \in DOMAIN p.dumps :
              /\ Len(p.dumps[d]) \in Nat \ {0}
              /\ DOMAIN p.dumps[d] = 1..Len(p.dumps[d])
              /\ \A b \in DOMAIN p.dumps[d] : p.dumps[d][b] \in Trees
<1>1. /\ p.dumps \in Seq(Seq(Seq(FrameRecord))) /\ p.dumps # <<>>
      /\ \A d \in DOMAIN p.dumps :
           p.dumps[d] # <<>> /\ \A b \in DOMAIN p.dumps[d] : IsTree(p.dumps[d][b])
  BY ProgramsAssumption
<1>2. ASSUME NEW d \in DOMAIN p.dumps
      PROVE  /\ Len(p.dumps[d]) \in Nat \ {0}
             /\ DOMAIN p.dumps[d] = 1..Len(p.dumps[d])
             /\ p.dumps[d] \in Seq(Trees)
             /\ \A b \in DOMAIN p.dumps[d] : p.dumps[d][b] \in Trees
  <2>1. PICK q : q = p.dumps[d]
    OBVIOUS
  <2>2. /\ q \in Seq(Seq(FrameRecord)) /\ q # <<>>
        /\ \A b \in DOMAIN q : IsTree(q[b])
    BY <1>1, <2>1
  <2>3. /\ Len(q) \in Nat \ {0} /\ DOMAIN q = 1..Len(q)
        /\ \A b \in DOMAIN q : q[b] \in Seq(FrameRecord)
    BY <2>2
  <2>4. \A b \in DOMAIN q : q[b] \in Trees
    BY <2>2, <2>3 DEF Trees
  <2>5. q \in Seq(Trees)
    BY <2>2, <2>3, <2>4, SeqIn
  <2> QED BY <2>1, <2>3, <2>4, <2>5
<1>3. PICK n \in Nat : n = Len(p.dumps) /\ DOMAIN p.dumps = 1..n /\ n # 0
  BY <1>1
<1>4. p.dumps \in Seq(Seq(Trees))
  <2>1. p.dumps \in [1..n -> Seq(Trees)]
    BY <1>1, <1>2, <1>3
  <2> QED BY <2>1
<1> QED BY <1>2, <1>3, <1>4

(* What is known of a frame of a tree *)
LEMMA FrameFacts ==
  ASSUME NEW tree \in Trees
  PROVE  /\ Len(tree) \in Nat \ {0} /\ DOMAIN tree = 1..Len(tree)
         /\ \A i \in DOMAIN tree : tree[i] \in FrameRecord
         /\ \A i \in 2..Len(tree) : tree[i].address \in Addresses
         /\ \A i \in DOMAIN tree :
              /\ tree[i].children \in Seq(2..Len(tree))
              /\ tree[i].counters \in Seq(Counter)
              /\ \A j \in DOMAIN tree[i].counters :
                   LET c == tree[i].counters[j] IN c.ticks = 0 /\ c.peak = 0 => c.value = 0
<1>1. tree \in Seq(FrameRecord) /\ IsTree(tree)
  BY DEF Trees
<1>2. /\ Len(tree) \in Nat \ {0} /\ DOMAIN tree = 1..Len(tree)
      /\ \A i \in DOMAIN tree : tree[i] \in FrameRecord
  BY <1>1 DEF IsTree
<1>3. ASSUME NEW i \in DOMAIN tree
      PROVE  tree[i].children \in Seq(2..Len(tree)) /\ tree[i].counters \in Seq(Counter)
  <2>1. PICK s : s = tree[i].children
    OBVIOUS
  <2>2. s \in Seq(Nat) /\ \A k \in DOMAIN s : s[k] \in 2..Len(tree)
    BY <1>1, <1>2, <2>1 DEF IsTree, FrameRecord
  <2>3. Len(s) \in Nat /\ DOMAIN s = 1..Len(s)
    BY <2>2
  <2>4. s \in Seq(2..Len(tree))
    BY <2>2, <2>3
  <2>5. tree[i].counters \in Seq(Counter)
    BY <1>2 DEF FrameRecord
  <2> QED BY <2>1, <2>4, <2>5
<1>4. \A i \in 2..Len(tree) : tree[i].address \in Addresses
  BY <1>1 DEF IsTree
<1>5. \A i \in DOMAIN tree : \A j \in DOMAIN tree[i].counters :
        LET c == tree[i].counters[j] IN c.ticks = 0 /\ c.peak = 0 => c.value = 0
  BY <1>1, Zenon DEF IsTree
<1> QED BY <1>2, <1>3, <1>4, <1>5

(* A frame other than the root has one parent and one place among its children. *)
LEMMA ParentFacts ==
  ASSUME NEW tree \in Trees, NEW i \in 2..Len(tree)
  PROVE  /\ ParentOf(tree, i) \in 1..(i - 1) /\ ParentOf(tree, i) \in DOMAIN tree
         /\ \E k \in DOMAIN tree[ParentOf(tree, i)].children :
              tree[ParentOf(tree, i)].children[k] = i
         /\ \A q, r \in DOMAIN tree :
              \A k \in DOMAIN tree[q].children : \A l \in DOMAIN tree[r].children :
                tree[q].children[k] = i /\ tree[r].children[l] = i =>
                  q = ParentOf(tree, i) /\ q = r /\ k = l
<1>1. IsTree(tree) /\ DOMAIN tree = 1..Len(tree) /\ Len(tree) \in Nat
  BY FrameFacts DEF Trees
<1>a. PICK p \in 1..(i - 1) : \E k \in DOMAIN tree[p].children :
        /\ tree[p].children[k] = i
        /\ \A q \in DOMAIN tree : \A l \in DOMAIN tree[q].children :
             tree[q].children[l] = i => q = p /\ l = k
  BY <1>1, Zenon DEF IsTree
<1>2. PICK k \in DOMAIN tree[p].children :
        /\ tree[p].children[k] = i
        /\ \A q \in DOMAIN tree : \A l \in DOMAIN tree[q].children :
             tree[q].children[l] = i => q = p /\ l = k
  BY <1>a
<1>3. p \in DOMAIN tree /\ i \in Range(tree[p].children)
  BY <1>1, <1>2 DEF Range
<1>4. \A q \in DOMAIN tree : i \in Range(tree[q].children) => q = p
  <2> SUFFICES ASSUME NEW q \in DOMAIN tree, i \in Range(tree[q].children) PROVE q = p
    OBVIOUS
  <2>1. PICK l \in DOMAIN tree[q].children : tree[q].children[l] = i
    BY Zenon DEF Range
  <2> QED BY <1>2, <2>1, Zenon
<1>5. ParentOf(tree, i) = p
  <2>1. ParentOf(tree, i) \in DOMAIN tree /\ i \in Range(tree[ParentOf(tree, i)].children)
    BY <1>3, Zenon DEF ParentOf
  <2> QED BY <1>4, <2>1
<1> QED BY <1>2, <1>3, <1>5, Zenon

-----------------------------------------------------------------------------
(* The paths to the frames of a tree *)

Step(g, tree, i) ==
  IF i = 1 THEN <<>> ELSE Append(g[ParentOf(tree, i)], ReadName(tree[i].address))

IsPaths(g, tree) == g = [i \in DOMAIN tree |-> Step(g, tree, i)]

(* The recursion over the parents of frames is well founded. *)
LEMMA PathsExist ==
  ASSUME NEW tree \in Trees
  PROVE  \E g : IsPaths(g, tree)
<1> DEFINE Eq(g, m) == g = [i \in 1..m |-> Step(g, tree, i)]
           N == {m \in Nat : m <= Len(tree) => \E g : Eq(g, m)}
<1>0. Len(tree) \in Nat /\ DOMAIN tree = 1..Len(tree)
  BY FrameFacts
<1>1. 0 \in N
  <2> DEFINE g == [i \in 1..0 |-> 0]
  <2>1. g = [i \in 1..0 |-> Step(g, tree, i)]
    <3>1. \A i \in 1..0 : FALSE
      OBVIOUS
    <3> HIDE DEF g
    <3>2. g = [i \in 1..0 |-> 0]
      BY DEF g
    <3> QED BY <3>1, <3>2
  <2> HIDE DEF g
  <2>2. Eq(g, 0)
    BY <2>1
  <2> HIDE DEF Eq
  <2> QED BY <2>2
<1>2. ASSUME NEW m \in Nat, m \in N PROVE m + 1 \in N
  <2> SUFFICES ASSUME m + 1 <= Len(tree) PROVE \E h : Eq(h, m + 1)
    OBVIOUS
  <2>1. PICK g : Eq(g, m)
    <3>1. m <= Len(tree)
      BY <1>0
    <3> QED BY <1>2, <3>1
  <2> DEFINE h == [i \in 1..(m + 1) |-> Step(g, tree, i)]
  <2>2. ASSUME NEW i \in 1..m PROVE h[i] = g[i]
    <3>1. h[i] = Step(g, tree, i)
      OBVIOUS
    <3>2. [j \in 1..m |-> Step(g, tree, j)][i] = Step(g, tree, i)
      OBVIOUS
    <3>3. g = [j \in 1..m |-> Step(g, tree, j)]
      BY <2>1, Zenon
    <3> HIDE DEF h
    <3> QED BY <3>1, <3>2, <3>3, Zenon
  <2>3. \A i \in 1..(m + 1) : Step(g, tree, i) = Step(h, tree, i)
    <3> SUFFICES ASSUME NEW i \in 1..(m + 1), i # 1
                 PROVE  g[ParentOf(tree, i)] = h[ParentOf(tree, i)]
      <4> HIDE DEF h
      <4> QED BY DEF Step
    <3>1. i \in 2..Len(tree)
      BY <1>0
    <3>2. ParentOf(tree, i) \in 1..(i - 1)
      BY <3>1, ParentFacts
    <3>3. ParentOf(tree, i) \in 1..m
      BY <3>2
    <3> HIDE DEF h
    <3> QED BY <2>2, <3>3
  <2>4. h = [i \in 1..(m + 1) |-> Step(h, tree, i)]
    <3>1. [i \in 1..(m + 1) |-> Step(g, tree, i)] = [i \in 1..(m + 1) |-> Step(h, tree, i)]
      <4> HIDE DEF h
      <4> QED BY <2>3
    <3>2. h = [i \in 1..(m + 1) |-> Step(g, tree, i)]
      OBVIOUS
    <3> HIDE DEF h
    <3> QED BY <3>1, <3>2
  <2> HIDE DEF h
  <2>5. Eq(h, m + 1)
    BY <2>4
  <2> HIDE DEF Eq
  <2> QED BY <2>5
<1>3. Nat \subseteq N
  <2> HIDE DEF N
  <2> QED BY <1>1, <1>2, NumberInduction
<1>4. PICK g : Eq(g, Len(tree))
  BY <1>0, <1>3
<1>5. IsPaths(g, tree)
  BY <1>0, <1>4, Zenon DEF IsPaths
<1> QED BY <1>5

(* The path to the root is empty, that to another frame has one name more *)
(* than that to its parent.                                               *)
LEMMA PathStep ==
  ASSUME NEW tree \in Trees, NEW i \in DOMAIN tree
  PROVE  PathsOf(tree)[i] = Step(PathsOf(tree), tree, i)
<1> DEFINE w == CHOOSE g : IsPaths(g, tree)
<1>1. PathsOf(tree) = w
  BY Zenon DEF PathsOf, IsPaths, Step
<1>2. IsPaths(w, tree)
  BY PathsExist, Zenon
<1> HIDE DEF w
<1>3. w = [j \in DOMAIN tree |-> Step(w, tree, j)]
  BY <1>2, Zenon DEF IsPaths
<1>4. [j \in DOMAIN tree |-> Step(w, tree, j)][i] = Step(w, tree, i)
  OBVIOUS
<1>5. w[i] = Step(w, tree, i)
  BY <1>3, <1>4, Zenon
<1> QED BY <1>1, <1>5, Zenon

(* Paths are sequences of names, and grow by one name from parent to child. *)
LEMMA PathFacts ==
  ASSUME NEW tree \in Trees
  PROVE  /\ \A i \in DOMAIN tree : PathsOf(tree)[i] \in Seq(Names)
         /\ PathsOf(tree)[1] = <<>>
         /\ \A i \in 2..Len(tree) :
              /\ ReadName(tree[i].address) \in Names
              /\ PathsOf(tree)[ParentOf(tree, i)] \in Seq(Names)
              /\ PathsOf(tree)[i] =
                   Append(PathsOf(tree)[ParentOf(tree, i)], ReadName(tree[i].address))
              /\ Len(PathsOf(tree)[i]) = Len(PathsOf(tree)[ParentOf(tree, i)]) + 1
<1>0. PICK n \in Nat : n = Len(tree) /\ n # 0 /\ DOMAIN tree = 1..n
  BY FrameFacts
<1>1. PICK g : g = PathsOf(tree)
  OBVIOUS
<1>2. \A i \in 1..n : g[i] = Step(g, tree, i)
  BY <1>0, <1>1, PathStep
<1>3. \A i \in 2..n : ReadName(tree[i].address) \in Names
  BY <1>0, FrameFacts DEF Names
<1>4. g[1] = <<>>
  BY <1>0, <1>2 DEF Step
<1>5. \A i \in 2..n : /\ g[i] = Append(g[ParentOf(tree, i)], ReadName(tree[i].address))
                      /\ ParentOf(tree, i) \in 1..(i - 1) /\ ParentOf(tree, i) \in 1..n
  <2> SUFFICES ASSUME NEW i \in 2..n
               PROVE  /\ g[i] = Append(g[ParentOf(tree, i)], ReadName(tree[i].address))
                      /\ ParentOf(tree, i) \in 1..(i - 1) /\ ParentOf(tree, i) \in 1..n
    OBVIOUS
  <2>1. g[i] = Step(g, tree, i) /\ i # 1
    BY <1>0, <1>2
  <2>2. ParentOf(tree, i) \in 1..(i - 1) /\ ParentOf(tree, i) \in 1..n
    BY <1>0, ParentFacts
  <2> QED BY <2>1, <2>2 DEF Step
<1>6. \A i \in 1..n : g[i] \in Seq(Names)
  <2>0. PICK P : P = Seq(Names)
    OBVIOUS
  <2> DEFINE Q == {m \in Nat : \A i \in 1..m : i <= n => g[i] \in P}
  <2>1. 0 \in Q
    OBVIOUS
  <2>2. ASSUME NEW m \in Nat, m \in Q PROVE m + 1 \in Q
    <3> SUFFICES ASSUME m + 1 <= n PROVE g[m + 1] \in P
      BY <2>2
    <3>1. CASE m = 0
      <4>1. <<>> \in Seq(Names) /\ m + 1 = 1
        BY <3>1
      <4> QED BY <1>4, <2>0, <4>1
    <3>2. CASE m # 0
      <4>1. PICK i \in 2..n : i = m + 1
        BY <3>2
      <4>2. g[ParentOf(tree, i)] \in Seq(Names)
        BY <1>5, <2>0, <2>2, <4>1
      <4>3. g[i] \in Seq(Names)
        <5>1. PICK a, t : a = ReadName(tree[i].address) /\ t = g[ParentOf(tree, i)]
          OBVIOUS
        <5>2. a \in Names /\ t \in Seq(Names) /\ g[i] = Append(t, a)
          BY <1>3, <1>5, <4>2, <5>1
        <5> QED BY <5>2, AppendProperties
      <4> QED BY <2>0, <4>1, <4>3
    <3> QED BY <3>1, <3>2
  <2>3. Nat \subseteq Q
    <3> HIDE DEF Q
    <3> QED BY <2>1, <2>2, NumberInduction
  <2> QED BY <1>0, <2>0, <2>3
<1>7. ASSUME NEW i \in 2..n
      PROVE  g[ParentOf(tree, i)] \in Seq(Names) /\ Len(g[i]) = Len(g[ParentOf(tree, i)]) + 1
  <2>1. PICK a, t : a = ReadName(tree[i].address) /\ t = g[ParentOf(tree, i)]
    OBVIOUS
  <2>2. a \in Names /\ t \in Seq(Names) /\ g[i] = Append(t, a)
    BY <1>3, <1>5, <1>6, <2>1
  <2>3. Len(g[i]) = Len(t) + 1
    BY <2>2, AppendProperties
  <2> QED BY <2>1, <2>2, <2>3
<1> QED BY <1>0, <1>1, <1>3, <1>4, <1>5, <1>6, <1>7

-----------------------------------------------------------------------------
(* Walks through a tree *)

ItemsOf(tree) == [frame : 2..Len(tree), depth : Nat \ {0}]

(* The children of a frame as items *)
LEMMA BelowFacts ==
  ASSUME NEW tree \in Trees, NEW f \in DOMAIN tree, NEW d \in Nat
  PROVE  /\ Below(tree, Item(f, d)) \in Seq(ItemsOf(tree))
         /\ Len(Below(tree, Item(f, d))) = Len(tree[f].children)
         /\ tree[f].children \in Seq(2..Len(tree))
         /\ \A k \in 1..Len(tree[f].children) :
              Below(tree, Item(f, d))[k] = Item(tree[f].children[k], d + 1)
<1>1. PICK c : c = tree[f].children
  OBVIOUS
<1>2. c \in Seq(2..Len(tree))
  BY <1>1, FrameFacts
<1>3. PICK m \in Nat : m = Len(c) /\ DOMAIN c = 1..m /\ \A k \in 1..m : c[k] \in 2..Len(tree)
  BY <1>2
<1>4. PICK b : b = [k \in 1..m |-> [frame |-> c[k], depth |-> d + 1]]
  OBVIOUS
<1>5. Below(tree, Item(f, d)) = b
  BY <1>1, <1>3, <1>4 DEF Below, Item
<1>6. \A k \in 1..m : b[k] = [frame |-> c[k], depth |-> d + 1] /\ b[k] \in ItemsOf(tree)
  BY <1>3, <1>4 DEF ItemsOf
<1>7. b \in [1..m -> ItemsOf(tree)]
  BY <1>4, <1>6
<1>8. b \in Seq(ItemsOf(tree)) /\ Len(b) = m
  <2>1. PICK S : S = ItemsOf(tree)
    OBVIOUS
  <2> QED BY <1>7, <2>1
<1>9. \A k \in 1..m : b[k] = Item(c[k], d + 1)
  BY <1>6 DEF Item
<1> QED BY <1>1, <1>2, <1>3, <1>5, <1>8, <1>9

(* A frame is left for its children and then for what follows it. *)
LEMMA WalkOn ==
  ASSUME NEW tree \in Trees, NEW f \in DOMAIN tree,
         NEW d \in Nat, d = Len(PathsOf(tree)[f]),
         NEW t \in Seq(ItemsOf(tree)),
         NEW seen \in SUBSET DOMAIN tree, \A g \in seen \ {1} : ParentOf(tree, g) \in seen,
         f \notin seen,
         \A i, j \in DOMAIN t : t[i].frame = t[j].frame => i = j,
         \A g \in 2..Len(tree) :
           (\E i \in DOMAIN t : t[i].frame = g) <=>
             g \notin seen /\ g # f /\ ParentOf(tree, g) \in seen,
         \A i \in DOMAIN t : t[i].depth = Len(PathsOf(tree)[t[i].frame]) /\ t[i].depth <= d,
         \A i, j \in DOMAIN t : i <= j => t[j].depth <= t[i].depth
  PROVE  IsWalk(tree, Below(tree, Item(f, d)) \o t, seen \cup {f})
<1> DEFINE b == Below(tree, Item(f, d))
           c == tree[f].children
           w == b \o t
<1>1. PICK m \in Nat, n \in Nat : m = Len(b) /\ n = Len(t) /\ DOMAIN t = 1..n /\ m = Len(c)
                                  /\ DOMAIN c = 1..m
  <2>1. Len(b) = Len(c)
    BY BelowFacts
  <2>2. c \in Seq(2..Len(tree))
    BY BelowFacts
  <2> HIDE DEF b, c
  <2>3. Len(c) \in Nat /\ DOMAIN c = 1..Len(c) /\ Len(t) \in Nat /\ DOMAIN t = 1..Len(t)
    BY <2>2, LenProperties
  <2> QED BY <2>1, <2>3
<1>2. /\ w \in Seq(ItemsOf(tree)) /\ Len(w) = m + n /\ DOMAIN w = 1..(m + n)
      /\ \A i \in 1..(m + n) : w[i] = IF i <= m THEN b[i] ELSE t[i - m]
  <2>1. b \in Seq(ItemsOf(tree)) /\ t \in Seq(ItemsOf(tree))
    BY BelowFacts
  <2> HIDE DEF b
  <2>2. w \in Seq(ItemsOf(tree)) /\ Len(w) = Len(b) + Len(t)
        /\ \A i \in 1..(Len(b) + Len(t)) : w[i] = IF i <= Len(b) THEN b[i] ELSE t[i - Len(b)]
    BY <2>1, ConcatProperties
  <2>3. DOMAIN w = 1..Len(w)
    BY <2>2, LenProperties
  <2> QED BY <1>1, <2>2, <2>3
<1>3. \A k \in 1..m : b[k].frame = c[k] /\ b[k].depth = d + 1 /\ c[k] \in 2..Len(tree)
  <2>1. c \in Seq(2..Len(tree))
    BY BelowFacts
  <2>2. \A k \in 1..m : c[k] \in 2..Len(tree)
    BY <1>1, <2>1
  <2>3. \A k \in 1..Len(c) : b[k] = Item(c[k], d + 1)
    BY BelowFacts
  <2> HIDE DEF b, c
  <2> SUFFICES ASSUME NEW k \in 1..m PROVE b[k].frame = c[k] /\ b[k].depth = d + 1
    BY <2>2
  <2>4. b[k] = Item(c[k], d + 1)
    BY <1>1, <2>3
  <2> QED BY <2>4 DEF Item
<1>4. \A k \in 1..m : ParentOf(tree, c[k]) = f /\ \A l \in 1..m : c[k] = c[l] => k = l
  <2> SUFFICES ASSUME NEW k \in 1..m
               PROVE  ParentOf(tree, c[k]) = f /\ \A l \in 1..m : c[k] = c[l] => k = l
    OBVIOUS
  <2>1. PICK i \in 2..Len(tree) : i = c[k]
    BY <1>3
  <2>2. \A q, r \in DOMAIN tree :
          \A x \in DOMAIN tree[q].children : \A l \in DOMAIN tree[r].children :
            tree[q].children[x] = i /\ tree[r].children[l] = i =>
              q = ParentOf(tree, i) /\ q = r /\ x = l
    BY ParentFacts
  <2>3. \A l \in DOMAIN c : c[k] = i /\ c[l] = i => f = ParentOf(tree, i) /\ k = l
    BY <1>1, <2>2
  <2> QED BY <1>1, <2>1, <2>3
<1>5. ASSUME NEW g \in 2..Len(tree), ParentOf(tree, g) = f PROVE \E k \in 1..m : c[k] = g
  BY <1>1, <1>5, ParentFacts
<1>6. \A g \in 2..Len(tree) : ParentOf(tree, g) # g
  BY ParentFacts
<1>7. \A g \in 2..Len(tree) : Len(PathsOf(tree)[g]) = Len(PathsOf(tree)[ParentOf(tree, g)]) + 1
  BY PathFacts
<1> HIDE DEF b, c, w
<1>8. \A i \in 1..m : w[i].frame = c[i] /\ w[i].depth = d + 1
  <2> SUFFICES ASSUME NEW i \in 1..m PROVE w[i].frame = c[i] /\ w[i].depth = d + 1
    OBVIOUS
  <2>1. i \in 1..(m + n) /\ i <= m
    OBVIOUS
  <2> QED BY <1>2, <1>3, <2>1
<1>9. \A i \in 1..n : w[i + m] = t[i]
  <2> SUFFICES ASSUME NEW i \in 1..n PROVE w[i + m] = t[i]
    OBVIOUS
  <2>1. i + m \in 1..(m + n) /\ ~ (i + m <= m) /\ (i + m) - m = i
    OBVIOUS
  <2> QED BY <1>2, <2>1
<1>10. \A i \in 1..(m + n) : i \in 1..m \/ \E k \in 1..n : i = k + m
  <2> SUFFICES ASSUME NEW i \in 1..(m + n), i \notin 1..m PROVE \E k \in 1..n : i = k + m
    OBVIOUS
  <2>1. i - m \in 1..n /\ i = (i - m) + m
    OBVIOUS
  <2> QED BY <2>1
<1>11. \A i \in 1..n : t[i].frame \in 2..Len(tree) /\ t[i].depth \in Nat
  <2>1. \A i \in 1..n : t[i] \in ItemsOf(tree)
    BY <1>1
  <2> QED BY <2>1 DEF ItemsOf
<1>12. \A i \in 1..m : \A j \in 1..n : c[i] # t[j].frame
  <2> SUFFICES ASSUME NEW i \in 1..m, NEW j \in 1..n, c[i] = t[j].frame PROVE FALSE
    OBVIOUS
  <2>1. c[i] \in 2..Len(tree) /\ ParentOf(tree, c[i]) = f
    BY <1>3, <1>4
  <2>2. ParentOf(tree, c[i]) \in seen
    BY <1>1, <2>1
  <2> QED BY <2>1, <2>2
<1>13. \A i, j \in DOMAIN w : w[i].frame = w[j].frame => i = j
  <2> SUFFICES ASSUME NEW i \in 1..(m + n), NEW j \in 1..(m + n), w[i].frame = w[j].frame
               PROVE  i = j
    BY <1>2
  <2>1. CASE i \in 1..m /\ j \in 1..m
    BY <1>4, <1>8, <2>1
  <2>2. CASE i \in 1..m /\ j \notin 1..m
    <3>1. PICK k \in 1..n : j = k + m
      BY <1>10, <2>2
    <3>2. c[i] = t[k].frame
      BY <1>8, <1>9, <2>2, <3>1
    <3> QED BY <1>12, <2>2, <3>2
  <2>3. CASE i \notin 1..m /\ j \in 1..m
    <3>1. PICK k \in 1..n : i = k + m
      BY <1>10, <2>3
    <3>2. c[j] = t[k].frame
      BY <1>8, <1>9, <2>3, <3>1
    <3> QED BY <1>12, <2>3, <3>2
  <2>4. CASE i \notin 1..m /\ j \notin 1..m
    <3>1. PICK k \in 1..n, l \in 1..n : i = k + m /\ j = l + m
      BY <1>10, <2>4
    <3>2. t[k].frame = t[l].frame
      BY <1>9, <3>1
    <3> QED BY <1>1, <3>1, <3>2
  <2> QED BY <2>1, <2>2, <2>3, <2>4
<1>14. \A g \in 2..Len(tree) :
         (\E i \in DOMAIN w : w[i].frame = g) <=>
           g \notin seen \cup {f} /\ ParentOf(tree, g) \in seen \cup {f}
  <2> SUFFICES ASSUME NEW g \in 2..Len(tree)
               PROVE  (\E i \in DOMAIN w : w[i].frame = g) <=>
                        g \notin seen \cup {f} /\ ParentOf(tree, g) \in seen \cup {f}
    OBVIOUS
  <2>1. (\E i \in DOMAIN w : w[i].frame = g) <=>
          (\E i \in 1..m : c[i] = g) \/ (\E i \in 1..n : t[i].frame = g)
    <3>1. ASSUME NEW i \in DOMAIN w, w[i].frame = g
          PROVE  (\E k \in 1..m : c[k] = g) \/ (\E k \in 1..n : t[k].frame = g)
      <4>1. CASE i \in 1..m
        BY <1>8, <3>1, <4>1
      <4>2. CASE i \notin 1..m
        <5>1. PICK k \in 1..n : i = k + m
          BY <1>2, <1>10, <4>2
        <5> QED BY <1>9, <3>1, <5>1
      <4> QED BY <4>1, <4>2
    <3>2. ASSUME NEW i \in 1..m, c[i] = g PROVE \E k \in DOMAIN w : w[k].frame = g
      <4>1. i \in DOMAIN w
        BY <1>2
      <4> QED BY <1>8, <3>2, <4>1
    <3>3. ASSUME NEW i \in 1..n, t[i].frame = g PROVE \E k \in DOMAIN w : w[k].frame = g
      <4>1. i + m \in DOMAIN w
        BY <1>2
      <4> QED BY <1>9, <3>3, <4>1
    <3> QED BY <3>1, <3>2, <3>3
  <2>2. (\E i \in 1..n : t[i].frame = g) <=> g \notin seen /\ g # f /\ ParentOf(tree, g) \in seen
    BY <1>1
  <2>3. (\E i \in 1..m : c[i] = g) <=> ParentOf(tree, g) = f
    BY <1>4, <1>5
  <2>4. ParentOf(tree, g) = f => g # f /\ g \notin seen
    <3>1. g \in seen => ParentOf(tree, g) \in seen
      OBVIOUS
    <3> QED BY <1>6, <3>1
  <2> QED BY <2>1, <2>2, <2>3, <2>4
<1>15. \A i \in DOMAIN w : w[i].depth = Len(PathsOf(tree)[w[i].frame])
  <2> SUFFICES ASSUME NEW i \in 1..(m + n)
               PROVE  w[i].depth = Len(PathsOf(tree)[w[i].frame])
    BY <1>2
  <2>1. CASE i \in 1..m
    <3>1. PICK g \in 2..Len(tree) : g = c[i]
      BY <1>3, <2>1
    <3>2. ParentOf(tree, g) = f /\ w[i].frame = g /\ w[i].depth = d + 1
      BY <1>4, <1>8, <2>1, <3>1
    <3>3. Len(PathsOf(tree)[g]) = d + 1
      BY <1>7, <3>2
    <3> QED BY <3>2, <3>3
  <2>2. CASE i \notin 1..m
    <3>1. PICK k \in 1..n : i = k + m
      BY <1>10, <2>2
    <3>2. w[i] = t[k]
      BY <1>9, <3>1
    <3>3. t[k].depth = Len(PathsOf(tree)[t[k].frame])
      BY <1>1
    <3> QED BY <3>2, <3>3
  <2> QED BY <2>1, <2>2
<1>16. \A i, j \in DOMAIN w : i <= j => w[j].depth <= w[i].depth
  <2> SUFFICES ASSUME NEW i \in 1..(m + n), NEW j \in 1..(m + n), i <= j
               PROVE  w[j].depth <= w[i].depth
    BY <1>2
  <2>1. CASE j \in 1..m
    BY <1>8, <2>1
  <2>2. CASE i \in 1..m /\ j \notin 1..m
    <3>1. PICK k \in 1..n : j = k + m
      BY <1>10, <2>2
    <3>2. w[j].depth <= d /\ w[j].depth \in Nat
      BY <1>1, <1>9, <1>11, <3>1
    <3> QED BY <1>8, <2>2, <3>2
  <2>3. CASE i \notin 1..m /\ j \notin 1..m
    <3>1. PICK k \in 1..n, l \in 1..n : i = k + m /\ j = l + m
      BY <1>10, <2>3
    <3>2. k <= l
      BY <3>1
    <3>3. t[l].depth <= t[k].depth
      BY <1>1, <3>2
    <3>4. w[i] = t[k] /\ w[j] = t[l]
      BY <1>9, <3>1
    <3> QED BY <3>3, <3>4
  <2> QED BY <2>1, <2>2, <2>3
<1> QED BY <1>2, <1>13, <1>14, <1>15, <1>16 DEF IsWalk, ItemsOf, w, b

(* What is still to be entered after the next frame *)
LEMMA WalkTail ==
  ASSUME NEW tree \in Trees, NEW w, NEW seen, IsWalk(tree, w, seen), w # <<>>
  PROVE  /\ w \in Seq(ItemsOf(tree)) /\ Tail(w) \in Seq(ItemsOf(tree))
         /\ Len(w) \in Nat \ {0} /\ Len(Tail(w)) = Len(w) - 1
         /\ \A i \in 1..Len(Tail(w)) : Tail(w)[i] = w[i + 1]
         /\ Head(w) = w[1] /\ Head(w) = Item(Head(w).frame, Head(w).depth)
         /\ Head(w).frame \in 2..Len(tree) /\ Head(w).depth \in Nat \ {0}
         /\ Head(w).frame \notin seen /\ ParentOf(tree, Head(w).frame) \in seen
         /\ Head(w).depth = Len(PathsOf(tree)[Head(w).frame])
         /\ \A i, j \in DOMAIN Tail(w) : Tail(w)[i].frame = Tail(w)[j].frame => i = j
         /\ \A g \in 2..Len(tree) :
              (\E i \in DOMAIN Tail(w) : Tail(w)[i].frame = g) <=>
                g \notin seen /\ g # Head(w).frame /\ ParentOf(tree, g) \in seen
         /\ \A i \in DOMAIN Tail(w) :
              /\ Tail(w)[i].depth = Len(PathsOf(tree)[Tail(w)[i].frame])
              /\ Tail(w)[i].depth <= Head(w).depth
         /\ \A i, j \in DOMAIN Tail(w) : i <= j => Tail(w)[j].depth <= Tail(w)[i].depth
<1>1. w \in Seq(ItemsOf(tree)) /\ w # <<>>
  BY DEF IsWalk, ItemsOf
<1>2. PICK t : t = Tail(w)
  BY Zenon
<1>3. PICK n \in Nat : n + 1 = Len(w) /\ DOMAIN w = 1..(n + 1)
  <2>1. Len(w) - 1 \in Nat /\ (Len(w) - 1) + 1 = Len(w) /\ DOMAIN w = 1..Len(w)
    BY <1>1
  <2> QED BY <2>1, Zenon
<1>4. t \in Seq(ItemsOf(tree)) /\ Len(t) = n /\ DOMAIN t = 1..n /\ \A i \in 1..n : t[i] = w[i + 1]
  <2>1. t \in Seq(ItemsOf(tree)) /\ Len(t) = Len(w) - 1 /\ \A i \in 1..Len(t) : t[i] = w[i + 1]
    BY <1>1, <1>2, HeadTailProperties
  <2>2. DOMAIN t = 1..Len(t)
    BY <2>1, LenProperties
  <2> QED BY <1>3, <2>1, <2>2
<1>5. Head(w) = w[1] /\ w[1] \in ItemsOf(tree)
  BY <1>1, <1>3
<1>6. /\ Head(w) = Item(Head(w).frame, Head(w).depth)
      /\ Head(w).frame \in 2..Len(tree) /\ Head(w).depth \in Nat \ {0}
  BY <1>5 DEF ItemsOf, Item
<1>7. \A i \in 1..n : i + 1 \in DOMAIN w /\ i + 1 # 1 /\ 1 <= i + 1
  BY <1>3
<1>8. 1 \in DOMAIN w
  BY <1>3
<1>9. /\ \A i, j \in DOMAIN w : w[i].frame = w[j].frame => i = j
      /\ \A f \in 2..Len(tree) :
           (\E i \in DOMAIN w : w[i].frame = f) <=> f \notin seen /\ ParentOf(tree, f) \in seen
      /\ \A i \in DOMAIN w : w[i].depth = Len(PathsOf(tree)[w[i].frame])
      /\ \A i, j \in DOMAIN w : i <= j => w[j].depth <= w[i].depth
  BY DEF IsWalk
<1>10. Head(w).frame \notin seen /\ ParentOf(tree, Head(w).frame) \in seen
  BY <1>5, <1>6, <1>8, <1>9
<1>11. \A i, j \in DOMAIN t : t[i].frame = t[j].frame => i = j
  <2> SUFFICES ASSUME NEW i \in 1..n, NEW j \in 1..n, t[i].frame = t[j].frame PROVE i = j
    BY <1>4
  <2>1. i + 1 = j + 1
    BY <1>4, <1>7, <1>9
  <2> QED BY <2>1
<1>12. ASSUME NEW g \in 2..Len(tree)
       PROVE  (\E i \in DOMAIN t : t[i].frame = g) <=>
                g \notin seen /\ g # Head(w).frame /\ ParentOf(tree, g) \in seen
  <2>1. ASSUME NEW i \in 1..n, t[i].frame = g
        PROVE  g \notin seen /\ g # Head(w).frame /\ ParentOf(tree, g) \in seen
    <3>1. w[i + 1].frame = g /\ w[1].frame # g
      BY <1>4, <1>7, <1>8, <1>9, <2>1
    <3> QED BY <1>5, <1>7, <1>9, <3>1
  <2>2. ASSUME g \notin seen, g # Head(w).frame, ParentOf(tree, g) \in seen
        PROVE  \E i \in 1..n : t[i].frame = g
    <3>1. PICK i \in 1..(n + 1) : w[i].frame = g
      BY <1>3, <1>9, <2>2
    <3>2. i # 1
      BY <1>5, <2>2, <3>1
    <3>3. i - 1 \in 1..n /\ (i - 1) + 1 = i
      BY <3>2
    <3> QED BY <1>4, <3>1, <3>3
  <2> QED BY <1>4, <2>1, <2>2
<1>13. ASSUME NEW i \in DOMAIN t
       PROVE  t[i].depth = Len(PathsOf(tree)[t[i].frame]) /\ t[i].depth <= Head(w).depth
  BY <1>4, <1>5, <1>7, <1>8, <1>9
<1>14. \A i, j \in DOMAIN t : i <= j => t[j].depth <= t[i].depth
  <2> SUFFICES ASSUME NEW i \in 1..n, NEW j \in 1..n, i <= j PROVE t[j].depth <= t[i].depth
    BY <1>4
  <2>1. i + 1 <= j + 1
    OBVIOUS
  <2> QED BY <1>4, <1>7, <1>9, <2>1
<1>15. Head(w).depth = Len(PathsOf(tree)[Head(w).frame])
  BY <1>5, <1>8, <1>9
<1>16. Len(w) \in Nat \ {0} /\ Len(t) = Len(w) - 1
  BY <1>3, <1>4
<1> QED BY <1>1, <1>2, <1>4, <1>5, <1>6, <1>10, <1>11, <1>12, <1>13, <1>14, <1>15, <1>16

(* When nothing is left to be entered, every frame has been. *)
LEMMA WalkDone ==
  ASSUME NEW tree \in Trees, NEW seen, IsWalk(tree, <<>>, seen), Closed(tree, seen)
  PROVE  2..Len(tree) \subseteq seen
<1>0. PICK n \in Nat : n = Len(tree)
  BY FrameFacts
<1> DEFINE Q == {m \in Nat : \A i \in 1..m : i <= n => i \in seen}
<1>1. 0 \in Q
  OBVIOUS
<1>2. ASSUME NEW m \in Nat, m \in Q PROVE m + 1 \in Q
  <2> SUFFICES ASSUME m + 1 <= n PROVE m + 1 \in seen
    BY <1>2
  <2>1. CASE m = 0
    BY <2>1 DEF Closed
  <2>2. CASE m # 0
    <3>1. m + 1 \in 2..Len(tree)
      BY <1>0, <2>2
    <3>2. ParentOf(tree, m + 1) \in 1..((m + 1) - 1)
      BY <3>1, ParentFacts
    <3>3. ParentOf(tree, m + 1) \in seen
      BY <1>0, <1>2, <3>1, <3>2
    <3>4. ~ \E i \in DOMAIN <<>> : <<>>[i].frame = m + 1
      OBVIOUS
    <3> QED BY <3>1, <3>3, <3>4 DEF IsWalk
  <2> QED BY <2>1, <2>2
<1>3. Nat \subseteq Q
  <2> HIDE DEF Q
  <2> QED BY <1>1, <1>2, NumberInduction
<1> QED BY <1>0, <1>3

-----------------------------------------------------------------------------
(* Chains *)

(* A set of positions has a first one. *)
LEMMA FirstOne ==
  ASSUME NEW n \in Nat, NEW s \in SUBSET (1..n), s # {}
  PROVE  Min(s) \in s /\ \A y \in s : Min(s) <= y
<1> DEFINE Q == {m \in Nat : \A t \in SUBSET (1..m) :
                               t # {} => \E x \in t : \A y \in t : x <= y}
<1>1. 0 \in Q
  <2>1. 1..0 = {}
    OBVIOUS
  <2>2. \A t \in SUBSET (1..0) : t = {}
    BY <2>1
  <2> QED BY <2>2
<1>2. ASSUME NEW m \in Nat, m \in Q PROVE m + 1 \in Q
  <2> SUFFICES ASSUME NEW t \in SUBSET (1..(m + 1)), t # {}
               PROVE  \E x \in t : \A y \in t : x <= y
    OBVIOUS
  <2>1. CASE t = {m + 1}
    BY <2>1
  <2>2. CASE t # {m + 1}
    <3>1. t \ {m + 1} \in SUBSET (1..m) /\ t \ {m + 1} # {}
      BY <2>2
    <3>2. PICK x \in t \ {m + 1} : \A y \in t \ {m + 1} : x <= y
      BY <1>2, <3>1
    <3>3. x <= m + 1
      BY <3>1
    <3> QED BY <3>2, <3>3
  <2> QED BY <2>1, <2>2
<1>3. n \in Q
  <2> HIDE DEF Q
  <2> QED BY <1>1, <1>2, NumberInduction
<1>4. \E x \in s : \A y \in s : x <= y
  BY <1>3
<1> QED BY <1>4, Zenon DEF Min

(* Where a walk of a sorted chain stops *)
LEMMA StopFacts ==
  ASSUME NEW chain, Chain(chain), NEW a \in Addresses
  PROVE  /\ Stop(chain, a) \in 0..Len(chain)
         /\ Stop(chain, a) = 0 => \A i \in 1..Len(chain) : chain[i] < a
         /\ Stop(chain, a) # 0 => /\ chain[Stop(chain, a)] >= a
                                  /\ \A i \in 1..(Stop(chain, a) - 1) : chain[i] < a
<1> DEFINE I == {i \in 1..Len(chain) : chain[i] >= a}
<1>1. Stop(chain, a) = IF I # {} THEN Min(I) ELSE 0
  BY DEF Stop, SelectInSeq
<1>2. /\ Len(chain) \in Nat /\ DOMAIN chain = 1..Len(chain)
      /\ \A i \in 1..Len(chain) : chain[i] \in Nat
      /\ a \in Nat
  <2>1. Len(chain) \in Nat /\ DOMAIN chain = 1..Len(chain) /\ chain \in Seq(Addresses)
    BY DEF Chain
  <2>2. \A i \in 1..Len(chain) : chain[i] \in Addresses
    BY <2>1
  <2> QED BY <2>1, <2>2, AddressesAssumption
<1>3. CASE I = {}
  BY <1>1, <1>2, <1>3
<1>4. CASE I # {}
  <2>1. Min(I) \in I /\ \A y \in I : Min(I) <= y
    <3>1. I \in SUBSET (1..Len(chain))
      OBVIOUS
    <3> HIDE DEF I
    <3> QED BY <1>2, <1>4, <3>1, FirstOne
  <2>2. PICK m \in 1..Len(chain) : m = Min(I) /\ chain[m] >= a
    BY <2>1
  <2>3. \A i \in 1..(m - 1) : i \in 1..Len(chain) /\ i \notin I
    BY <1>2, <2>1, <2>2
  <2>4. \A i \in 1..(m - 1) : chain[i] < a
    BY <1>2, <2>3
  <2>5. Stop(chain, a) = m
    BY <1>1, <1>4, <2>2
  <2> HIDE DEF I
  <2> QED BY <1>2, <2>2, <2>4, <2>5
<1> QED BY <1>3, <1>4

(* A sorted chain holds an address if the walk stops at it. *)
LEMMA HoldsIt ==
  ASSUME NEW chain, Chain(chain), NEW a \in Addresses
  PROVE  Holds(chain, a) <=> a \in Range(chain)
<1>1. /\ Len(chain) \in Nat /\ DOMAIN chain = 1..Len(chain)
      /\ \A i \in 1..Len(chain) : chain[i] \in Nat
      /\ a \in Nat
  <2>1. Len(chain) \in Nat /\ DOMAIN chain = 1..Len(chain) /\ chain \in Seq(Addresses)
    BY DEF Chain
  <2>2. \A i \in 1..Len(chain) : chain[i] \in Addresses
    BY <2>1
  <2> QED BY <2>1, <2>2, AddressesAssumption
<1>2. PICK m \in 0..Len(chain) : m = Stop(chain, a)
  BY StopFacts
<1>3. ASSUME Holds(chain, a) PROVE a \in Range(chain)
  BY <1>1, <1>2, <1>3 DEF Holds, Range
<1>4. ASSUME a \in Range(chain) PROVE Holds(chain, a)
  <2>1. PICK i \in 1..Len(chain) : chain[i] = a
    BY <1>1, <1>4 DEF Range
  <2>2. m # 0
    BY <1>1, <1>2, <2>1, StopFacts
  <2>3. chain[m] >= a /\ \A j \in 1..(m - 1) : chain[j] < a
    BY <1>2, <2>2, StopFacts
  <2>4. ~ (i < m)
    BY <1>1, <2>1, <2>2, <2>3
  <2>5. ~ (m < i)
    <3>1. m < i => chain[m] < chain[i]
      BY <1>1, <1>2, <2>2 DEF Chain
    <3> QED BY <1>1, <1>2, <2>1, <2>2, <2>3, <3>1
  <2>6. m = i
    BY <1>1, <1>2, <2>4, <2>5
  <2> QED BY <1>2, <2>1, <2>2, <2>6 DEF Holds
<1> QED BY <1>3, <1>4

(* A new address is hooked up into the order. *)
LEMMA HookUpFacts ==
  ASSUME NEW chain, Chain(chain), NEW a \in Addresses, a \notin Range(chain)
  PROVE  Chain(HookUp(chain, a)) /\ Range(HookUp(chain, a)) = Range(chain) \cup {a}
<1>1. PICK n \in Nat : n = Len(chain) /\ DOMAIN chain = 1..n
  BY DEF Chain
<1>2. chain \in Seq(Addresses) /\ \A i \in 1..n : chain[i] \in Addresses
  BY <1>1 DEF Chain
<1>3. \A x \in Addresses : x \in Nat
  BY AddressesAssumption
<1>4. \A i \in 1..n : chain[i] # a
  BY <1>1 DEF Range
<1>5. \A i, j \in 1..n : i < j => chain[i] < chain[j]
  BY <1>1 DEF Chain
<1>6. PICK m \in 0..n : m = Stop(chain, a)
  BY <1>1, StopFacts
<1>7. PICK c : c = HookUp(chain, a)
  OBVIOUS
<1>8. PICK k \in 1..(n + 1) :
        /\ c \in Seq(Addresses) /\ Len(c) = n + 1 /\ c[k] = a
        /\ \A i \in 1..(k - 1) : c[i] = chain[i] /\ chain[i] < a
        /\ \A i \in k..n : c[i + 1] = chain[i] /\ chain[i] > a
  <2>1. CASE m = 0
    <3>1. c = Append(chain, a)
      BY <1>6, <1>7, <2>1 DEF HookUp
    <3>2. c \in Seq(Addresses) /\ Len(c) = n + 1 /\ c[n + 1] = a
          /\ \A i \in 1..n : c[i] = chain[i]
      BY <1>1, <1>2, <3>1, AppendProperties
    <3>3. \A i \in 1..n : chain[i] < a
      BY <1>1, <1>6, <2>1, StopFacts
    <3>4. n + 1 \in 1..(n + 1) /\ (n + 1) - 1 = n /\ (n + 1)..n = {}
      OBVIOUS
    <3> QED BY <3>2, <3>3, <3>4
  <2>2. CASE m # 0
    <3> DEFINE l == SubSeq(chain, 1, m - 1)
               r == SubSeq(chain, m, Len(chain))
    <3>1. c = (l \o <<a>>) \o r
      BY <1>6, <1>7, <2>2 DEF HookUp, InsertAt
    <3>2. /\ l \in Seq(Addresses) /\ Len(l) = m - 1
          /\ \A i \in 1..(m - 1) : l[i] = chain[i]
      <4>1. \A i \in 1..(m - 1) : chain[i] \in Addresses
        BY <1>2
      <4>2. /\ l \in Seq(Addresses) /\ Len(l) = IF 1 <= m - 1 THEN (m - 1) - 1 + 1 ELSE 0
            /\ \A i \in 1..((m - 1) - 1 + 1) : l[i] = chain[1 + i - 1]
        BY <4>1, SubSeqProperties
      <4> HIDE DEF l
      <4> QED BY <2>2, <4>2
    <3>3. /\ r \in Seq(Addresses) /\ Len(r) = n - m + 1
          /\ \A i \in 1..(n - m + 1) : r[i] = chain[m + i - 1]
      <4>1. \A i \in m..n : chain[i] \in Addresses
        BY <1>2, <2>2
      <4>2. /\ r \in Seq(Addresses) /\ Len(r) = IF m <= n THEN n - m + 1 ELSE 0
            /\ \A i \in 1..(n - m + 1) : r[i] = chain[m + i - 1]
        BY <1>1, <4>1, SubSeqProperties
      <4> HIDE DEF r
      <4> QED BY <2>2, <4>2
    <3>4. <<a>> \in Seq(Addresses) /\ Len(<<a>>) = 1 /\ <<a>>[1] = a
      OBVIOUS
    <3>5. PICK b : b = l \o <<a>>
      OBVIOUS
    <3>6. /\ b \in Seq(Addresses) /\ Len(b) = m /\ b[m] = a
          /\ \A i \in 1..(m - 1) : b[i] = chain[i]
      <4> HIDE DEF l
      <4>1. /\ b \in Seq(Addresses) /\ Len(b) = (m - 1) + 1
            /\ \A i \in 1..((m - 1) + 1) : b[i] = IF i <= m - 1 THEN l[i] ELSE <<a>>[i - (m - 1)]
        <5>1. PICK e : e = <<a>>
          OBVIOUS
        <5>2. /\ b \in Seq(Addresses) /\ Len(b) = Len(l) + Len(e)
              /\ \A i \in 1..(Len(l) + Len(e)) :
                   b[i] = IF i <= Len(l) THEN l[i] ELSE e[i - Len(l)]
          BY <3>2, <3>4, <3>5, <5>1, ConcatProperties
        <5> QED BY <3>2, <3>4, <5>1, <5>2
      <4>2. m \in 1..((m - 1) + 1) /\ ~ (m <= m - 1) /\ m - (m - 1) = 1
        BY <2>2
      <4>3. \A i \in 1..(m - 1) : i \in 1..((m - 1) + 1) /\ i <= m - 1
        BY <2>2
      <4> QED BY <3>2, <3>4, <4>1, <4>2, <4>3
    <3>7. /\ c \in Seq(Addresses) /\ Len(c) = n + 1
          /\ \A i \in 1..(n + 1) : c[i] = IF i <= m THEN b[i] ELSE r[i - m]
      <4> HIDE DEF l, r
      <4>1. /\ c \in Seq(Addresses) /\ Len(c) = m + (n - m + 1)
            /\ \A i \in 1..(m + (n - m + 1)) : c[i] = IF i <= m THEN b[i] ELSE r[i - m]
        <5>1. c = b \o r
          BY <3>1, <3>5
        <5>2. /\ c \in Seq(Addresses) /\ Len(c) = Len(b) + Len(r)
              /\ \A i \in 1..(Len(b) + Len(r)) :
                   c[i] = IF i <= Len(b) THEN b[i] ELSE r[i - Len(b)]
          BY <3>3, <3>6, <5>1, ConcatProperties
        <5> QED BY <3>3, <3>6, <5>2
      <4>2. m + (n - m + 1) = n + 1
        OBVIOUS
      <4> QED BY <4>1, <4>2
    <3> HIDE DEF l, r
    <3>8. chain[m] >= a /\ \A i \in 1..(m - 1) : chain[i] < a
      BY <1>6, <2>2, StopFacts
    <3>9. \A i \in m..n : c[i + 1] = chain[i] /\ chain[i] > a
      <4> SUFFICES ASSUME NEW i \in m..n PROVE c[i + 1] = chain[i] /\ chain[i] > a
        OBVIOUS
      <4>1. i + 1 \in 1..(n + 1) /\ ~ (i + 1 <= m) /\ (i + 1) - m \in 1..(n - m + 1)
            /\ m + ((i + 1) - m) - 1 = i
        BY <2>2
      <4>2. c[i + 1] = chain[i]
        BY <3>3, <3>7, <4>1
      <4>3. i \in 1..n /\ m \in 1..n /\ (m < i \/ m = i)
        BY <2>2
      <4>4. chain[i] >= a
        <5>1. chain[i] \in Nat /\ chain[m] \in Nat /\ a \in Nat
          BY <1>2, <1>3, <4>3
        <5> QED BY <1>5, <3>8, <4>3, <5>1
      <4>5. chain[i] \in Nat /\ a \in Nat /\ chain[i] # a
        BY <1>2, <1>3, <1>4, <4>3
      <4> QED BY <4>2, <4>4, <4>5
    <3>10. \A i \in 1..(m - 1) : c[i] = chain[i]
      <4> SUFFICES ASSUME NEW i \in 1..(m - 1) PROVE c[i] = chain[i]
        OBVIOUS
      <4>1. i \in 1..(n + 1) /\ i <= m
        OBVIOUS
      <4> QED BY <3>6, <3>7, <4>1
    <3>11. c[m] = a /\ m \in 1..(n + 1)
      <4>1. m \in 1..(n + 1) /\ m <= m
        BY <2>2
      <4> QED BY <3>6, <3>7, <4>1
    <3> QED BY <3>7, <3>8, <3>9, <3>10, <3>11
  <2> QED BY <2>1, <2>2
<1>9. DOMAIN c = 1..(n + 1)
  BY <1>8, LenProperties
<1>10. \A i \in 1..(n + 1) : i \in 1..(k - 1) \/ i = k \/ \E j \in k..n : i = j + 1
  <2> SUFFICES ASSUME NEW i \in 1..(n + 1), i \notin 1..(k - 1), i # k
               PROVE  \E j \in k..n : i = j + 1
    OBVIOUS
  <2>1. i - 1 \in k..n /\ i = (i - 1) + 1
    OBVIOUS
  <2> QED BY <2>1
<1>11. \A i, j \in 1..(n + 1) : i < j => c[i] < c[j]
  <2> SUFFICES ASSUME NEW i \in 1..(n + 1), NEW j \in 1..(n + 1), i < j PROVE c[i] < c[j]
    OBVIOUS
  <2>1. CASE j \in 1..(k - 1)
    <3>1. i \in 1..(k - 1) /\ i \in 1..n /\ j \in 1..n
      BY <2>1
    <3>2. chain[i] < chain[j]
      BY <1>5, <3>1
    <3> QED BY <1>8, <2>1, <3>1, <3>2
  <2>2. CASE j = k
    BY <1>8, <2>2
  <2>3. ASSUME NEW l \in k..n, j = l + 1 PROVE c[i] < c[j]
    <3>1. c[j] = chain[l] /\ chain[l] > a /\ l \in 1..n /\ chain[l] \in Nat /\ a \in Nat
      BY <1>2, <1>3, <1>8, <2>3
    <3>2. CASE i \in 1..(k - 1)
      <4>1. c[i] = chain[i] /\ chain[i] < a /\ chain[i] \in Nat
        BY <1>2, <1>3, <1>8, <3>2
      <4> QED BY <3>1, <4>1
    <3>3. CASE i = k
      BY <1>8, <3>1, <3>3
    <3>4. ASSUME NEW h \in k..n, i = h + 1 PROVE c[i] < c[j]
      <4>1. h < l /\ h \in 1..n
        BY <2>3, <3>4
      <4>2. c[i] = chain[h]
        BY <1>8, <3>4
      <4> QED BY <1>5, <3>1, <4>1, <4>2
    <3> QED BY <1>10, <3>2, <3>3, <3>4
  <2> QED BY <1>10, <2>1, <2>2, <2>3
<1>12. Chain(c)
  BY <1>8, <1>9, <1>11 DEF Chain
<1>13. Range(c) = Range(chain) \cup {a}
  <2>1. ASSUME NEW x \in Range(c) PROVE x \in Range(chain) \cup {a}
    <3>1. PICK i \in 1..(n + 1) : x = c[i]
      BY <1>9 DEF Range
    <3>2. CASE i \in 1..(k - 1)
      <4>1. i \in 1..n /\ x = chain[i]
        BY <1>8, <3>1, <3>2
      <4> QED BY <1>1, <4>1 DEF Range
    <3>3. CASE i = k
      BY <1>8, <3>1, <3>3
    <3>4. ASSUME NEW j \in k..n, i = j + 1 PROVE x \in Range(chain) \cup {a}
      <4>1. j \in 1..n /\ x = chain[j]
        BY <1>8, <3>1, <3>4
      <4> QED BY <1>1, <4>1 DEF Range
    <3> QED BY <1>10, <3>2, <3>3, <3>4
  <2>2. a \in Range(c)
    BY <1>8, <1>9 DEF Range
  <2>3. ASSUME NEW x \in Range(chain) PROVE x \in Range(c)
    <3>1. PICK i \in 1..n : x = chain[i]
      BY <1>1 DEF Range
    <3>2. CASE i \in 1..(k - 1)
      <4>1. i \in 1..(n + 1) /\ c[i] = x
        BY <1>8, <3>1, <3>2
      <4> QED BY <1>9, <4>1 DEF Range
    <3>3. CASE i \notin 1..(k - 1)
      <4>1. i \in k..n /\ i + 1 \in 1..(n + 1)
        BY <3>3
      <4>2. c[i + 1] = x
        BY <1>8, <3>1, <4>1
      <4> QED BY <1>9, <4>1, <4>2 DEF Range
    <3> QED BY <3>2, <3>3
  <2> QED BY <2>1, <2>2, <2>3
<1> QED BY <1>7, <1>12, <1>13

-----------------------------------------------------------------------------
(* The symbol cache *)

CacheOf(symcache, symtable, symId, binId) ==
  [symcache |-> symcache, symtable |-> symtable, symId |-> symId, binId |-> binId]

(* The empty cache *)
LEMMA CacheInit == CacheOK(IgProfSymCache)
<1>1. PICK s, t : s = [x \in Slots |-> <<>>] /\ t = << >>
  OBVIOUS
<1>2. IgProfSymCache = CacheOf(s, s, t, t)
  BY <1>1 DEF IgProfSymCache, CacheOf
<1>3. /\ IgProfSymCache.symcache = s /\ IgProfSymCache.symtable = s
      /\ IgProfSymCache.symId = t /\ IgProfSymCache.binId = t
  BY <1>2 DEF CacheOf
<1>4. DOMAIN t = {} /\ DOMAIN s = Slots
  BY <1>1
<1>5. \A x \in Slots : s[x] = <<>>
  BY <1>1
<1>6. Chain(<<>>) /\ Range(<<>>) = {}
  BY DEF Chain, Range
<1>7. \A a \in Addresses : Slot[a] \in Slots
  BY DEF Slots
<1>8. \A a \in Addresses : a \notin Range(s[Slot[a]])
  BY <1>5, <1>6, <1>7
<1>9. \A x \in Slots : Chain(s[x]) /\ Range(s[x]) \subseteq Range(s[x])
  BY <1>5, <1>6
<1>10. {BinaryOf[a] : a \in DOMAIN t} = {}
  BY <1>4
<1> QED BY <1>2, <1>3, <1>4, <1>8, <1>9, <1>10 DEF CacheOK, CacheOf

(* What a call of roundAddressToSymbol() leaves *)
Rounded(cache, c, a) ==
  /\ CacheOK(c)
  /\ symbolForAddress(c, a)
  /\ DOMAIN c.symId = DOMAIN cache.symId \cup {a}
  /\ \A x \in DOMAIN cache.symId : c.symId[x] = cache.symId[x]
  /\ a \notin DOMAIN cache.symId => c.symId[a] = -1
  /\ DOMAIN c.binId = DOMAIN cache.binId \cup {BinaryOf[a]}
  /\ \A b \in DOMAIN cache.binId : c.binId[b] = cache.binId[b]
  /\ BinaryOf[a] \notin DOMAIN cache.binId => c.binId[BinaryOf[a]] = -1

(* An address that is asked for is in the cache, with its symbol and its binary. *)
LEMMA RoundedAddress ==
  ASSUME NEW cache, CacheOK(cache), NEW a \in Addresses
  PROVE  Rounded(cache, roundAddressToSymbol(cache, a), a)
<1>1. PICK sc, st, si, bi : sc = cache.symcache /\ st = cache.symtable
                            /\ si = cache.symId /\ bi = cache.binId
  OBVIOUS
<1>2. /\ cache = CacheOf(sc, st, si, bi)
      /\ DOMAIN sc = Slots /\ DOMAIN st = Slots
      /\ \A s \in Slots : Chain(sc[s]) /\ Chain(st[s]) /\ Range(sc[s]) \subseteq Range(st[s])
      /\ DOMAIN si \subseteq Addresses
      /\ \A x \in Addresses : x \in Range(st[Slot[x]]) <=> x \in DOMAIN si
      /\ DOMAIN bi = {BinaryOf[x] : x \in DOMAIN si}
  BY <1>1 DEF CacheOK, CacheOf
<1>3. PICK s \in Slots : s = Slot[a]
  BY DEF Slots
<1>4. PICK b : b = BinaryOf[a]
  OBVIOUS
<1>5. PICK c : c = roundAddressToSymbol(cache, a)
  OBVIOUS
<1>6. Chain(sc[s]) /\ Chain(st[s]) /\ Range(sc[s]) \subseteq Range(st[s])
  BY <1>2
<1>7. CASE a \in Range(sc[s])
  <2>1. Holds(cache.symcache[s], a)
    BY <1>1, <1>6, <1>7, HoldsIt
  <2>2. c = cache
    BY <1>3, <1>5, <2>1 DEF roundAddressToSymbol
  <2>3. a \in Range(st[s]) /\ a \in DOMAIN si
    BY <1>2, <1>3, <1>6, <1>7
  <2>4. symbolForAddress(cache, a)
    BY <1>1, <1>3, <1>6, <2>3, HoldsIt DEF symbolForAddress
  <2>5. b \in DOMAIN bi
    BY <1>2, <1>4, <2>3
  <2>6. DOMAIN si = DOMAIN si \cup {a} /\ DOMAIN bi = DOMAIN bi \cup {b}
    BY <2>3, <2>5
  <2> QED BY <1>1, <1>4, <1>5, <2>2, <2>3, <2>4, <2>5, <2>6 DEF Rounded
<1>8. CASE a \notin Range(sc[s])
  <2>1. ~ Holds(cache.symcache[s], a)
    BY <1>1, <1>6, <1>8, HoldsIt
  <2>2. PICK h : h = HookUp(sc[s], a)
    OBVIOUS
  <2>3. Chain(h) /\ Range(h) = Range(sc[s]) \cup {a}
    BY <1>6, <1>8, <2>2, HookUpFacts
  <2>4. PICK sd : sd = [sc EXCEPT ![s] = h]
    OBVIOUS
  <2>5. DOMAIN sd = Slots /\ sd[s] = h /\ \A x \in Slots \ {s} : sd[x] = sc[x]
    BY <1>2, <2>4
  <2>6. PICK cached : cached = [cache EXCEPT !.symcache[s] = HookUp(@, a)]
    OBVIOUS
  <2>7. cached = CacheOf(sd, st, si, bi)
    <3>1. cached = [CacheOf(sc, st, si, bi) EXCEPT !.symcache[s] = HookUp(sc[s], a)]
      BY <1>1, <1>2, <2>6
    <3>2. cached = CacheOf([sc EXCEPT ![s] = HookUp(sc[s], a)], st, si, bi)
      BY <3>1 DEF CacheOf
    <3> QED BY <2>2, <2>4, <3>2
  <2>8. CASE a \in Range(st[s])
    <3>1. Holds(cache.symtable[s], a)
      BY <1>1, <1>6, <2>8, HoldsIt
    <3>2. c = CacheOf(sd, st, si, bi)
      BY <1>3, <1>5, <2>1, <2>6, <2>7, <3>1 DEF roundAddressToSymbol
    <3>3. c.symcache = sd /\ c.symtable = st /\ c.symId = si /\ c.binId = bi
      BY <3>2 DEF CacheOf
    <3>4. \A x \in Slots : Chain(sd[x]) /\ Chain(st[x]) /\ Range(sd[x]) \subseteq Range(st[x])
      BY <1>2, <2>3, <2>5, <2>8
    <3>5. CacheOK(c)
      BY <1>2, <2>5, <3>2, <3>3, <3>4 DEF CacheOK, CacheOf
    <3>6. symbolForAddress(c, a)
      BY <1>3, <1>6, <2>8, <3>3, HoldsIt DEF symbolForAddress
    <3>7. a \in DOMAIN si /\ b \in DOMAIN bi
      BY <1>2, <1>3, <1>4, <2>8
    <3>8. DOMAIN si = DOMAIN si \cup {a} /\ DOMAIN bi = DOMAIN bi \cup {b}
      BY <3>7
    <3> QED BY <1>1, <1>4, <1>5, <3>3, <3>5, <3>6, <3>7, <3>8 DEF Rounded
  <2>9. CASE a \notin Range(st[s])
    <3>1. ~ Holds(cache.symtable[s], a)
      BY <1>1, <1>6, <2>9, HoldsIt
    <3>2. PICK k : k = HookUp(st[s], a)
      OBVIOUS
    <3>3. Chain(k) /\ Range(k) = Range(st[s]) \cup {a}
      BY <1>6, <2>9, <3>2, HookUpFacts
    <3>4. PICK su : su = [st EXCEPT ![s] = k]
      OBVIOUS
    <3>5. DOMAIN su = Slots /\ su[s] = k /\ \A x \in Slots \ {s} : su[x] = st[x]
      BY <1>2, <3>4
    <3>6. PICK sj : sj = Entered(si, a, -1)
      OBVIOUS
    <3>7. PICK bj : bj = IF b \in DOMAIN bi THEN bi ELSE Entered(bi, b, -1)
      OBVIOUS
    <3>8. c = CacheOf(sd, su, sj, bj)
      <4>1. c = [cached EXCEPT !.symtable[s] = HookUp(@, a),
                               !.symId = Entered(@, a, -1),
                               !.binId = IF b \in DOMAIN @ THEN @ ELSE Entered(@, b, -1)]
        BY <1>3, <1>4, <1>5, <2>1, <2>6, <3>1 DEF roundAddressToSymbol
      <4>2. cached.symtable = st /\ cached.symId = si /\ cached.binId = bi
        BY <2>7 DEF CacheOf
      <4>3. c = [cached EXCEPT !.symtable[s] = k, !.symId = sj, !.binId = bj]
        BY <3>2, <3>6, <3>7, <4>1, <4>2
      <4>4. c = [cached EXCEPT !.symtable = su, !.symId = sj, !.binId = bj]
        BY <3>4, <4>2, <4>3
      <4> QED BY <2>7, <4>4 DEF CacheOf
    <3>9. c.symcache = sd /\ c.symtable = su /\ c.symId = sj /\ c.binId = bj
      BY <3>8 DEF CacheOf
    <3>10. \A x \in Slots : Chain(sd[x]) /\ Chain(su[x]) /\ Range(sd[x]) \subseteq Range(su[x])
      BY <1>2, <2>3, <2>5, <3>3, <3>5
    <3>11. /\ DOMAIN sj = DOMAIN si \cup {a} /\ sj[a] = -1
           /\ \A x \in DOMAIN si : x # a => sj[x] = si[x]
      BY <3>6 DEF Entered
    <3>12. a \notin DOMAIN si
      BY <1>2, <1>3, <2>9
    <3>13. /\ DOMAIN bj = DOMAIN bi \cup {b}
           /\ \A x \in DOMAIN bi : bj[x] = bi[x]
           /\ b \notin DOMAIN bi => bj[b] = -1
      <4>1. CASE b \in DOMAIN bi
        BY <3>7, <4>1
      <4>2. CASE b \notin DOMAIN bi
        BY <3>7, <4>2 DEF Entered
      <4> QED BY <4>1, <4>2
    <3>14. \A x \in Addresses : x \in Range(su[Slot[x]]) <=> x \in DOMAIN sj
      <4> SUFFICES ASSUME NEW x \in Addresses
                   PROVE  x \in Range(su[Slot[x]]) <=> x \in DOMAIN sj
        OBVIOUS
      <4>1. Slot[x] \in Slots
        BY DEF Slots
      <4>2. CASE Slot[x] = s
        <5>1. Range(su[Slot[x]]) = Range(st[Slot[x]]) \cup {a}
          BY <3>3, <3>5, <4>2
        <5> QED BY <1>2, <3>11, <5>1
      <4>3. CASE Slot[x] # s
        <5>1. su[Slot[x]] = st[Slot[x]] /\ x # a
          BY <1>3, <3>5, <4>1, <4>3
        <5> QED BY <1>2, <3>11, <5>1
      <4> QED BY <4>2, <4>3
    <3>15. DOMAIN bj = {BinaryOf[x] : x \in DOMAIN sj}
      BY <1>2, <1>4, <3>11, <3>13
    <3>16. CacheOK(c)
      BY <1>2, <2>5, <3>5, <3>8, <3>9, <3>10, <3>11, <3>14, <3>15 DEF CacheOK, CacheOf
    <3>17. symbolForAddress(c, a)
      <4>1. Chain(su[s]) /\ a \in Range(su[s])
        BY <3>3, <3>5
      <4> QED BY <1>3, <3>9, <4>1, HoldsIt DEF symbolForAddress
    <3> QED BY <1>1, <1>4, <1>5, <3>9, <3>11, <3>12, <3>13, <3>16, <3>17 DEF Rounded
  <2> QED BY <2>8, <2>9
<1> QED BY <1>7, <1>8

-----------------------------------------------------------------------------
(* Frames and counters by their places *)

(* A place is that of a frame if there are a dump, a buffer in it and a frame *)
(* in that, which is not the root.                                            *)
LEMMA PlaceOfFrame ==
  ASSUME program \in Programs, NEW d, NEW b, NEW i
  PROVE  <<d, b, i>> \in Frames <=>
           /\ d \in DOMAIN program.dumps /\ b \in DOMAIN program.dumps[d]
           /\ i \in 2..Len(program.dumps[d][b])
<1>1. <<d, b, i>> \in Frames <=>
        \E e \in DOMAIN program.dumps : <<d, b, i>> \in FramesOf(e)
  BY DEF Frames
<1>2. ASSUME NEW e \in DOMAIN program.dumps
      PROVE  <<d, b, i>> \in FramesOf(e) <=>
               d = e /\ b \in DOMAIN program.dumps[e] /\ i \in 2..Len(program.dumps[e][b])
  BY DEF FramesOf, BufferAt
<1> QED BY <1>1, <1>2

(* A frame is at a place. *)
LEMMA FrameIsPlace ==
  ASSUME program \in Programs, NEW x \in Frames
  PROVE  /\ x = <<x[1], x[2], x[3]>>
         /\ x[1] \in DOMAIN program.dumps /\ x[2] \in DOMAIN program.dumps[x[1]]
         /\ x[3] \in 2..Len(program.dumps[x[1]][x[2]])
<1>1. PICK d \in DOMAIN program.dumps : x \in FramesOf(d)
  BY DEF Frames
<1>2. PICK b \in DOMAIN program.dumps[d] :
        x \in {<<d, b, i>> : i \in 2..Len(program.dumps[d][b])}
  BY <1>1 DEF FramesOf, BufferAt
<1>3. PICK i \in 2..Len(program.dumps[d][b]) : x = <<d, b, i>>
  BY <1>2
<1> QED BY <1>3

(* What is known of a frame, and of a counter, of the program *)
LEMMA FrameAtFacts ==
  ASSUME program \in Programs, NEW x \in Frames
  PROVE  /\ BufferAt(x[1], x[2]) \in Trees
         /\ FrameAt(x) \in FrameRecord
         /\ FrameAt(x).address \in Addresses
         /\ FrameAt(x).counters \in Seq(Counter)
         /\ \A j \in DOMAIN FrameAt(x).counters :
              LET c == FrameAt(x).counters[j] IN c.ticks = 0 /\ c.peak = 0 => c.value = 0
<1>1. /\ x[1] \in DOMAIN program.dumps /\ x[2] \in DOMAIN program.dumps[x[1]]
      /\ x[3] \in 2..Len(program.dumps[x[1]][x[2]])
  BY FrameIsPlace
<1>2. PICK t : t = program.dumps[x[1]][x[2]]
  OBVIOUS
<1>3. t \in Trees
  BY <1>1, <1>2, TreesOf
<1>4. Len(t) \in Nat /\ x[3] \in 2..Len(t) /\ x[3] \in DOMAIN t
  BY <1>1, <1>2, <1>3, FrameFacts
<1>5. FrameAt(x) = t[x[3]] /\ BufferAt(x[1], x[2]) = t
  BY <1>2 DEF FrameAt, BufferAt
<1>6. /\ t[x[3]] \in FrameRecord /\ t[x[3]].address \in Addresses
      /\ t[x[3]].counters \in Seq(Counter)
      /\ \A j \in DOMAIN t[x[3]].counters :
           LET c == t[x[3]].counters[j] IN c.ticks = 0 /\ c.peak = 0 => c.value = 0
  BY <1>3, <1>4, FrameFacts
<1> QED BY <1>3, <1>5, <1>6

(* A counter is one of a frame of the program. *)
LEMMA CounterFacts ==
  ASSUME program \in Programs, NEW c \in CountersOf(Frames)
  PROVE  /\ c = <<c[1], c[2]>> /\ c[1] \in Frames /\ c[2] \in DOMAIN FrameAt(c[1]).counters
         /\ CounterAt(c) \in Counter
         /\ CounterAt(c).ticks \in Nat /\ CounterAt(c).value \in Nat
         /\ CounterAt(c).ticks = 0 /\ CounterAt(c).peak = 0 => CounterAt(c).value = 0
<1>1. PICK x \in Frames : c \in {<<x, j>> : j \in DOMAIN FrameAt(x).counters}
  BY DEF CountersOf
<1>2. PICK j \in DOMAIN FrameAt(x).counters : c = <<x, j>>
  BY <1>1
<1>3. PICK s : s = FrameAt(x).counters
  OBVIOUS
<1>4. s \in Seq(Counter) /\ \A k \in DOMAIN s : LET e == s[k] IN e.ticks = 0 /\ e.peak = 0 => e.value = 0
  BY <1>3, FrameAtFacts
<1>5. j \in DOMAIN s /\ CounterAt(c) = s[j]
  BY <1>2, <1>3 DEF CounterAt
<1>6. s[j] \in Counter
  BY <1>4, <1>5
<1>7. s[j].ticks \in Nat /\ s[j].value \in Nat
  BY <1>6 DEF Counter
<1> QED BY <1>2, <1>4, <1>5, <1>6, <1>7

(* The counters of more frames are more counters. *)
LEMMA CountersMore ==
  ASSUME NEW S, NEW T, S \subseteq T
  PROVE  CountersOf(S) \subseteq CountersOf(T)
BY DEF CountersOf

-----------------------------------------------------------------------------
(* What counters count *)

Fields == {"ticks", "value"}

(* Sums of what counters count *)
LEMMA SumTyped ==
  ASSUME program \in Programs, NEW S \in SUBSET CountersOf(Frames), IsFiniteSet(S),
         NEW field \in Fields
  PROVE  Sum(S, field) \in Int
<1> DEFINE f == [c \in S |-> CounterAt(c)[field]]
<1>1. \A c \in S : f[c] \in Int
  BY CounterFacts DEF Fields
<1> HIDE DEF f
<1>2. SumFunctionOnSet(f, S) \in Int
  BY <1>1, SumInt
<1> QED BY <1>2 DEF Sum, f

(* One counter more *)
LEMMA SumOne ==
  ASSUME program \in Programs, NEW S \in SUBSET CountersOf(Frames), IsFiniteSet(S),
         NEW c \in CountersOf(Frames) \ S, NEW field \in Fields
  PROVE  Sum(S \cup {c}, field) = Sum(S, field) + CounterAt(c)[field]
<1> DEFINE T == S \cup {c}
           f == [x \in T |-> CounterAt(x)[field]]
           g == [x \in S |-> CounterAt(x)[field]]
<1>1. \A x \in T : f[x] \in Int
  BY CounterFacts DEF Fields
<1>2. \A x \in S : f[x] = g[x]
  OBVIOUS
<1>3. f[c] = CounterAt(c)[field]
  OBVIOUS
<1> HIDE DEF f, g
<1>4. SumFunctionOnSet(f, T) = f[c] + SumFunctionOnSet(f, S)
  BY <1>1, SumAdd
<1>5. SumFunctionOnSet(f, S) = SumFunctionOnSet(g, S)
  BY <1>2, SumSame
<1>6. SumFunctionOnSet(g, S) = Sum(S, field) /\ SumFunctionOnSet(f, T) = Sum(T, field)
  BY DEF f, g, Sum
<1>7. Sum(S, field) \in Int /\ f[c] \in Int
  BY <1>1, SumTyped
<1> QED BY <1>3, <1>4, <1>5, <1>6, <1>7

(* Counters that have counted nothing *)
LEMMA SumNothing ==
  ASSUME program \in Programs, NEW S \in SUBSET CountersOf(Frames), IsFiniteSet(S),
         NEW field \in Fields, \A c \in S : CounterAt(c)[field] = 0
  PROVE  Sum(S, field) = 0
<1> DEFINE f == [c \in S |-> CounterAt(c)[field]]
<1>1. \A c \in S : f[c] \in Int /\ f[c] = 0
  BY CounterFacts DEF Fields
<1> HIDE DEF f
<1>2. SumFunctionOnSet(f, S) = SumFunctionOnSet(f, {})
  BY <1>1, SumZeros
<1> QED BY <1>2, SumEmpty DEF Sum, f

Chosen(S, path, key) == OnPath(Named(S, key), path)

(* Where no counter has counted, nothing is counted. *)
LEMMA CountedNothing ==
  ASSUME program \in Programs, NEW S \in SUBSET CountersOf(Frames), IsFiniteSet(S),
         NEW path, NEW key,
         \A c \in S : CounterAt(c).def = key /\ PathTo(c[1]) = path =>
                        CounterAt(c).ticks = 0 /\ CounterAt(c).value = 0
  PROVE  Counted(S, path, key) = Nothing
<1>1. PICK T : T = Chosen(S, path, key)
  OBVIOUS
<1>2. T \in SUBSET S /\ \A c \in T : CounterAt(c).ticks = 0 /\ CounterAt(c).value = 0
  BY <1>1 DEF Chosen, OnPath, Named
<1>3. IsFiniteSet(T)
  BY <1>2, FS_Subset
<1>4. Sum(T, "ticks") = 0 /\ Sum(T, "value") = 0
  BY <1>2, <1>3, SumNothing DEF Fields
<1> QED BY <1>1, <1>4 DEF Counted, Nothing, Chosen

(* One counter more counts where it belongs. *)
Plus(n, c) == [freq |-> n.freq + c.ticks, cnt |-> n.cnt + c.value]

(* One counter more counts where it belongs, and nowhere else. *)
LEMMA CountedAdd ==
  ASSUME program \in Programs, NEW S \in SUBSET CountersOf(Frames), IsFiniteSet(S),
         NEW c \in CountersOf(Frames) \ S, NEW path, NEW key
  PROVE  /\ CounterAt(c).def = key /\ PathTo(c[1]) = path =>
              Counted(S \cup {c}, path, key) = Plus(Counted(S, path, key), CounterAt(c))
         /\ ~ (CounterAt(c).def = key /\ PathTo(c[1]) = path) =>
              Counted(S \cup {c}, path, key) = Counted(S, path, key)
<1>1. PICK T : T = Chosen(S, path, key)
  OBVIOUS
<1>2. PICK U : U = Chosen(S \cup {c}, path, key)
  OBVIOUS
<1>3. T \in SUBSET S /\ c \notin T
  BY <1>1 DEF Chosen, OnPath, Named
<1>4. IsFiniteSet(T)
  BY <1>3, FS_Subset
<1>5. Counted(S, path, key) = [freq |-> Sum(T, "ticks"), cnt |-> Sum(T, "value")]
  BY <1>1 DEF Counted, Chosen
<1>6. Counted(S \cup {c}, path, key) = [freq |-> Sum(U, "ticks"), cnt |-> Sum(U, "value")]
  BY <1>2 DEF Counted, Chosen
<1>7. CASE CounterAt(c).def = key /\ PathTo(c[1]) = path
  <2>1. U = T \cup {c}
    BY <1>1, <1>2, <1>7 DEF Chosen, OnPath, Named
  <2>2. T \in SUBSET CountersOf(Frames) /\ c \in CountersOf(Frames) \ T
    BY <1>3
  <2>3. /\ Sum(U, "ticks") = Sum(T, "ticks") + CounterAt(c).ticks
        /\ Sum(U, "value") = Sum(T, "value") + CounterAt(c).value
    BY <1>4, <2>1, <2>2, SumOne DEF Fields
  <2> QED BY <1>5, <1>6, <1>7, <2>3 DEF Plus
<1>8. CASE ~ (CounterAt(c).def = key /\ PathTo(c[1]) = path)
  <2>1. U = T
    BY <1>1, <1>2, <1>8 DEF Chosen, OnPath, Named
  <2> QED BY <1>5, <1>6, <1>8, <2>1
<1> QED BY <1>7, <1>8

-----------------------------------------------------------------------------
(* What the reader does with a token *)

(* The next number of a table is a new last entry. *)
LEMMA SetEnd ==
  ASSUME NEW S, NEW table \in Seq(S), NEW value, NEW none
  PROVE  Set(table, Len(table), value, none) = Append(table, value)
<1>1. PICK n \in Nat : n = Len(table) /\ DOMAIN table = 1..n
  OBVIOUS
<1>2. Append(table, value) = [i \in 1..(n + 1) |-> IF i = n + 1 THEN value ELSE table[i]]
  <2>1. PICK T : T = S \cup {value}
    OBVIOUS
  <2>2. table \in Seq(T) /\ value \in T
    <3>1. \A i \in 1..Len(table) : table[i] \in T
      BY <2>1
    <3> QED BY <2>1, <3>1, SeqIn
  <2>3. PICK s : s = Append(table, value)
    OBVIOUS
  <2>4. /\ s \in Seq(T) /\ Len(s) = n + 1 /\ s[n + 1] = value
        /\ \A i \in 1..n : s[i] = table[i]
    BY <1>1, <2>2, <2>3, AppendProperties
  <2>5. s = [i \in 1..(n + 1) |-> s[i]]
    BY <2>4
  <2>6. \A i \in 1..(n + 1) : s[i] = IF i = n + 1 THEN value ELSE table[i]
    BY <2>4
  <2> QED BY <2>3, <2>5, <2>6
<1>3. Set(table, n, value, none) =
        [i \in 1..(n + 1) |-> IF i = n + 1 THEN value ELSE IF i <= n THEN table[i] ELSE none]
  BY <1>1 DEF Set
<1>4. \A i \in 1..(n + 1) : (IF i = n + 1 THEN value ELSE IF i <= n THEN table[i] ELSE none) =
                            (IF i = n + 1 THEN value ELSE table[i])
  OBVIOUS
<1> QED BY <1>1, <1>2, <1>3, <1>4

(* A number that has an entry is found. *)
LEMMA LookupFound ==
  ASSUME NEW S, NEW table \in Seq(S), NEW id \in 0..(Len(table) - 1), table[id + 1] # Missing
  PROVE  Lookup(table, id) = "found"
<1>1. Len(table) \in Nat /\ ~ (id > Len(table)) /\ id # Len(table)
  OBVIOUS
<1> QED BY <1>1 DEF Lookup

(* A symbol has a name, and so has its file. *)
LEMMA NameFacts ==
  ASSUME NEW a \in Addresses
  PROVE  ReadName(a) # Missing /\ ReadName(a) \in Names /\ RealPath[BinaryOf[a]] # Missing
<1>1. NameOf[a] = <<>> => ReadName(a) = <<"@{", RealPath[BinaryOf[a]], ToString(a)>>
  BY DEF ReadName
<1>2. <<"@{", RealPath[BinaryOf[a]], ToString(a)>> # <<>>
  OBVIOUS
<1>3. NameOf[a] # <<>> => ReadName(a) # <<>>
  BY DEF ReadName
<1>4. ReadName(a) # Missing
  BY <1>1, <1>2, <1>3 DEF Missing
<1> QED BY <1>4, PathAssumption DEF Names

(* The name of a frame is found again, and that of a nameless one has its file. *)
LEMMA NameRead ==
  ASSUME NEW a \in Addresses, NEW d, NEW fn, NEW defines, NEW f
  PROVE  symlookup(RealPath[BinaryOf[a]], Frame(d, fn, defines, f, a)) = ReadName(a)
<1>1. PICK t : t = Frame(d, fn, defines, f, a)
  OBVIOUS
<1>2. t.name = Printed(a) /\ t.offset = a
  BY <1>1 DEF Frame
<1>3. CASE NameOf[a] = <<>>
  <2>1. t.name[1] = "@?"
    BY <1>2, <1>3 DEF Printed
  <2> QED BY <1>1, <1>2, <1>3, <2>1 DEF symlookup, ReadName
<1>4. CASE NameOf[a] # <<>>
  <2>1. t.name = NameOf[a] /\ t.name[1] # "@?"
    BY <1>2, <1>4, NameAssumption DEF Printed
  <2> QED BY <1>1, <1>4, <2>1 DEF symlookup, ReadName
<1> QED BY <1>3, <1>4

(* The call path becomes the current one, and a node of the graph. *)
Moved(r, path) ==
  [r EXCEPT !.nodestack = path, !.expects = "counter",
            !.cost = [p \in DOMAIN @ \cup {path} |-> IF p \in DOMAIN @ THEN @[p] ELSE Nothing]]

Child(r, d, a) == Append(SubSeq(r.nodestack, 1, d - 1), ReadName(a))

(* A symbol more, and a file more *)
WithSymbol(r, name) == [r EXCEPT !.symbols = Append(@, name), !.known = @ \cup {name}]
WithFile(r, path)   == [r EXCEPT !.files = Append(@, path), !.namedFiles = @ \cup {path}]

(* A reader that gets to the node of a line *)
LEMMA FrameRead ==
  ASSUME NEW r, IsReader(r), r.expects = "line", NEW t, t.k = "C",
         t.depth - 1 <= Len(r.nodestack), t.depth \in Nat, Len(r.nodestack) \in Nat,
         NEW named, named = IF t.defines THEN Define(r, t) ELSE Refer(r, t),
         named.status = "reading",
         NEW a, named.symbols[t.fn + 1] = ReadName(a)
  PROVE  ReadToken(r, t) = Moved(named, Child(r, t.depth, a))
<1>1. r.status = "reading"
  BY DEF IsReader
<1>2. ReadToken(r, t) = ReadFrame(r, t)
  BY <1>1 DEF ReadToken
<1>3. ~ (t.depth - 1 > Len(r.nodestack))
  OBVIOUS
<1>4. Child(r, t.depth, a) = Append(SubSeq(r.nodestack, 1, t.depth - 1), named.symbols[t.fn + 1])
  BY DEF Child
<1>5. ReadFrame(r, t) = Moved(named, Child(r, t.depth, a))
  BY <1>3, <1>4 DEF ReadFrame, Moved
<1> QED BY <1>2, <1>5

(* A symbol that is referred to is found. *)
LEMMA ReferRead ==
  ASSUME NEW r, IsReader(r), r.expects = "line", r.symbols \in Seq(Names),
         r.nodestack \in Seq(Names), NEW a \in Addresses, NEW d \in Nat, d - 1 <= Len(r.nodestack),
         NEW fn \in 0..(Len(r.symbols) - 1), r.symbols[fn + 1] = ReadName(a), NEW f
  PROVE  ReadToken(r, Frame(d, fn, FALSE, f, a)) = Moved(r, Child(r, d, a))
<1>1. Lookup(r.symbols, fn) = "found"
  BY NameFacts, LookupFound
<1>2. PICK t : t = Frame(d, fn, FALSE, f, a)
  OBVIOUS
<1>3. t.k = "C" /\ t.depth = d /\ t.fn = fn /\ t.defines = FALSE
  BY <1>2 DEF Frame
<1>4. r = Refer(r, t)
  BY <1>1, <1>3 DEF Refer
<1>5. r = IF t.defines THEN Define(r, t) ELSE Refer(r, t)
  BY <1>3, <1>4
<1>6. r.status = "reading" /\ Len(r.nodestack) \in Nat
  BY DEF IsReader
<1>7. ReadToken(r, t) = Moved(r, Child(r, t.depth, a))
  BY <1>3, <1>5, <1>6, FrameRead
<1> QED BY <1>2, <1>3, <1>7

(* A new symbol gets the next number. *)
LEMMA SymbolCreated ==
  ASSUME NEW r, r.symbols \in Seq(Names), NEW name
  PROVE  createSymbolInfo(r, name, Len(r.symbols)) = WithSymbol(r, name)
<1>1. ~ (Len(r.symbols) < Len(r.symbols)) /\ Len(r.symbols) \in Nat
  OBVIOUS
<1>2. Set(r.symbols, Len(r.symbols), name, Missing) = Append(r.symbols, name)
  BY SetEnd
<1> QED BY <1>1, <1>2 DEF createSymbolInfo, WithSymbol

(* A symbol is defined in a file that is known. *)
LEMMA DefineRead ==
  ASSUME NEW r, IsReader(r), r.expects = "line", r.symbols \in Seq(Names),
         r.nodestack \in Seq(Names), NEW a \in Addresses, NEW d \in Nat, d - 1 <= Len(r.nodestack),
         NEW S, r.files \in Seq(S), NEW f, f.defines = FALSE,
         f.id \in 0..(Len(r.files) - 1), r.files[f.id + 1] = RealPath[BinaryOf[a]]
  PROVE  ReadToken(r, Frame(d, Len(r.symbols), TRUE, f, a)) =
           Moved(WithSymbol(r, ReadName(a)), Child(r, d, a))
<1>1. PICK t : t = Frame(d, Len(r.symbols), TRUE, f, a)
  OBVIOUS
<1>2. t.k = "C" /\ t.depth = d /\ t.fn = Len(r.symbols) /\ t.file = f /\ t.defines = TRUE
  BY <1>1 DEF Frame
<1>3. r.status = "reading" /\ Len(r.nodestack) \in Nat
  BY DEF IsReader
<1>4. Lookup(r.files, f.id) = "found"
  BY NameFacts, LookupFound
<1>5. symlookup(r.files[f.id + 1], t) = ReadName(a)
  BY <1>1, NameRead
<1>6. Define(r, t) = createSymbolInfo(r, ReadName(a), Len(r.symbols))
  BY <1>2, <1>3, <1>4, <1>5 DEF Define
<1>7. PICK w : w = WithSymbol(r, ReadName(a))
  OBVIOUS
<1>8. Define(r, t) = w
  BY <1>6, <1>7, SymbolCreated
<1>9. /\ w.status = "reading" /\ w.nodestack = r.nodestack
      /\ w.symbols = Append(r.symbols, ReadName(a))
  BY <1>3, <1>7 DEF WithSymbol, IsReader
<1>10. w.symbols[Len(r.symbols) + 1] = ReadName(a)
  <2>1. PICK s, n : s = r.symbols /\ n = ReadName(a)
    OBVIOUS
  <2>2. n \in Names /\ s \in Seq(Names)
    BY <2>1, NameFacts
  <2>3. Append(s, n)[Len(s) + 1] = n
    BY <2>2, AppendProperties
  <2> QED BY <1>9, <2>1, <2>3
<1>11. ReadToken(r, t) = Moved(w, Child(r, t.depth, a))
  <2>1. w = IF t.defines THEN Define(r, t) ELSE Refer(r, t)
    BY <1>2, <1>8
  <2>2. w.symbols[t.fn + 1] = ReadName(a)
    BY <1>2, <1>10
  <2> QED BY <1>2, <1>3, <1>9, <2>1, <2>2, FrameRead
<1> QED BY <1>1, <1>2, <1>7, <1>11

(* A symbol is defined, and its file. *)
LEMMA DefineFileRead ==
  ASSUME NEW r, IsReader(r), r.expects = "line", r.symbols \in Seq(Names),
         r.nodestack \in Seq(Names), NEW a \in Addresses, NEW d \in Nat, d - 1 <= Len(r.nodestack),
         NEW S, r.files \in Seq(S), NEW f, f.defines = TRUE, f.name = BinaryOf[a],
         f.id = Len(r.files), RealPath[BinaryOf[a]] \notin r.namedFiles
  PROVE  ReadToken(r, Frame(d, Len(r.symbols), TRUE, f, a)) =
           Moved(WithSymbol(WithFile(r, RealPath[BinaryOf[a]]), ReadName(a)), Child(r, d, a))
<1>1. PICK t : t = Frame(d, Len(r.symbols), TRUE, f, a)
  OBVIOUS
<1>2. t.k = "C" /\ t.depth = d /\ t.fn = Len(r.symbols) /\ t.file = f /\ t.defines = TRUE
  BY <1>1 DEF Frame
<1>3. r.status = "reading" /\ Len(r.nodestack) \in Nat
  BY DEF IsReader
<1>4. PICK path : path = RealPath[BinaryOf[a]]
  OBVIOUS
<1>5. PICK q : q = WithFile(r, path)
  OBVIOUS
<1>6. createFileInfo(r, f) = q
  <2>1. Lookup(r.files, f.id) = "undefined"
    <3>1. Len(r.files) \in Nat /\ ~ (Len(r.files) > Len(r.files))
      OBVIOUS
    <3> QED BY <3>1 DEF Lookup
  <2>2. Set(r.files, f.id, path, Missing) = Append(r.files, path)
    BY SetEnd
  <2>3. path \notin r.namedFiles /\ RealPath[f.name] = path
    BY <1>4
  <2> QED BY <1>5, <2>1, <2>2, <2>3 DEF createFileInfo, WithFile
<1>7. /\ q.status = "reading" /\ q.nodestack = r.nodestack /\ q.symbols = r.symbols
      /\ q.known = r.known
  BY <1>3, <1>5 DEF WithFile, IsReader
<1>8. symlookup(path, t) = ReadName(a)
  BY <1>1, <1>4, NameRead
<1>9. Define(r, t) = createSymbolInfo(q, ReadName(a), Len(r.symbols))
  <2>1. RealPath[t.file.name] = path /\ createFileInfo(r, t.file) = q
    BY <1>2, <1>4, <1>6
  <2> QED BY <1>2, <1>7, <1>8, <2>1 DEF Define
<1>10. PICK w : w = WithSymbol(q, ReadName(a))
  OBVIOUS
<1>11. Define(r, t) = w
  BY <1>7, <1>9, <1>10, SymbolCreated
<1>12. /\ w.status = "reading" /\ w.nodestack = r.nodestack
       /\ w.symbols = Append(r.symbols, ReadName(a))
  BY <1>5, <1>7, <1>10 DEF WithSymbol, WithFile, IsReader
<1>13. w.symbols[Len(r.symbols) + 1] = ReadName(a)
  <2>1. PICK s, n : s = r.symbols /\ n = ReadName(a)
    OBVIOUS
  <2>2. n \in Names /\ s \in Seq(Names)
    BY <2>1, NameFacts
  <2>3. Append(s, n)[Len(s) + 1] = n
    BY <2>2, AppendProperties
  <2> QED BY <1>12, <2>1, <2>3
<1>14. ReadToken(r, t) = Moved(w, Child(r, t.depth, a))
  <2>1. w = IF t.defines THEN Define(r, t) ELSE Refer(r, t)
    BY <1>2, <1>11
  <2>2. w.symbols[t.fn + 1] = ReadName(a)
    BY <1>2, <1>13
  <2> QED BY <1>2, <1>3, <1>12, <2>1, <2>2, FrameRead
<1> QED BY <1>1, <1>2, <1>4, <1>5, <1>10, <1>14

-----------------------------------------------------------------------------
(* The line of a frame, written and read *)

InfoOf(nsyms, nlibs, nctrs, symcache, ids, out, crashed) ==
  [nsyms |-> nsyms, nlibs |-> nlibs, nctrs |-> nctrs, symcache |-> symcache, ids |-> ids,
   out |-> out, crashed |-> crashed]

(* The cache with the number of a symbol, and with that of a binary *)
Numbered(c, a, n) == [c EXCEPT !.symId = [@ EXCEPT ![a] = n]]
NumberedFile(c, b, n) == [c EXCEPT !.binId = [@ EXCEPT ![b] = n]]

(* What the steps of PutFrame() make of it *)
Known(i, c) == [i EXCEPT !.symcache = c]
NewSymbol(i, a, n) == [i EXCEPT !.symcache.symId[a] = n, !.nsyms = @ + 1]
NewFile(i, b, n) == [i EXCEPT !.symcache.binId[b] = n, !.nlibs = @ + 1]

(* A token is put behind the others. *)
LEMMA InfoPut ==
  ASSUME NEW ns, NEW nl, NEW nc, NEW c, NEW ids, NEW out, NEW no, NEW t,
         NEW i, i = InfoOf(ns, nl, nc, c, ids, out, no)
  PROVE  Put(i, t) = InfoOf(ns, nl, nc, c, ids, Append(out, t), no)
BY DEF InfoOf, Put

(* Another cache *)
LEMMA InfoKnown ==
  ASSUME NEW ns, NEW nl, NEW nc, NEW c, NEW ids, NEW out, NEW no, NEW k,
         NEW i, i = InfoOf(ns, nl, nc, c, ids, out, no)
  PROVE  Known(i, k) = InfoOf(ns, nl, nc, k, ids, out, no)
BY DEF InfoOf, Known

(* A new symbol *)
LEMMA InfoSymbol ==
  ASSUME NEW ns, NEW nl, NEW nc, NEW c, NEW ids, NEW out, NEW no, NEW a, NEW n,
         NEW i, i = InfoOf(ns, nl, nc, c, ids, out, no)
  PROVE  NewSymbol(i, a, n) = InfoOf(ns + 1, nl, nc, Numbered(c, a, n), ids, out, no)
<1>1. PICK m, x : m = Numbered(c, a, n) /\ x = ns + 1
  OBVIOUS
<1>2. i.symcache = c /\ i.nsyms = ns
  BY DEF InfoOf
<1>3. PICK j : j = [i EXCEPT !.symcache = m]
  OBVIOUS
<1>4. j = InfoOf(ns, nl, nc, m, ids, out, no)
  BY <1>3 DEF InfoOf
<1>5. PICK k : k = [j EXCEPT !.nsyms = x]
  OBVIOUS
<1>6. k = InfoOf(x, nl, nc, m, ids, out, no)
  BY <1>4, <1>5 DEF InfoOf
<1>7. NewSymbol(i, a, n) = k
  <2>1. m = [c EXCEPT !.symId[a] = n]
    BY <1>1 DEF Numbered
  <2> QED BY <1>1, <1>2, <1>3, <1>5, <2>1 DEF NewSymbol
<1> QED BY <1>1, <1>6, <1>7

(* A new binary *)
LEMMA InfoFile ==
  ASSUME NEW ns, NEW nl, NEW nc, NEW c, NEW ids, NEW out, NEW no, NEW b, NEW n,
         NEW i, i = InfoOf(ns, nl, nc, c, ids, out, no)
  PROVE  NewFile(i, b, n) = InfoOf(ns, nl + 1, nc, NumberedFile(c, b, n), ids, out, no)
<1>1. PICK m, x : m = NumberedFile(c, b, n) /\ x = nl + 1
  OBVIOUS
<1>2. i.symcache = c /\ i.nlibs = nl
  BY DEF InfoOf
<1>3. PICK j : j = [i EXCEPT !.symcache = m]
  OBVIOUS
<1>4. j = InfoOf(ns, nl, nc, m, ids, out, no)
  BY <1>3 DEF InfoOf
<1>5. PICK k : k = [j EXCEPT !.nlibs = x]
  OBVIOUS
<1>6. k = InfoOf(ns, x, nc, m, ids, out, no)
  BY <1>4, <1>5 DEF InfoOf
<1>7. NewFile(i, b, n) = k
  <2>1. m = [c EXCEPT !.binId[b] = n]
    BY <1>1 DEF NumberedFile
  <2> QED BY <1>1, <1>2, <1>3, <1>5, <2>1 DEF NewFile
<1> QED BY <1>1, <1>6, <1>7

File(b, id, defines) == [id |-> id, defines |-> defines, name |-> b]

NoFile(b) == [id |-> -1, defines |-> FALSE, name |-> b]

(* The files that tokens name *)
LEMMA FileOf ==
  ASSUME NEW b, NEW n
  PROVE  /\ File(b, -1, FALSE) = NoFile(b)
         /\ File(b, n, FALSE) = [NoFile(b) EXCEPT !.id = n]
         /\ File(b, n, TRUE) = [NoFile(b) EXCEPT !.id = n, !.defines = TRUE]
<1>1. PICK no, yes, m : no = FALSE /\ yes = TRUE /\ m = -1
  OBVIOUS
<1>2. NoFile(b) = File(b, m, no)
  BY <1>1 DEF NoFile, File
<1>3. [File(b, m, no) EXCEPT !.id = n] = File(b, n, no)
  BY DEF File
<1>4. PICK f : f = [File(b, m, no) EXCEPT !.id = n]
  OBVIOUS
<1>5. [f EXCEPT !.defines = yes] = File(b, n, yes)
  <2>1. f = File(b, n, no)
    BY <1>3, <1>4
  <2> QED BY <2>1 DEF File
<1>6. [File(b, m, no) EXCEPT !.id = n, !.defines = yes] = File(b, n, yes)
  BY <1>4, <1>5
<1> QED BY <1>1, <1>2, <1>3, <1>6

(* What PutFrame() does: refer to a symbol, define it in a known binary, or in a new one *)
Refers(i, c, d, a) ==
  /\ a \in DOMAIN i.symcache.symId /\ c.symId[a] = i.symcache.symId[a]
  /\ PutFrame(i, d, a) =
       InfoOf(i.nsyms, i.nlibs, i.nctrs, c, i.ids,
              Append(i.out, Frame(d, c.symId[a], FALSE, File(BinaryOf[a], -1, FALSE), a)), FALSE)

Defines(i, c, d, a) ==
  /\ a \notin DOMAIN i.symcache.symId /\ BinaryOf[a] \in DOMAIN i.symcache.binId
  /\ c.binId[BinaryOf[a]] = i.symcache.binId[BinaryOf[a]]
  /\ PutFrame(i, d, a) =
       InfoOf(i.nsyms + 1, i.nlibs, i.nctrs, Numbered(c, a, i.nsyms), i.ids,
              Append(i.out, Frame(d, i.nsyms, TRUE, File(BinaryOf[a], c.binId[BinaryOf[a]], FALSE), a)),
              FALSE)

DefinesFile(i, c, d, a) ==
  /\ a \notin DOMAIN i.symcache.symId /\ BinaryOf[a] \notin DOMAIN i.symcache.binId
  /\ PutFrame(i, d, a) =
       InfoOf(i.nsyms + 1, i.nlibs + 1, i.nctrs,
              NumberedFile(Numbered(c, a, i.nsyms), BinaryOf[a], i.nlibs), i.ids,
              Append(i.out, Frame(d, i.nsyms, TRUE, File(BinaryOf[a], i.nlibs, TRUE), a)), FALSE)

(* One of the three is what PutFrame() does. *)
LEMMA PutFrameIs ==
  ASSUME NEW i, InfoFits(i), NEW d \in Nat, NEW a \in Addresses,
         NEW c, c = roundAddressToSymbol(i.symcache, a)
  PROVE  /\ Rounded(i.symcache, c, a)
         /\ Refers(i, c, d, a) \/ Defines(i, c, d, a) \/ DefinesFile(i, c, d, a)
<1>1. PICK ns, nl, nc, sc, ids, out, no :
        /\ no = FALSE /\ ns = i.nsyms /\ nl = i.nlibs /\ nc = i.nctrs /\ sc = i.symcache
        /\ ids = i.ids /\ out = i.out
  OBVIOUS
<1>2. /\ i = InfoOf(ns, nl, nc, sc, ids, out, no) /\ ns \in Nat /\ nl \in Nat /\ CacheOK(sc)
      /\ \A x \in DOMAIN sc.symId : sc.symId[x] \in 0..(ns - 1)
      /\ \A b \in DOMAIN sc.binId : sc.binId[b] \in 0..(nl - 1)
  BY <1>1 DEF InfoFits, InfoOf
<1>3. Rounded(sc, c, a)
  BY <1>1, <1>2, RoundedAddress
<1>4. PICK b : b = BinaryOf[a]
  OBVIOUS
<1>5. PICK known : known = Known(i, c)
  OBVIOUS
<1>6. known = InfoOf(ns, nl, nc, c, ids, out, no)
  BY <1>2, <1>5, InfoKnown
<1>7. symbolForAddress(c, a)
  BY <1>3 DEF Rounded
<1>8. PutFrame(i, d, a) =
        IF c.symId[a] >= 0
        THEN Put(known, Frame(d, c.symId[a], FALSE, NoFile(b), a))
        ELSE IF c.binId[b] >= 0
        THEN Put(NewSymbol(known, a, ns),
                 Frame(d, ns, TRUE, [NoFile(b) EXCEPT !.id = c.binId[b]], a))
        ELSE Put(NewFile(NewSymbol(known, a, ns), b, nl),
                 Frame(d, ns, TRUE, [NoFile(b) EXCEPT !.id = nl, !.defines = TRUE], a))
  BY <1>1, <1>4, <1>5, <1>7 DEF PutFrame, Known, NewSymbol, NewFile, NoFile
<1>9. CASE a \in DOMAIN sc.symId
  <2>1. c.symId[a] = sc.symId[a] /\ c.symId[a] >= 0
    BY <1>2, <1>3, <1>9 DEF Rounded
  <2>2. PICK t : t = Frame(d, c.symId[a], FALSE, File(b, -1, FALSE), a)
    OBVIOUS
  <2>3. PutFrame(i, d, a) = Put(known, t)
    BY <1>8, <2>1, <2>2, FileOf
  <2>4. Put(known, t) = InfoOf(ns, nl, nc, c, ids, Append(out, t), no)
    BY <1>6, InfoPut
  <2>5. Refers(i, c, d, a)
    BY <1>1, <1>4, <1>9, <2>1, <2>2, <2>3, <2>4 DEF Refers
  <2> QED BY <1>1, <1>3, <2>5
<1>10. CASE a \notin DOMAIN sc.symId
  <2>1. c.symId[a] = -1 /\ ~ (c.symId[a] >= 0)
    BY <1>3, <1>10 DEF Rounded
  <2>2. PICK m, fn : m = Numbered(c, a, ns) /\ fn = NewSymbol(known, a, ns)
    OBVIOUS
  <2>3. fn = InfoOf(ns + 1, nl, nc, m, ids, out, no)
    BY <1>6, <2>2, InfoSymbol
  <2>4. CASE b \in DOMAIN sc.binId
    <3>1. c.binId[b] = sc.binId[b] /\ c.binId[b] >= 0
      BY <1>2, <1>3, <1>4, <2>4 DEF Rounded
    <3>2. PICK t : t = Frame(d, ns, TRUE, File(b, c.binId[b], FALSE), a)
      OBVIOUS
    <3>3. t = Frame(d, ns, TRUE, [NoFile(b) EXCEPT !.id = c.binId[b]], a)
      BY <3>2, FileOf
    <3>4. PutFrame(i, d, a) = Put(fn, t)
      BY <1>8, <2>1, <2>2, <3>1, <3>3
    <3>5. Put(fn, t) = InfoOf(ns + 1, nl, nc, m, ids, Append(out, t), no)
      BY <2>3, InfoPut
    <3>6. Defines(i, c, d, a)
      BY <1>1, <1>4, <1>10, <2>2, <2>4, <3>1, <3>2, <3>4, <3>5 DEF Defines
    <3> QED BY <1>1, <1>3, <3>6
  <2>5. CASE b \notin DOMAIN sc.binId
    <3>1. c.binId[b] = -1 /\ ~ (c.binId[b] >= 0)
      BY <1>3, <1>4, <2>5 DEF Rounded
    <3>2. PICK t : t = Frame(d, ns, TRUE, File(b, nl, TRUE), a)
      OBVIOUS
    <3>3. t = Frame(d, ns, TRUE, [NoFile(b) EXCEPT !.id = nl, !.defines = TRUE], a)
      BY <3>2, FileOf
    <3>4. PICK k, fl : k = NumberedFile(m, b, nl) /\ fl = NewFile(fn, b, nl)
      OBVIOUS
    <3>5. fl = InfoOf(ns + 1, nl + 1, nc, k, ids, out, no)
      BY <2>3, <3>4, InfoFile
    <3>6. PutFrame(i, d, a) = Put(fl, t)
      BY <1>8, <2>1, <2>2, <3>1, <3>3, <3>4
    <3>7. Put(fl, t) = InfoOf(ns + 1, nl + 1, nc, k, ids, Append(out, t), no)
      BY <3>5, InfoPut
    <3>8. DefinesFile(i, c, d, a)
      BY <1>1, <1>4, <1>10, <2>2, <2>5, <3>2, <3>4, <3>6, <3>7 DEF DefinesFile
    <3> QED BY <1>1, <1>3, <3>8
  <2> QED BY <2>4, <2>5
<1> QED BY <1>9, <1>10

(* A number does not change what the cache holds. *)
LEMMA NumberedCache ==
  ASSUME NEW c, CacheOK(c), NEW a \in DOMAIN c.symId, NEW n
  PROVE  /\ CacheOK(Numbered(c, a, n))
         /\ Numbered(c, a, n).symId = [c.symId EXCEPT ![a] = n]
         /\ Numbered(c, a, n).binId = c.binId
<1>1. PICK sc, st, si, bi : sc = c.symcache /\ st = c.symtable /\ si = c.symId /\ bi = c.binId
  OBVIOUS
<1>2. c = CacheOf(sc, st, si, bi)
  BY <1>1 DEF CacheOK, CacheOf
<1>3. PICK sj : sj = [si EXCEPT ![a] = n]
  OBVIOUS
<1>4. Numbered(c, a, n) = CacheOf(sc, st, sj, bi)
  BY <1>1, <1>2, <1>3 DEF Numbered, CacheOf
<1>5. PICK m : m = CacheOf(sc, st, sj, bi)
  OBVIOUS
<1>6. m.symcache = sc /\ m.symtable = st /\ m.symId = sj /\ m.binId = bi
  BY <1>5 DEF CacheOf
<1>7. DOMAIN sj = DOMAIN si
  BY <1>3
<1>8. CacheOK(m)
  BY <1>1, <1>5, <1>6, <1>7 DEF CacheOK, CacheOf
<1> QED BY <1>1, <1>3, <1>4, <1>5, <1>6, <1>8

(* Nor does the number of a binary. *)
LEMMA NumberedFileCache ==
  ASSUME NEW c, CacheOK(c), NEW b \in DOMAIN c.binId, NEW n
  PROVE  /\ CacheOK(NumberedFile(c, b, n))
         /\ NumberedFile(c, b, n).symId = c.symId
         /\ NumberedFile(c, b, n).binId = [c.binId EXCEPT ![b] = n]
<1>1. PICK sc, st, si, bi : sc = c.symcache /\ st = c.symtable /\ si = c.symId /\ bi = c.binId
  OBVIOUS
<1>2. c = CacheOf(sc, st, si, bi)
  BY <1>1 DEF CacheOK, CacheOf
<1>3. PICK bj : bj = [bi EXCEPT ![b] = n]
  OBVIOUS
<1>4. NumberedFile(c, b, n) = CacheOf(sc, st, si, bj)
  BY <1>1, <1>2, <1>3 DEF NumberedFile, CacheOf
<1>5. PICK m : m = CacheOf(sc, st, si, bj)
  OBVIOUS
<1>6. m.symcache = sc /\ m.symtable = st /\ m.symId = si /\ m.binId = bj
  BY <1>5 DEF CacheOf
<1>7. DOMAIN bj = DOMAIN bi
  BY <1>3
<1>8. CacheOK(m)
  BY <1>1, <1>5, <1>6, <1>7 DEF CacheOK, CacheOf
<1> QED BY <1>1, <1>3, <1>4, <1>5, <1>6, <1>8

ReaderOf(key, known, cost, status, nodestack, symbols, files, namedFiles, keys, expects) ==
  [key |-> key, known |-> known, cost |-> cost, status |-> status,
   nodestack |-> nodestack, symbols |-> symbols, files |-> files,
   namedFiles |-> namedFiles, keys |-> keys, expects |-> expects]

(* A reader by its fields *)
LEMMA ReaderIs ==
  ASSUME NEW key, NEW known, NEW cost, NEW nodestack, NEW symbols, NEW files,
         NEW namedFiles, NEW keys, NEW expects, NEW status, status = "reading", NEW r,
         r = ReaderOf(key, known, cost, status, nodestack, symbols, files, namedFiles, keys, expects)
  PROVE  /\ IsReader(r)
         /\ r.key = key /\ r.known = known /\ r.cost = cost /\ r.nodestack = nodestack
         /\ r.symbols = symbols /\ r.files = files /\ r.namedFiles = namedFiles
         /\ r.keys = keys /\ r.expects = expects
BY DEF ReaderOf, IsReader

(* A reader is what its fields are. *)
LEMMA IsReaderOf ==
  ASSUME NEW r, IsReader(r)
  PROVE  r = ReaderOf(r.key, r.known, r.cost, "reading", r.nodestack, r.symbols, r.files,
                      r.namedFiles, r.keys, r.expects)
BY DEF IsReader, ReaderOf

Visited(cost, path) ==
  [p \in DOMAIN cost \cup {path} |-> IF p \in DOMAIN cost THEN cost[p] ELSE Nothing]

(* The reader at a node *)
LEMMA MovedIs ==
  ASSUME NEW r, IsReader(r), NEW path
  PROVE  /\ IsReader(Moved(r, path))
         /\ Moved(r, path).nodestack = path /\ Moved(r, path).expects = "counter"
         /\ Moved(r, path).cost = Visited(r.cost, path)
         /\ Moved(r, path).key = r.key /\ Moved(r, path).keys = r.keys
         /\ Moved(r, path).symbols = r.symbols /\ Moved(r, path).files = r.files
         /\ Moved(r, path).namedFiles = r.namedFiles
<1>1. PICK key, known, cost, st, ns, sy, fi, nf, ke, ex :
        /\ key = r.key /\ known = r.known /\ cost = r.cost /\ st = "reading" /\ ns = r.nodestack
        /\ sy = r.symbols /\ fi = r.files /\ nf = r.namedFiles /\ ke = r.keys /\ ex = r.expects
  OBVIOUS
<1>2. r = ReaderOf(key, known, cost, st, ns, sy, fi, nf, ke, ex)
  BY <1>1, IsReaderOf
<1>3. PICK new, at : /\ new = Visited(cost, path) /\ at = "counter"
  OBVIOUS
<1>4. PICK q1 : q1 = [r EXCEPT !.nodestack = path]
  OBVIOUS
<1>5. q1 = ReaderOf(key, known, cost, st, path, sy, fi, nf, ke, ex)
  BY <1>2, <1>4 DEF ReaderOf
<1>6. PICK q2 : q2 = [q1 EXCEPT !.expects = at]
  OBVIOUS
<1>7. q2 = ReaderOf(key, known, cost, st, path, sy, fi, nf, ke, at)
  BY <1>5, <1>6 DEF ReaderOf
<1>8. PICK q3 : q3 = [q2 EXCEPT !.cost = new]
  OBVIOUS
<1>9. q3 = ReaderOf(key, known, new, st, path, sy, fi, nf, ke, at)
  BY <1>7, <1>8 DEF ReaderOf
<1>10. Moved(r, path) = q3
  BY <1>1, <1>3, <1>4, <1>6, <1>8 DEF Moved, Visited
<1>11. /\ IsReader(q3)
       /\ q3.key = key /\ q3.cost = new /\ q3.nodestack = path
       /\ q3.symbols = sy /\ q3.files = fi /\ q3.namedFiles = nf
       /\ q3.keys = ke /\ q3.expects = at
  BY <1>1, <1>9, ReaderIs
<1> QED BY <1>1, <1>3, <1>10, <1>11

(* The reader with one more symbol *)
LEMMA WithSymbolIs ==
  ASSUME NEW r, IsReader(r), NEW name
  PROVE  /\ IsReader(WithSymbol(r, name))
         /\ WithSymbol(r, name).symbols = Append(r.symbols, name)
         /\ WithSymbol(r, name).nodestack = r.nodestack /\ WithSymbol(r, name).cost = r.cost
         /\ WithSymbol(r, name).key = r.key /\ WithSymbol(r, name).keys = r.keys
         /\ WithSymbol(r, name).files = r.files
         /\ WithSymbol(r, name).namedFiles = r.namedFiles
<1>1. PICK key, known, cost, st, ns, sy, fi, nf, ke, ex :
        /\ key = r.key /\ known = r.known /\ cost = r.cost /\ st = "reading" /\ ns = r.nodestack
        /\ sy = r.symbols /\ fi = r.files /\ nf = r.namedFiles /\ ke = r.keys /\ ex = r.expects
  OBVIOUS
<1>2. r = ReaderOf(key, known, cost, st, ns, sy, fi, nf, ke, ex)
  BY <1>1, IsReaderOf
<1>3. PICK new, all : new = Append(sy, name) /\ all = known \cup {name}
  OBVIOUS
<1>4. PICK q1 : q1 = [r EXCEPT !.symbols = new]
  OBVIOUS
<1>5. q1 = ReaderOf(key, known, cost, st, ns, new, fi, nf, ke, ex)
  BY <1>2, <1>4 DEF ReaderOf
<1>6. PICK q2 : q2 = [q1 EXCEPT !.known = all]
  OBVIOUS
<1>7. q2 = ReaderOf(key, all, cost, st, ns, new, fi, nf, ke, ex)
  BY <1>5, <1>6 DEF ReaderOf
<1>8. WithSymbol(r, name) = q2
  BY <1>1, <1>3, <1>4, <1>6 DEF WithSymbol
<1>9. /\ IsReader(q2)
      /\ q2.key = key /\ q2.cost = cost /\ q2.nodestack = ns
      /\ q2.symbols = new /\ q2.files = fi /\ q2.namedFiles = nf
      /\ q2.keys = ke
  BY <1>1, <1>7, ReaderIs
<1> QED BY <1>1, <1>3, <1>8, <1>9

(* The reader with one more file *)
LEMMA WithFileIs ==
  ASSUME NEW r, IsReader(r), NEW path
  PROVE  /\ IsReader(WithFile(r, path))
         /\ WithFile(r, path).files = Append(r.files, path)
         /\ WithFile(r, path).namedFiles = r.namedFiles \cup {path}
         /\ WithFile(r, path).nodestack = r.nodestack /\ WithFile(r, path).cost = r.cost
         /\ WithFile(r, path).key = r.key /\ WithFile(r, path).keys = r.keys
         /\ WithFile(r, path).symbols = r.symbols
<1>1. PICK key, known, cost, st, ns, sy, fi, nf, ke, ex :
        /\ key = r.key /\ known = r.known /\ cost = r.cost /\ st = "reading" /\ ns = r.nodestack
        /\ sy = r.symbols /\ fi = r.files /\ nf = r.namedFiles /\ ke = r.keys /\ ex = r.expects
  OBVIOUS
<1>2. r = ReaderOf(key, known, cost, st, ns, sy, fi, nf, ke, ex)
  BY <1>1, IsReaderOf
<1>3. PICK new, all : new = Append(fi, path) /\ all = nf \cup {path}
  OBVIOUS
<1>4. PICK q1 : q1 = [r EXCEPT !.files = new]
  OBVIOUS
<1>5. q1 = ReaderOf(key, known, cost, st, ns, sy, new, nf, ke, ex)
  BY <1>2, <1>4 DEF ReaderOf
<1>6. PICK q2 : q2 = [q1 EXCEPT !.namedFiles = all]
  OBVIOUS
<1>7. q2 = ReaderOf(key, known, cost, st, ns, sy, new, all, ke, ex)
  BY <1>5, <1>6 DEF ReaderOf
<1>8. WithFile(r, path) = q2
  BY <1>1, <1>3, <1>4, <1>6 DEF WithFile
<1>9. /\ IsReader(q2)
      /\ q2.key = key /\ q2.cost = cost /\ q2.nodestack = ns
      /\ q2.symbols = sy /\ q2.files = new /\ q2.namedFiles = all
      /\ q2.keys = ke
  BY <1>1, <1>7, ReaderIs
<1> QED BY <1>1, <1>3, <1>8, <1>9

(* An IgProfDumpInfo that is put together from what fits *)
LEMMA InfoFitsOf ==
  ASSUME NEW ns \in Nat, NEW nl \in Nat, NEW nc \in Nat, NEW c, CacheOK(c), NEW ids, NEW out,
         out \in Seq(Token), NEW no, no = FALSE,
         \A a \in DOMAIN c.symId : c.symId[a] \in 0..(ns - 1),
         \A b \in DOMAIN c.binId : c.binId[b] \in 0..(nl - 1),
         ids \in [CounterDefs -> Int],
         \A x \in CounterDefs : ids[x] = -1 \/ ids[x] \in 0..(nc - 1),
         NEW j, j = InfoOf(ns, nl, nc, c, ids, out, no)
  PROVE  InfoFits(j)
<1>1. /\ j.nsyms = ns /\ j.nlibs = nl /\ j.nctrs = nc /\ j.symcache = c /\ j.ids = ids
      /\ j.out = out /\ j.crashed = no
  BY DEF InfoOf
<1>2. j = [nsyms |-> j.nsyms, nlibs |-> j.nlibs, nctrs |-> j.nctrs,
           symcache |-> j.symcache, ids |-> j.ids, out |-> j.out, crashed |-> FALSE]
  BY <1>1, Zenon DEF InfoOf
<1> QED BY <1>1, <1>2 DEF InfoFits

(* The fields of an IgProfDumpInfo *)
LEMMA InfoFields ==
  ASSUME NEW ns, NEW nl, NEW nc, NEW c, NEW ids, NEW out, NEW no,
         NEW j, j = InfoOf(ns, nl, nc, c, ids, out, no)
  PROVE  /\ j.nsyms = ns /\ j.nlibs = nl /\ j.nctrs = nc /\ j.symcache = c /\ j.ids = ids
         /\ j.out = out /\ j.crashed = no
BY DEF InfoOf

(* The token of a frame is one. *)
LEMMA FrameIsToken ==
  ASSUME NEW d \in Nat, NEW fn \in Nat, NEW defines \in BOOLEAN, NEW a \in Addresses,
         NEW id \in Nat \cup {-1}, NEW def \in BOOLEAN
  PROVE  Frame(d, fn, defines, File(BinaryOf[a], id, def), a) \in Token
<1>1. PICK S : S = {BinaryOf[x] : x \in Addresses}
  OBVIOUS
<1>2. PICK f : f = File(BinaryOf[a], id, def)
  OBVIOUS
<1>3. f \in [id : Nat \cup {-1}, defines : BOOLEAN, name : S]
  BY <1>1, <1>2 DEF File
<1>4. PICK nm : nm = Printed(a)
  OBVIOUS
<1>5. nm \in {Printed(x) : x \in Addresses}
  BY <1>4
<1>6. Frame(d, fn, defines, f, a) \in FrameToken
  BY <1>1, <1>3, <1>4, <1>5 DEF FrameToken, Frame
<1> QED BY <1>2, <1>6, Zenon DEF Token

(* The line of a frame is put, and read. *)
FramePut(i, j, t, a) ==
  /\ InfoFits(j) /\ t \in Token /\ j.out = Append(i.out, t) /\ j.ids = i.ids /\ j.nctrs = i.nctrs
  /\ DOMAIN j.symcache.symId = DOMAIN i.symcache.symId \cup {a}

CanRead(r, i, d) ==
  /\ IsReader(r) /\ r.expects = "line" /\ SymbolsFit(r, i)
  /\ r.nodestack \in Seq(Names) /\ d - 1 <= Len(r.nodestack)

Reached(r, q, path) ==
  /\ IsReader(q) /\ q.nodestack = path /\ q.expects = "counter"
  /\ q.key = r.key /\ q.keys = r.keys
  /\ q.cost = Visited(r.cost, path)

(* A reference to a symbol is read as it was meant. *)
LEMMA RefersPut ==
  ASSUME NEW i, InfoFits(i), NEW d \in Nat, NEW a \in Addresses,
         NEW c, Rounded(i.symcache, c, a), Refers(i, c, d, a),
         NEW j, j = PutFrame(i, d, a),
         NEW t, t = Frame(d, c.symId[a], FALSE, File(BinaryOf[a], -1, FALSE), a)
  PROVE  /\ FramePut(i, j, t, a)
         /\ \A r : CanRead(r, i, d) =>
              Reached(r, ReadToken(r, t), Child(r, d, a)) /\ SymbolsFit(ReadToken(r, t), j)
<1>1. PICK ns, nl, nc, sc, ids, out, no :
        /\ no = FALSE /\ ns = i.nsyms /\ nl = i.nlibs /\ nc = i.nctrs /\ sc = i.symcache
        /\ ids = i.ids /\ out = i.out
  OBVIOUS
<1>2. /\ ns \in Nat /\ nl \in Nat /\ nc \in Nat /\ CacheOK(sc) /\ out \in Seq(Token)
      /\ \A x \in DOMAIN sc.symId : sc.symId[x] \in 0..(ns - 1)
      /\ \A b \in DOMAIN sc.binId : sc.binId[b] \in 0..(nl - 1)
      /\ ids \in [CounterDefs -> Int]
      /\ \A x \in CounterDefs : ids[x] = -1 \/ ids[x] \in 0..(nc - 1)
  BY <1>1 DEF InfoFits
<1>3. PICK fn : fn = c.symId[a]
  OBVIOUS
<1>4. /\ a \in DOMAIN sc.symId /\ fn = sc.symId[a] /\ fn \in 0..(ns - 1)
      /\ j = InfoOf(ns, nl, nc, c, ids, Append(out, t), no)
  BY <1>1, <1>2, <1>3 DEF Refers
<1>5. t \in Token
  <2>1. fn \in Nat
    BY <1>2, <1>4
  <2>2. -1 \in Nat \cup {-1} /\ FALSE \in BOOLEAN
    OBVIOUS
  <2> QED BY <1>3, <2>1, <2>2, FrameIsToken, Zenon
<1>6. /\ j.nsyms = ns /\ j.nlibs = nl /\ j.nctrs = nc /\ j.symcache = c /\ j.ids = ids
      /\ j.out = Append(out, t)
  <2>1. PICK o : o = Append(out, t)
    OBVIOUS
  <2>2. j = InfoOf(ns, nl, nc, c, ids, o, no)
    BY <1>4, <2>1
  <2>3. /\ j.nsyms = ns /\ j.nlibs = nl /\ j.nctrs = nc /\ j.symcache = c /\ j.ids = ids
        /\ j.out = o
    BY <2>2 DEF InfoOf
  <2> QED BY <2>1, <2>3
<1>7. /\ CacheOK(c) /\ DOMAIN c.symId = DOMAIN sc.symId
      /\ \A x \in DOMAIN sc.symId : c.symId[x] = sc.symId[x]
      /\ DOMAIN c.binId = DOMAIN sc.binId
      /\ \A b \in DOMAIN sc.binId : c.binId[b] = sc.binId[b]
  <2>1. BinaryOf[a] \in DOMAIN sc.binId
    BY <1>2, <1>4 DEF CacheOK
  <2> QED BY <1>1, <1>4, <2>1 DEF Rounded
<1>8. Append(out, t) \in Seq(Token)
  BY <1>2, <1>5, AppendProperties
<1>9. InfoFits(j)
  <2>1. PICK o : o = Append(out, t)
    OBVIOUS
  <2>2. /\ \A x \in DOMAIN c.symId : c.symId[x] \in 0..(ns - 1)
        /\ \A b \in DOMAIN c.binId : c.binId[b] \in 0..(nl - 1)
    BY <1>2, <1>7
  <2>3. o \in Seq(Token) /\ j = InfoOf(ns, nl, nc, c, ids, o, no)
    BY <1>4, <1>8, <2>1
  <2>4. CacheOK(c) /\ no = FALSE
    BY <1>1, <1>7
  <2>5. /\ ns \in Nat /\ nl \in Nat /\ nc \in Nat /\ ids \in [CounterDefs -> Int]
        /\ \A x \in CounterDefs : ids[x] = -1 \/ ids[x] \in 0..(nc - 1)
    BY <1>2
  <2> QED BY <2>2, <2>3, <2>4, <2>5, InfoFitsOf
<1>10. FramePut(i, j, t, a)
  BY <1>1, <1>4, <1>5, <1>6, <1>7, <1>9 DEF FramePut
<1>11. ASSUME NEW r, CanRead(r, i, d)
       PROVE  Reached(r, ReadToken(r, t), Child(r, d, a)) /\ SymbolsFit(ReadToken(r, t), j)
  <2>1. /\ IsReader(r) /\ r.expects = "line" /\ r.nodestack \in Seq(Names)
        /\ d - 1 <= Len(r.nodestack)
        /\ r.symbols \in Seq(Names) /\ Len(r.symbols) = ns /\ r.symbols[fn + 1] = ReadName(a)
    BY <1>1, <1>4, <1>11 DEF CanRead, SymbolsFit, SymbolTable
  <2>2. PICK q : q = Moved(r, Child(r, d, a))
    OBVIOUS
  <2>3. ReadToken(r, t) = q
    BY <1>3, <1>4, <2>1, <2>2, ReferRead
  <2>4. Reached(r, q, Child(r, d, a))
    <3>1. PICK path : path = Child(r, d, a)
      OBVIOUS
    <3>2. q = Moved(r, path)
      BY <2>2, <3>1
    <3>3. Reached(r, q, path)
      BY <2>1, <3>2, MovedIs DEF Reached
    <3> QED BY <3>1, <3>3
  <2>5. q.symbols = r.symbols /\ q.files = r.files /\ q.namedFiles = r.namedFiles
    BY <2>1, <2>2, MovedIs
  <2>6. SymbolsFit(r, i)
    BY <1>11 DEF CanRead
  <2>7. SymbolsFit(q, j)
    BY <1>1, <1>6, <1>7, <2>5, <2>6 DEF SymbolsFit, SymbolTable, FileTable
  <2> QED BY <2>3, <2>4, <2>7
<1> QED BY <1>10, <1>11

(* A table of which the numbers are in use gets one entry more. *)
LEMMA OneMore ==
  ASSUME NEW S, NEW table \in Seq(S), NEW v \in S
  PROVE  /\ Append(table, v) \in Seq(S) /\ Len(Append(table, v)) = Len(table) + 1
         /\ Append(table, v)[Len(table) + 1] = v
         /\ \A k \in 0..(Len(table) - 1) : Append(table, v)[k + 1] = table[k + 1]
<1>1. PICK s : s = Append(table, v)
  OBVIOUS
<1>2. /\ s \in Seq(S) /\ Len(s) = Len(table) + 1 /\ s[Len(table) + 1] = v
      /\ \A k \in 1..Len(table) : s[k] = table[k]
  BY <1>1, AppendProperties
<1>3. \A k \in 0..(Len(table) - 1) : k + 1 \in 1..Len(table)
  OBVIOUS
<1> QED BY <1>1, <1>2, <1>3

(* The table of symbols with a new one still fits. *)
LEMMA SymbolEntered ==
  ASSUME NEW symbols, NEW si, NEW n \in Nat, SymbolTable(symbols, si, n),
         \A x \in DOMAIN si : si[x] \in 0..(n - 1),
         NEW a \in Addresses, NEW sj, DOMAIN sj = DOMAIN si \cup {a}, sj[a] = n,
         \A x \in DOMAIN si : x # a => sj[x] = si[x]
  PROVE  /\ SymbolTable(Append(symbols, ReadName(a)), sj, n + 1)
         /\ \A x \in DOMAIN sj : sj[x] \in 0..((n + 1) - 1)
<1>1. PICK v, s : v = ReadName(a) /\ s = Append(symbols, v)
  OBVIOUS
<1>2. v \in Names
  BY <1>1, NameFacts
<1>3. symbols \in Seq(Names) /\ Len(symbols) = n
  BY DEF SymbolTable
<1>4. /\ s \in Seq(Names) /\ Len(s) = n + 1 /\ s[n + 1] = v
      /\ \A k \in 0..(n - 1) : s[k + 1] = symbols[k + 1]
  <2>1. /\ s \in Seq(Names) /\ Len(s) = Len(symbols) + 1 /\ s[Len(symbols) + 1] = v
        /\ \A k \in 0..(Len(symbols) - 1) : s[k + 1] = symbols[k + 1]
    BY <1>1, <1>2, <1>3, OneMore
  <2> QED BY <1>3, <2>1
<1>5. ASSUME NEW x \in DOMAIN sj PROVE s[sj[x] + 1] = ReadName(x) /\ sj[x] \in 0..((n + 1) - 1)
  <2>1. CASE x = a
    BY <1>1, <1>4, <2>1
  <2>2. CASE x # a
    <3>1. x \in DOMAIN si /\ sj[x] = si[x] /\ si[x] \in 0..(n - 1)
      BY <2>2
    <3>2. symbols[si[x] + 1] = ReadName(x)
      BY <3>1 DEF SymbolTable
    <3>3. s[si[x] + 1] = symbols[si[x] + 1]
      BY <1>4, <3>1
    <3>4. si[x] \in 0..((n + 1) - 1)
      BY <3>1
    <3> QED BY <3>1, <3>2, <3>3, <3>4
  <2> QED BY <2>1, <2>2
<1>6. SymbolTable(s, sj, n + 1)
  BY <1>4, <1>5 DEF SymbolTable
<1> QED BY <1>1, <1>5, <1>6

(* So does that of files. *)
LEMMA FileEntered ==
  ASSUME NEW files, NEW named, NEW bi, NEW n \in Nat, FileTable(files, named, bi, n),
         \A x \in DOMAIN bi : bi[x] \in 0..(n - 1),
         NEW b, NEW bj, DOMAIN bj = DOMAIN bi \cup {b}, bj[b] = n,
         \A x \in DOMAIN bi : x # b => bj[x] = bi[x]
  PROVE  FileTable(Append(files, RealPath[b]), named \cup {RealPath[b]}, bj, n + 1)
<1>1. PICK v, s, all : v = RealPath[b] /\ s = Append(files, v) /\ all = named \cup {v}
  OBVIOUS
<1>2. files \in Seq(all) /\ Len(files) = n /\ v \in all
  <2>1. files \in Seq(named) /\ Len(files) = n
    BY DEF FileTable
  <2>2. \A i \in 1..Len(files) : files[i] \in all
    BY <1>1, <2>1
  <2> QED BY <1>1, <2>1, <2>2, SeqIn
<1>3. /\ s \in Seq(all) /\ Len(s) = n + 1 /\ s[n + 1] = v
      /\ \A k \in 0..(n - 1) : s[k + 1] = files[k + 1]
  <2>1. /\ s \in Seq(all) /\ Len(s) = Len(files) + 1 /\ s[Len(files) + 1] = v
        /\ \A k \in 0..(Len(files) - 1) : s[k + 1] = files[k + 1]
    BY <1>1, <1>2, OneMore
  <2> QED BY <1>2, <2>1
<1>4. ASSUME NEW x \in DOMAIN bj PROVE s[bj[x] + 1] = RealPath[x]
  <2>1. CASE x = b
    BY <1>1, <1>3, <2>1
  <2>2. CASE x # b
    <3>1. x \in DOMAIN bi /\ bj[x] = bi[x] /\ bi[x] \in 0..(n - 1)
      BY <2>2
    <3>2. files[bi[x] + 1] = RealPath[x]
      BY <3>1 DEF FileTable
    <3>3. s[bi[x] + 1] = files[bi[x] + 1]
      BY <1>3, <3>1
    <3> QED BY <3>1, <3>2, <3>3
  <2> QED BY <2>1, <2>2
<1>5. all = {RealPath[x] : x \in DOMAIN bj}
  <2>1. named = {RealPath[x] : x \in DOMAIN bi}
    BY DEF FileTable
  <2> QED BY <1>1, <2>1
<1>6. FileTable(s, all, bj, n + 1)
  BY <1>3, <1>4, <1>5 DEF FileTable
<1> QED BY <1>1, <1>6

(* The definition of a symbol is read as it was meant. *)
LEMMA DefinesPut ==
  ASSUME NEW i, InfoFits(i), NEW d \in Nat, NEW a \in Addresses,
         NEW c, Rounded(i.symcache, c, a), Defines(i, c, d, a),
         NEW j, j = PutFrame(i, d, a),
         NEW t, t = Frame(d, i.nsyms, TRUE, File(BinaryOf[a], c.binId[BinaryOf[a]], FALSE), a)
  PROVE  /\ FramePut(i, j, t, a)
         /\ \A r : CanRead(r, i, d) =>
              Reached(r, ReadToken(r, t), Child(r, d, a)) /\ SymbolsFit(ReadToken(r, t), j)
<1>1. PICK ns, nl, nc, sc, ids, out, no :
        /\ no = FALSE /\ ns = i.nsyms /\ nl = i.nlibs /\ nc = i.nctrs /\ sc = i.symcache
        /\ ids = i.ids /\ out = i.out
  OBVIOUS
<1>2. /\ ns \in Nat /\ nl \in Nat /\ nc \in Nat /\ CacheOK(sc) /\ out \in Seq(Token)
      /\ \A x \in DOMAIN sc.symId : sc.symId[x] \in 0..(ns - 1)
      /\ \A b \in DOMAIN sc.binId : sc.binId[b] \in 0..(nl - 1)
      /\ ids \in [CounterDefs -> Int]
      /\ \A x \in CounterDefs : ids[x] = -1 \/ ids[x] \in 0..(nc - 1)
  BY <1>1 DEF InfoFits
<1>3. PICK b, m, id : b = BinaryOf[a] /\ m = Numbered(c, a, ns) /\ id = c.binId[b]
  OBVIOUS
<1>4. /\ a \notin DOMAIN sc.symId /\ b \in DOMAIN sc.binId /\ id = sc.binId[b]
      /\ id \in 0..(nl - 1)
      /\ j = InfoOf(ns + 1, nl, nc, m, ids, Append(out, t), no)
  BY <1>1, <1>2, <1>3 DEF Defines
<1>5. t \in Token
  <2>1. id \in Nat \cup {-1}
    BY <1>2, <1>4
  <2>2. TRUE \in BOOLEAN /\ FALSE \in BOOLEAN
    OBVIOUS
  <2>3. t = Frame(d, ns, TRUE, File(BinaryOf[a], id, FALSE), a)
    BY <1>1, <1>3
  <2> QED BY <1>2, <2>1, <2>2, <2>3, FrameIsToken, Zenon
<1>6. PICK o, nt : o = Append(out, t) /\ nt = ns + 1
  OBVIOUS
<1>7. j = InfoOf(nt, nl, nc, m, ids, o, no)
  BY <1>4, <1>6
<1>8. /\ j.nsyms = nt /\ j.nlibs = nl /\ j.nctrs = nc /\ j.symcache = m /\ j.ids = ids /\ j.out = o
  BY <1>7 DEF InfoOf
<1>9. /\ CacheOK(c) /\ DOMAIN c.symId = DOMAIN sc.symId \cup {a}
      /\ \A x \in DOMAIN sc.symId : c.symId[x] = sc.symId[x]
      /\ DOMAIN c.binId = DOMAIN sc.binId
      /\ \A x \in DOMAIN sc.binId : c.binId[x] = sc.binId[x]
  BY <1>1, <1>3, <1>4 DEF Rounded
<1>10. CacheOK(m) /\ m.symId = [c.symId EXCEPT ![a] = ns] /\ m.binId = c.binId
  BY <1>3, <1>9, NumberedCache
<1>11. /\ DOMAIN m.symId = DOMAIN sc.symId \cup {a} /\ m.symId[a] = ns
       /\ \A x \in DOMAIN sc.symId : x # a => m.symId[x] = sc.symId[x]
  BY <1>9, <1>10
<1>12. \A x \in DOMAIN m.symId : m.symId[x] \in 0..(nt - 1)
  <2> SUFFICES ASSUME NEW x \in DOMAIN m.symId PROVE m.symId[x] \in 0..(nt - 1)
    OBVIOUS
  <2>1. CASE x = a
    BY <1>2, <1>6, <1>11, <2>1
  <2>2. CASE x # a
    <3>1. m.symId[x] \in 0..(ns - 1)
      BY <1>2, <1>11, <2>2
    <3> QED BY <1>2, <1>6, <3>1
  <2> QED BY <2>1, <2>2
<1>13. InfoFits(j)
  <2>1. \A x \in DOMAIN m.binId : m.binId[x] \in 0..(nl - 1)
    BY <1>2, <1>9, <1>10
  <2>2. o \in Seq(Token)
    BY <1>2, <1>5, <1>6, AppendProperties
  <2>3. CacheOK(m) /\ no = FALSE
    BY <1>1, <1>10
  <2>4. /\ nt \in Nat /\ nl \in Nat /\ nc \in Nat /\ ids \in [CounterDefs -> Int]
        /\ \A x \in CounterDefs : ids[x] = -1 \/ ids[x] \in 0..(nc - 1)
    BY <1>2, <1>6
  <2> QED BY <1>7, <1>12, <2>1, <2>2, <2>3, <2>4, InfoFitsOf
<1>14. FramePut(i, j, t, a)
  BY <1>1, <1>5, <1>6, <1>8, <1>11, <1>13 DEF FramePut
<1>15. ASSUME NEW r, CanRead(r, i, d)
       PROVE  Reached(r, ReadToken(r, t), Child(r, d, a)) /\ SymbolsFit(ReadToken(r, t), j)
  <2>1. /\ IsReader(r) /\ r.expects = "line" /\ r.nodestack \in Seq(Names)
        /\ d - 1 <= Len(r.nodestack)
        /\ SymbolTable(r.symbols, sc.symId, ns)
        /\ FileTable(r.files, r.namedFiles, sc.binId, nl)
    BY <1>1, <1>15 DEF CanRead, SymbolsFit
  <2>2. /\ r.symbols \in Seq(Names) /\ Len(r.symbols) = ns
        /\ r.files \in Seq(r.namedFiles) /\ Len(r.files) = nl /\ r.files[id + 1] = RealPath[b]
    BY <1>4, <2>1 DEF SymbolTable, FileTable
  <2>3. PICK f, w, path : /\ f = File(b, id, FALSE) /\ w = WithSymbol(r, ReadName(a))
                          /\ path = Child(r, d, a)
    OBVIOUS
  <2>4. f.id = id /\ f.defines = FALSE
    BY <2>3 DEF File
  <2>5. ReadToken(r, Frame(d, Len(r.symbols), TRUE, f, a)) = Moved(w, path)
    <3>1. f.id \in 0..(Len(r.files) - 1) /\ r.files[f.id + 1] = RealPath[BinaryOf[a]]
      BY <1>3, <1>4, <2>2, <2>4
    <3> QED BY <2>1, <2>2, <2>3, <2>4, <3>1, DefineRead
  <2>6. PICK q : q = Moved(w, path)
    OBVIOUS
  <2>7. ReadToken(r, t) = q
    BY <1>1, <1>3, <2>2, <2>3, <2>5, <2>6
  <2>8. /\ IsReader(w) /\ w.symbols = Append(r.symbols, ReadName(a)) /\ w.cost = r.cost
        /\ w.key = r.key /\ w.keys = r.keys /\ w.files = r.files /\ w.namedFiles = r.namedFiles
    BY <2>1, <2>3, WithSymbolIs
  <2>9. Reached(w, q, path)
    BY <2>6, <2>8, MovedIs DEF Reached
  <2>10. Reached(r, q, path)
    BY <2>8, <2>9 DEF Reached
  <2>11. q.symbols = w.symbols /\ q.files = w.files /\ q.namedFiles = w.namedFiles
    BY <2>6, <2>8, MovedIs
  <2>12. SymbolTable(q.symbols, m.symId, nt)
    <3>1. PICK sy, si, sj : sy = r.symbols /\ si = sc.symId /\ sj = m.symId
      OBVIOUS
    <3>2. /\ SymbolTable(sy, si, ns) /\ DOMAIN sj = DOMAIN si \cup {a} /\ sj[a] = ns
          /\ \A x \in DOMAIN si : si[x] \in 0..(ns - 1)
          /\ \A x \in DOMAIN si : x # a => sj[x] = si[x]
      BY <1>2, <1>11, <2>1, <3>1
    <3>3. SymbolTable(Append(sy, ReadName(a)), sj, ns + 1)
      BY <1>2, <3>2, SymbolEntered
    <3> QED BY <1>6, <2>8, <2>11, <3>1, <3>3
  <2>13. FileTable(q.files, q.namedFiles, m.binId, nl)
    BY <1>9, <1>10, <2>1, <2>8, <2>11 DEF FileTable
  <2>14. SymbolsFit(q, j)
    BY <1>8, <2>12, <2>13 DEF SymbolsFit
  <2> QED BY <2>3, <2>7, <2>10, <2>14
<1> QED BY <1>14, <1>15

(* So is that of a symbol in a new binary, if its file is not known yet. *)
LEMMA DefinesFilePut ==
  ASSUME NEW i, InfoFits(i), NEW d \in Nat, NEW a \in Addresses,
         NEW c, Rounded(i.symcache, c, a), DefinesFile(i, c, d, a),
         NEW j, j = PutFrame(i, d, a),
         NEW t, t = Frame(d, i.nsyms, TRUE, File(BinaryOf[a], i.nlibs, TRUE), a)
  PROVE  /\ FramePut(i, j, t, a)
         /\ \A r : CanRead(r, i, d) /\ RealPath[BinaryOf[a]] \notin r.namedFiles =>
              Reached(r, ReadToken(r, t), Child(r, d, a)) /\ SymbolsFit(ReadToken(r, t), j)
<1>1. PICK ns, nl, nc, sc, ids, out, no :
        /\ no = FALSE /\ ns = i.nsyms /\ nl = i.nlibs /\ nc = i.nctrs /\ sc = i.symcache
        /\ ids = i.ids /\ out = i.out
  OBVIOUS
<1>2. /\ ns \in Nat /\ nl \in Nat /\ nc \in Nat /\ CacheOK(sc) /\ out \in Seq(Token)
      /\ \A x \in DOMAIN sc.symId : sc.symId[x] \in 0..(ns - 1)
      /\ \A b \in DOMAIN sc.binId : sc.binId[b] \in 0..(nl - 1)
      /\ ids \in [CounterDefs -> Int]
      /\ \A x \in CounterDefs : ids[x] = -1 \/ ids[x] \in 0..(nc - 1)
  BY <1>1 DEF InfoFits
<1>3. PICK b, m, k : b = BinaryOf[a] /\ m = Numbered(c, a, ns) /\ k = NumberedFile(m, b, nl)
  OBVIOUS
<1>4. /\ a \notin DOMAIN sc.symId /\ b \notin DOMAIN sc.binId
      /\ j = InfoOf(ns + 1, nl + 1, nc, k, ids, Append(out, t), no)
  BY <1>1, <1>2, <1>3 DEF DefinesFile
<1>5. t \in Token
  <2>1. nl \in Nat \cup {-1}
    BY <1>2
  <2>2. TRUE \in BOOLEAN
    OBVIOUS
  <2>3. t = Frame(d, ns, TRUE, File(BinaryOf[a], nl, TRUE), a)
    BY <1>1
  <2> QED BY <1>2, <2>1, <2>2, <2>3, FrameIsToken, Zenon
<1>6. PICK o, nt, mt : o = Append(out, t) /\ nt = ns + 1 /\ mt = nl + 1
  OBVIOUS
<1>7. j = InfoOf(nt, mt, nc, k, ids, o, no)
  BY <1>4, <1>6
<1>8. /\ j.nsyms = nt /\ j.nlibs = mt /\ j.nctrs = nc /\ j.symcache = k /\ j.ids = ids /\ j.out = o
  BY <1>7 DEF InfoOf
<1>9. /\ CacheOK(c) /\ DOMAIN c.symId = DOMAIN sc.symId \cup {a}
      /\ \A x \in DOMAIN sc.symId : c.symId[x] = sc.symId[x]
      /\ DOMAIN c.binId = DOMAIN sc.binId \cup {b}
      /\ \A x \in DOMAIN sc.binId : c.binId[x] = sc.binId[x]
  BY <1>1, <1>3, <1>4 DEF Rounded
<1>10. CacheOK(m) /\ m.symId = [c.symId EXCEPT ![a] = ns] /\ m.binId = c.binId
  BY <1>3, <1>9, NumberedCache
<1>11. CacheOK(k) /\ k.symId = m.symId /\ k.binId = [m.binId EXCEPT ![b] = nl]
  BY <1>3, <1>9, <1>10, NumberedFileCache
<1>12. /\ DOMAIN k.symId = DOMAIN sc.symId \cup {a} /\ k.symId[a] = ns
       /\ \A x \in DOMAIN sc.symId : x # a => k.symId[x] = sc.symId[x]
       /\ DOMAIN k.binId = DOMAIN sc.binId \cup {b} /\ k.binId[b] = nl
       /\ \A x \in DOMAIN sc.binId : x # b => k.binId[x] = sc.binId[x]
  BY <1>9, <1>10, <1>11
<1>13. /\ \A x \in DOMAIN k.symId : k.symId[x] \in 0..(nt - 1)
       /\ \A x \in DOMAIN k.binId : k.binId[x] \in 0..(mt - 1)
  <2>1. ASSUME NEW x \in DOMAIN k.symId PROVE k.symId[x] \in 0..(nt - 1)
    <3>1. CASE x = a
      BY <1>2, <1>6, <1>12, <3>1
    <3>2. CASE x # a
      <4>1. k.symId[x] \in 0..(ns - 1)
        BY <1>2, <1>12, <3>2
      <4> QED BY <1>2, <1>6, <4>1
    <3> QED BY <3>1, <3>2
  <2>2. ASSUME NEW x \in DOMAIN k.binId PROVE k.binId[x] \in 0..(mt - 1)
    <3>1. CASE x = b
      BY <1>2, <1>6, <1>12, <3>1
    <3>2. CASE x # b
      <4>1. k.binId[x] \in 0..(nl - 1)
        BY <1>2, <1>12, <3>2
      <4> QED BY <1>2, <1>6, <4>1
    <3> QED BY <3>1, <3>2
  <2> QED BY <2>1, <2>2
<1>14. InfoFits(j)
  <2>1. o \in Seq(Token)
    BY <1>2, <1>5, <1>6, AppendProperties
  <2>2. CacheOK(k) /\ no = FALSE
    BY <1>1, <1>11
  <2>3. /\ nt \in Nat /\ mt \in Nat /\ nc \in Nat /\ ids \in [CounterDefs -> Int]
        /\ \A x \in CounterDefs : ids[x] = -1 \/ ids[x] \in 0..(nc - 1)
    BY <1>2, <1>6
  <2> QED BY <1>7, <1>13, <2>1, <2>2, <2>3, InfoFitsOf
<1>15. FramePut(i, j, t, a)
  BY <1>1, <1>5, <1>6, <1>8, <1>12, <1>14 DEF FramePut
<1>16. ASSUME NEW r, CanRead(r, i, d), RealPath[BinaryOf[a]] \notin r.namedFiles
       PROVE  Reached(r, ReadToken(r, t), Child(r, d, a)) /\ SymbolsFit(ReadToken(r, t), j)
  <2>1. /\ IsReader(r) /\ r.expects = "line" /\ r.nodestack \in Seq(Names)
        /\ d - 1 <= Len(r.nodestack)
        /\ SymbolTable(r.symbols, sc.symId, ns)
        /\ FileTable(r.files, r.namedFiles, sc.binId, nl)
    BY <1>1, <1>16 DEF CanRead, SymbolsFit
  <2>2. /\ r.symbols \in Seq(Names) /\ Len(r.symbols) = ns
        /\ r.files \in Seq(r.namedFiles) /\ Len(r.files) = nl
    BY <1>4, <2>1 DEF SymbolTable, FileTable
  <2>3. PICK f, v, w, path : /\ f = File(b, nl, TRUE) /\ v = WithFile(r, RealPath[b])
                             /\ w = WithSymbol(v, ReadName(a))
                             /\ path = Child(r, d, a)
    OBVIOUS
  <2>4. f.id = nl /\ f.defines = TRUE /\ f.name = b
    BY <2>3 DEF File
  <2>5. ReadToken(r, Frame(d, Len(r.symbols), TRUE, f, a)) = Moved(w, path)
    <3>1. f.id = Len(r.files) /\ f.name = BinaryOf[a] /\ f.defines = TRUE
      BY <1>3, <2>2, <2>4
    <3>2. ReadToken(r, Frame(d, Len(r.symbols), TRUE, f, a)) =
            Moved(WithSymbol(WithFile(r, RealPath[BinaryOf[a]]), ReadName(a)), Child(r, d, a))
      BY <1>16, <2>1, <2>2, <3>1, DefineFileRead
    <3> QED BY <1>3, <2>3, <3>2
  <2>6. PICK q : q = Moved(w, path)
    OBVIOUS
  <2>7. ReadToken(r, t) = q
    BY <1>1, <1>3, <2>2, <2>3, <2>5, <2>6
  <2>8. /\ IsReader(v) /\ v.symbols = r.symbols /\ v.cost = r.cost
        /\ v.key = r.key /\ v.keys = r.keys /\ v.files = Append(r.files, RealPath[b])
        /\ v.namedFiles = r.namedFiles \cup {RealPath[b]}
    BY <2>1, <2>3, WithFileIs
  <2>9. /\ IsReader(w) /\ w.symbols = Append(v.symbols, ReadName(a)) /\ w.cost = v.cost
        /\ w.key = v.key /\ w.keys = v.keys /\ w.files = v.files /\ w.namedFiles = v.namedFiles
    BY <2>3, <2>8, WithSymbolIs
  <2>10. Reached(w, q, path)
    BY <2>6, <2>9, MovedIs DEF Reached
  <2>11. Reached(r, q, path)
    BY <2>8, <2>9, <2>10 DEF Reached
  <2>12. q.symbols = w.symbols /\ q.files = w.files /\ q.namedFiles = w.namedFiles
    BY <2>6, <2>9, MovedIs
  <2>13. SymbolTable(q.symbols, k.symId, nt)
    <3>1. PICK sy, si, sj : sy = r.symbols /\ si = sc.symId /\ sj = k.symId
      OBVIOUS
    <3>2. /\ SymbolTable(sy, si, ns) /\ DOMAIN sj = DOMAIN si \cup {a} /\ sj[a] = ns
          /\ \A x \in DOMAIN si : si[x] \in 0..(ns - 1)
          /\ \A x \in DOMAIN si : x # a => sj[x] = si[x]
      BY <1>2, <1>12, <2>1, <3>1
    <3>3. SymbolTable(Append(sy, ReadName(a)), sj, ns + 1)
      BY <1>2, <3>2, SymbolEntered
    <3> QED BY <1>6, <2>8, <2>9, <2>12, <3>1, <3>3
  <2>14. FileTable(q.files, q.namedFiles, k.binId, mt)
    <3>1. PICK fi, nf, bi, bj : fi = r.files /\ nf = r.namedFiles /\ bi = sc.binId /\ bj = k.binId
      OBVIOUS
    <3>2. /\ FileTable(fi, nf, bi, nl) /\ DOMAIN bj = DOMAIN bi \cup {b} /\ bj[b] = nl
          /\ \A x \in DOMAIN bi : bi[x] \in 0..(nl - 1)
          /\ \A x \in DOMAIN bi : x # b => bj[x] = bi[x]
      BY <1>2, <1>12, <2>1, <3>1
    <3>3. FileTable(Append(fi, RealPath[b]), nf \cup {RealPath[b]}, bj, nl + 1)
      BY <1>2, <3>2, FileEntered
    <3> QED BY <1>6, <2>8, <2>9, <2>12, <3>1, <3>3
  <2>15. SymbolsFit(q, j)
    BY <1>8, <2>13, <2>14 DEF SymbolsFit
  <2> QED BY <2>3, <2>7, <2>11, <2>15
<1> QED BY <1>15, <1>16

(* The line of a frame is read as it was meant, unless its binary resolves *)
(* to the file of another one.                                             *)
LEMMA FrameWrittenAndRead ==
  ASSUME NEW i, InfoFits(i), NEW d \in Nat, NEW a \in Addresses
  PROVE  \E t : /\ FramePut(i, PutFrame(i, d, a), t, a)
                /\ \A r : /\ CanRead(r, i, d)
                          /\ \A x \in DOMAIN i.symcache.symId :
                               RealPath[BinaryOf[x]] = RealPath[BinaryOf[a]] => BinaryOf[x] = BinaryOf[a]
                          => /\ Reached(r, ReadToken(r, t), Child(r, d, a))
                             /\ SymbolsFit(ReadToken(r, t), PutFrame(i, d, a))
<1>1. PICK c, j : c = roundAddressToSymbol(i.symcache, a) /\ j = PutFrame(i, d, a)
  OBVIOUS
<1>2. /\ Rounded(i.symcache, c, a)
      /\ Refers(i, c, d, a) \/ Defines(i, c, d, a) \/ DefinesFile(i, c, d, a)
  BY <1>1, PutFrameIs
<1>3. CASE Refers(i, c, d, a)
  <2>1. PICK t : t = Frame(d, c.symId[a], FALSE, File(BinaryOf[a], -1, FALSE), a)
    OBVIOUS
  <2> QED BY <1>1, <1>2, <1>3, <2>1, RefersPut
<1>4. CASE Defines(i, c, d, a)
  <2>1. PICK t : t = Frame(d, i.nsyms, TRUE, File(BinaryOf[a], c.binId[BinaryOf[a]], FALSE), a)
    OBVIOUS
  <2> QED BY <1>1, <1>2, <1>4, <2>1, DefinesPut
<1>5. CASE DefinesFile(i, c, d, a)
  <2>1. PICK t : t = Frame(d, i.nsyms, TRUE, File(BinaryOf[a], i.nlibs, TRUE), a)
    OBVIOUS
  <2>2. /\ FramePut(i, j, t, a)
        /\ \A r : CanRead(r, i, d) /\ RealPath[BinaryOf[a]] \notin r.namedFiles =>
             Reached(r, ReadToken(r, t), Child(r, d, a)) /\ SymbolsFit(ReadToken(r, t), j)
    BY <1>1, <1>2, <1>5, <2>1, DefinesFilePut
  <2>3. BinaryOf[a] \notin DOMAIN i.symcache.binId
    BY <1>5 DEF DefinesFile
  <2>4. DOMAIN i.symcache.binId = {BinaryOf[x] : x \in DOMAIN i.symcache.symId}
    BY DEF InfoFits, CacheOK
  <2>5. ASSUME NEW r, CanRead(r, i, d),
               \A x \in DOMAIN i.symcache.symId :
                 RealPath[BinaryOf[x]] = RealPath[BinaryOf[a]] => BinaryOf[x] = BinaryOf[a]
        PROVE  RealPath[BinaryOf[a]] \notin r.namedFiles
    <3>1. r.namedFiles = {RealPath[b] : b \in DOMAIN i.symcache.binId}
      BY <2>5 DEF CanRead, SymbolsFit, FileTable
    <3> SUFFICES ASSUME RealPath[BinaryOf[a]] \in r.namedFiles PROVE FALSE
      OBVIOUS
    <3>2. PICK b \in DOMAIN i.symcache.binId : RealPath[b] = RealPath[BinaryOf[a]]
      BY <3>1
    <3>3. PICK x \in DOMAIN i.symcache.symId : b = BinaryOf[x]
      BY <2>4, <3>2
    <3> QED BY <2>3, <2>5, <3>2, <3>3
  <2> QED BY <1>1, <2>2, <2>5
<1> QED BY <1>2, <1>3, <1>4, <1>5

-----------------------------------------------------------------------------
(* A counter, written and read *)

(* A definition that has a number keeps it, another one gets the next. *)
NumberOf(i, ct) == IF i.ids[ct.def] = -1 THEN i.nctrs ELSE i.ids[ct.def]

CounterOf(i, ct) ==
  [k |-> "V", id |-> NumberOf(i, ct), defines |-> i.ids[ct.def] = -1, name |-> ct.def,
   ticks |-> ct.ticks, value |-> ct.value, peak |-> ct.peak, leaks |-> Leaks(ct)]

NextNumber(i, ct) == IF i.ids[ct.def] = -1 THEN i.nctrs + 1 ELSE i.nctrs

CounterPut(i, j, t, ct) ==
  /\ InfoFits(j) /\ t \in Token /\ j.out = Append(i.out, t)
  /\ j.nsyms = i.nsyms /\ j.nlibs = i.nlibs /\ j.symcache = i.symcache
  /\ j.nctrs = NextNumber(i, ct) /\ j.ids = [i.ids EXCEPT ![ct.def] = NumberOf(i, ct)]

(* What PutCounter() does with a counter that has counted something *)
LEMMA PutCounterIs ==
  ASSUME NEW i, InfoFits(i), NEW ct \in Counter, ~ (ct.ticks = 0 /\ ct.peak = 0),
         NEW j, j = PutCounter(i, ct), NEW t, t = CounterOf(i, ct)
  PROVE  CounterPut(i, j, t, ct)
<1>1. PICK ns, nl, nc, sc, ids, out, no, def :
        /\ no = FALSE /\ ns = i.nsyms /\ nl = i.nlibs /\ nc = i.nctrs /\ sc = i.symcache
        /\ ids = i.ids /\ out = i.out /\ def = ct.def
  OBVIOUS
<1>2. /\ i = InfoOf(ns, nl, nc, sc, ids, out, no)
      /\ ns \in Nat /\ nl \in Nat /\ nc \in Nat /\ CacheOK(sc) /\ out \in Seq(Token)
      /\ \A x \in DOMAIN sc.symId : sc.symId[x] \in 0..(ns - 1)
      /\ \A b \in DOMAIN sc.binId : sc.binId[b] \in 0..(nl - 1)
      /\ ids \in [CounterDefs -> Int]
      /\ \A x \in CounterDefs : ids[x] = -1 \/ ids[x] \in 0..(nc - 1)
  BY <1>1 DEF InfoFits, InfoOf
<1>3. def \in CounterDefs
  BY <1>1 DEF Counter
<1>4. PICK id, nn, o : id = NumberOf(i, ct) /\ nn = NextNumber(i, ct) /\ o = Append(out, t)
  OBVIOUS
<1>5. ids[def] < 0 <=> ids[def] = -1
  BY <1>2, <1>3
<1>6. /\ id = IF ids[def] < 0 THEN nc ELSE ids[def]
      /\ nn = IF ids[def] < 0 THEN nc + 1 ELSE nc
  BY <1>1, <1>4, <1>5 DEF NumberOf, NextNumber
<1>7. j = [Put(i, t) EXCEPT !.ids[def] = id,
                            !.nctrs = IF ids[def] < 0 THEN @ + 1 ELSE @]
  <2>1. t = [k |-> "V", id |-> id, defines |-> ids[def] < 0, name |-> def,
             ticks |-> ct.ticks, value |-> ct.value, peak |-> ct.peak, leaks |-> Leaks(ct)]
    BY <1>1, <1>4, <1>5 DEF CounterOf
  <2> QED BY <1>1, <1>6, <2>1 DEF PutCounter
<1>8. PICK ids1 : ids1 = [ids EXCEPT ![def] = id]
  OBVIOUS
<1>9. PICK p : p = Put(i, t)
  OBVIOUS
<1>10. p = InfoOf(ns, nl, nc, sc, ids, o, no)
  BY <1>2, <1>4, <1>9, InfoPut
<1>11. PICK q : q = [p EXCEPT !.ids = ids1]
  OBVIOUS
<1>12. q = InfoOf(ns, nl, nc, sc, ids1, o, no)
  BY <1>10, <1>11 DEF InfoOf
<1>13. PICK q2 : q2 = [q EXCEPT !.nctrs = nn]
  OBVIOUS
<1>14. q2 = InfoOf(ns, nl, nn, sc, ids1, o, no)
  BY <1>12, <1>13 DEF InfoOf
<1>15. p.ids = ids /\ p.nctrs = nc
  BY <1>10 DEF InfoOf
<1>16. j = q2
  BY <1>6, <1>7, <1>8, <1>9, <1>11, <1>13, <1>15
<1>17. /\ j.nsyms = ns /\ j.nlibs = nl /\ j.nctrs = nn /\ j.symcache = sc /\ j.ids = ids1
       /\ j.out = o
  BY <1>14, <1>16 DEF InfoOf
<1>18. id \in 0..(nn - 1) /\ nn \in Nat /\ nc <= nn
  BY <1>2, <1>3, <1>5, <1>6
<1>19. t \in Token
  <2>1. /\ ct.ticks \in Nat /\ ct.value \in Nat /\ ct.peak \in Nat /\ id \in Nat
    BY <1>18 DEF Counter
  <2>2. t \in CounterToken
    <3>1. PICK y, L, lk : y = (ids[def] = -1) /\ L = {Leaks(c) : c \in Counter} /\ lk = Leaks(ct)
      OBVIOUS
    <3>2. lk \in L
      BY <3>1
    <3>3. y \in BOOLEAN
      BY <3>1
    <3>4. t = [k |-> "V", id |-> id, defines |-> y, name |-> def,
               ticks |-> ct.ticks, value |-> ct.value, peak |-> ct.peak, leaks |-> lk]
      BY <1>1, <1>4, <3>1 DEF CounterOf
    <3> QED BY <1>3, <2>1, <3>1, <3>2, <3>3, <3>4 DEF CounterToken
  <2> QED BY <2>2 DEF Token
<1>20. InfoFits(j)
  <2>1. o \in Seq(Token)
    BY <1>2, <1>4, <1>19, AppendProperties
  <2>2. ids1 \in [CounterDefs -> Int]
    BY <1>2, <1>3, <1>8, <1>18
  <2>3. \A x \in CounterDefs : ids1[x] = -1 \/ ids1[x] \in 0..(nn - 1)
    <3> SUFFICES ASSUME NEW x \in CounterDefs PROVE ids1[x] = -1 \/ ids1[x] \in 0..(nn - 1)
      OBVIOUS
    <3>1. CASE x = def
      BY <1>2, <1>8, <1>18, <3>1
    <3>2. CASE x # def
      <4>1. ids1[x] = ids[x]
        BY <1>2, <1>8, <3>2
      <4>2. ids[x] = -1 \/ ids[x] \in 0..(nc - 1)
        BY <1>2
      <4> QED BY <1>2, <1>18, <4>1, <4>2
    <3> QED BY <3>1, <3>2
  <2>4. CacheOK(sc) /\ no = FALSE /\ j = InfoOf(ns, nl, nn, sc, ids1, o, no)
    BY <1>1, <1>2, <1>14, <1>16
  <2>5. /\ ns \in Nat /\ nl \in Nat /\ nn \in Nat
        /\ \A x \in DOMAIN sc.symId : sc.symId[x] \in 0..(ns - 1)
        /\ \A b \in DOMAIN sc.binId : sc.binId[b] \in 0..(nl - 1)
    BY <1>2, <1>18
  <2> QED BY <2>1, <2>2, <2>3, <2>4, <2>5, InfoFitsOf
<1> QED BY <1>1, <1>4, <1>8, <1>17, <1>19, <1>20 DEF CounterPut

(* What a counter adds to its call path *)
Charged(cost, path, ct) ==
  [cost EXCEPT ![path].freq = @ + ct.ticks, ![path].cnt = @ + ct.value]

CanCount(r, i) == IsReader(r) /\ r.expects = "counter" /\ KeyTable(r, i)

CounterRead(r, q, ct) ==
  /\ IsReader(q) /\ q.key # "" /\ (r.key # "" => q.key = r.key)
  /\ q.nodestack = r.nodestack /\ q.expects = r.expects
  /\ q.symbols = r.symbols /\ q.files = r.files /\ q.namedFiles = r.namedFiles
  /\ q.cost = IF ct.def = q.key THEN Charged(r.cost, r.nodestack, ct) ELSE r.cost

(* The key is the one asked for, or the first that comes. *)
KeyOf(r, i, ct) == IF i.ids[ct.def] = -1 /\ r.key = "" THEN ct.def ELSE r.key

(* What ReadCounter() works with *)
KeyRead(r, token) == IF token.defines /\ r.key = "" THEN token.name ELSE r.key

KeysRead(r, token) ==
  IF token.defines THEN Set(r.keys, token.id, token.name = KeyRead(r, token), FALSE) ELSE r.keys

ReadWith(r, token, key, keys) ==
  IF token.id >= Len(keys) THEN Stopped(r, "undefined")
  ELSE IF ~ keys[token.id + 1] THEN [r EXCEPT !.key = key, !.keys = keys]
  ELSE [[r EXCEPT !.key = key, !.keys = keys] EXCEPT !.cost[r.nodestack].freq = @ + token.ticks,
                                                     !.cost[r.nodestack].cnt = @ + token.value]

(* A counter that is written is read as it was meant, and the numbers still fit. *)
LEMMA CounterIsRead ==
  ASSUME NEW i, InfoFits(i), NEW ct \in Counter, NEW j, NEW t, t = CounterOf(i, ct),
         CounterPut(i, j, t, ct), NEW r, CanCount(r, i)
  PROVE  /\ CounterRead(r, ReadToken(r, t), ct)
         /\ KeyTable(ReadToken(r, t), j)
<1>1. PICK ids, nc, def, id, key, keys, s :
        /\ ids = i.ids /\ nc = i.nctrs /\ def = ct.def /\ id = NumberOf(i, ct)
        /\ key = KeyOf(r, i, ct) /\ s = r.keys
        /\ keys = IF ids[def] = -1 THEN Append(r.keys, def = key) ELSE r.keys
  OBVIOUS
<1>2. /\ nc \in Nat /\ ids \in [CounterDefs -> Int]
      /\ \A x \in CounterDefs : ids[x] = -1 \/ ids[x] \in 0..(nc - 1)
      /\ def \in CounterDefs /\ def # ""
  BY <1>1, DefsAssumption DEF InfoFits, Counter
<1>3. /\ IsReader(r) /\ r.expects = "counter"
      /\ s \in Seq(BOOLEAN) /\ Len(s) = nc
      /\ \A c \in CounterDefs : ids[c] # -1 => (s[ids[c] + 1] <=> c = r.key)
      /\ r.key = "" => nc = 0
  BY <1>1 DEF CanCount, KeyTable
<1>4. /\ id = IF ids[def] = -1 THEN nc ELSE ids[def]
      /\ key = IF ids[def] = -1 /\ r.key = "" THEN def ELSE r.key
      /\ j.nctrs = IF ids[def] = -1 THEN nc + 1 ELSE nc
      /\ j.ids = [ids EXCEPT ![def] = id]
  BY <1>1 DEF NumberOf, KeyOf, CounterPut, NextNumber
<1>a. ids[def] = -1 \/ ids[def] \in 0..(nc - 1)
  BY <1>2
<1>d. nc \in Nat
  BY <1>2
<1>5. key # "" /\ (r.key # "" => key = r.key)
  <2>1. CASE ids[def] = -1
    BY <1>2, <1>4, <2>1
  <2>2. CASE ids[def] # -1
    <3>1. nc # 0
      BY <1>a, <1>d, <2>2
    <3>2. key = r.key
      BY <1>4, <2>2
    <3>3. r.key # ""
      BY <1>3, <3>1
    <3> QED BY <3>2, <3>3
  <2> QED BY <2>1, <2>2
<1>6. /\ keys \in Seq(BOOLEAN) /\ Len(keys) = j.nctrs
      /\ keys[id + 1] <=> def = key
      /\ \A k \in 0..(nc - 1) : keys[k + 1] = s[k + 1]
  <2>1. CASE ids[def] = -1
    <3>1. PICK y : y = (def = key)
      OBVIOUS
    <3>2. y \in BOOLEAN
      BY <3>1
    <3>3. keys = Append(s, y) /\ id = nc
      BY <1>1, <1>4, <2>1, <3>1
    <3>4. /\ Append(s, y) \in Seq(BOOLEAN) /\ Len(Append(s, y)) = Len(s) + 1
          /\ Append(s, y)[Len(s) + 1] = y
          /\ \A k \in 0..(Len(s) - 1) : Append(s, y)[k + 1] = s[k + 1]
      <4>1. PICK B : B = BOOLEAN
        OBVIOUS
      <4>2. s \in Seq(B) /\ y \in B
        BY <1>3, <3>2, <4>1, Zenon
      <4>3. /\ Append(s, y) \in Seq(B) /\ Len(Append(s, y)) = Len(s) + 1
            /\ Append(s, y)[Len(s) + 1] = y
            /\ \A k \in 0..(Len(s) - 1) : Append(s, y)[k + 1] = s[k + 1]
        BY <4>2, OneMore
      <4> QED BY <4>1, <4>3, Zenon
    <3>5. /\ keys \in Seq(BOOLEAN) /\ Len(keys) = nc + 1
      BY <1>3, <3>3, <3>4, Zenon
    <3>6. keys[nc + 1] = y
      BY <1>3, <3>3, <3>4, Zenon
    <3>7. \A k \in 0..(nc - 1) : keys[k + 1] = s[k + 1]
      BY <1>3, <3>3, <3>4, Zenon
    <3>8. j.nctrs = nc + 1
      BY <1>4, <2>1
    <3>9. keys[id + 1] = y
      BY <3>3, <3>6, Zenon
    <3>10. keys[id + 1] <=> def = key
      BY <3>1, <3>9, Zenon
    <3> QED BY <3>5, <3>7, <3>8, <3>10, Zenon
  <2>2. CASE ids[def] # -1
    <3>1. keys = s /\ id = ids[def]
      BY <1>1, <1>4, <2>2
    <3>2. j.nctrs = nc
      BY <1>4, <2>2
    <3>3. key = r.key
      BY <1>4, <2>2
    <3>4. s[ids[def] + 1] <=> def = r.key
      BY <1>2, <1>3, <2>2, Zenon
    <3>5. keys[id + 1] <=> def = key
      BY <3>1, <3>3, <3>4, Zenon
    <3> QED BY <1>3, <3>1, <3>2, <3>5, Zenon
  <2> QED BY <2>1, <2>2
<1>7. id \in 0..(j.nctrs - 1) /\ j.nctrs \in Nat
  <2>1. CASE ids[def] = -1
    <3>1. id = nc /\ j.nctrs = nc + 1
      BY <1>4, <2>1
    <3> QED BY <1>d, <3>1
  <2>2. CASE ids[def] # -1
    <3>1. id = ids[def] /\ j.nctrs = nc
      BY <1>4, <2>2
    <3> QED BY <1>a, <1>d, <2>2, <3>1
  <2> QED BY <2>1, <2>2
<1>8. /\ t.k = "V" /\ t.id = id /\ (t.defines <=> ids[def] = -1) /\ t.name = def
      /\ t.ticks = ct.ticks /\ t.value = ct.value
  BY <1>1 DEF CounterOf
<1>b. r.status = "reading"
  <2>1. IsReader(r)
    BY <1>3
  <2> QED BY <2>1 DEF IsReader
<1>9. PICK read : read = [r EXCEPT !.key = key, !.keys = keys]
  OBVIOUS
<1>10. ReadToken(r, t) = ReadCounter(r, t)
  <2>1. r.expects = "counter" /\ t.k = "V"
    BY <1>3, <1>8
  <2> QED BY <1>b, <2>1 DEF ReadToken
<1>11. /\ key = IF t.defines /\ r.key = "" THEN t.name ELSE r.key
       /\ keys = IF t.defines THEN Set(r.keys, t.id, t.name = key, FALSE) ELSE r.keys
  <2>1. key = IF t.defines /\ r.key = "" THEN t.name ELSE r.key
    BY <1>4, <1>8, Zenon
  <2>2. CASE ids[def] = -1
    <3>1. PICK y, no : y = (def = key) /\ no = FALSE
      OBVIOUS
    <3>2. Set(s, Len(s), y, no) = Append(s, y)
      <4>1. s \in Seq(BOOLEAN)
        BY <1>3
      <4> QED BY <4>1, SetEnd
    <3>3. keys = Append(s, y)
      BY <1>1, <2>2, <3>1, Zenon
    <3>4. t.id = Len(s)
      <4>1. id = nc
        BY <1>4, <2>2
      <4> QED BY <1>3, <1>8, <4>1, Zenon
    <3>5. y = (t.name = key) /\ no = FALSE /\ s = r.keys
      BY <1>1, <1>8, <3>1, Zenon
    <3>6. Set(r.keys, t.id, t.name = key, FALSE) = keys
      BY <3>2, <3>3, <3>4, <3>5, Zenon
    <3> QED BY <1>8, <2>1, <2>2, <3>6, Zenon
  <2>3. CASE ids[def] # -1
    <3>1. keys = r.keys /\ ~ t.defines
      BY <1>1, <1>8, <2>3, Zenon
    <3> QED BY <2>1, <3>1, Zenon
  <2> QED BY <2>1, <2>2, <2>3
<1>c. ~ (t.id >= Len(keys))
  <2>1. t.id = id /\ Len(keys) = j.nctrs
    BY <1>6, <1>8
  <2> QED BY <1>7, <2>1
<1>12. ReadCounter(r, t) =
         IF ~ keys[id + 1] THEN read
         ELSE [read EXCEPT !.cost[r.nodestack].freq = @ + ct.ticks,
                           !.cost[r.nodestack].cnt = @ + ct.value]
  <2>1. ReadCounter(r, t) = ReadWith(r, t, KeyRead(r, t), KeysRead(r, t))
    BY Zenon DEF ReadCounter, ReadWith, KeyRead, KeysRead
  <2>2. key = KeyRead(r, t)
    BY <1>11, Zenon DEF KeyRead
  <2>3. keys = KeysRead(r, t)
    BY <1>11, <2>2, Zenon DEF KeysRead
  <2>4. ReadCounter(r, t) = ReadWith(r, t, key, keys)
    BY <2>1, <2>2, <2>3, Zenon
  <2>5. /\ t.id = id /\ t.ticks = ct.ticks /\ t.value = ct.value
    BY <1>8
  <2> QED BY <1>9, <1>c, <2>4, <2>5 DEF ReadWith
<1>13. PICK p : p = r.nodestack
  OBVIOUS
<1>14. PICK cost : cost = IF def = key THEN Charged(r.cost, p, ct) ELSE r.cost
  OBVIOUS
<1>15. PICK q : q = [read EXCEPT !.cost = cost]
  OBVIOUS
<1>16. /\ IsReader(read) /\ read.key = key /\ read.keys = keys /\ read.cost = r.cost
       /\ IsReader(q) /\ q.key = key /\ q.keys = keys /\ q.cost = cost
       /\ q.nodestack = r.nodestack /\ q.expects = r.expects
       /\ q.symbols = r.symbols /\ q.files = r.files /\ q.namedFiles = r.namedFiles
       /\ (cost = r.cost => q = read)
  <2>1. PICK kk, known, ct0, st, ns, sy, fi, nf, ke, ex :
          /\ kk = r.key /\ known = r.known /\ ct0 = r.cost /\ st = "reading" /\ ns = r.nodestack
          /\ sy = r.symbols /\ fi = r.files /\ nf = r.namedFiles /\ ke = r.keys /\ ex = r.expects
    OBVIOUS
  <2>2. r = ReaderOf(kk, known, ct0, st, ns, sy, fi, nf, ke, ex)
    <3>1. IsReader(r)
      BY <1>3
    <3> QED BY <2>1, <3>1, IsReaderOf
  <2>3. PICK q1 : q1 = [r EXCEPT !.key = key]
    OBVIOUS
  <2>4. q1 = ReaderOf(key, known, ct0, st, ns, sy, fi, nf, ke, ex)
    BY <2>2, <2>3 DEF ReaderOf
  <2>5. PICK q2 : q2 = [q1 EXCEPT !.keys = keys]
    OBVIOUS
  <2>6. q2 = ReaderOf(key, known, ct0, st, ns, sy, fi, nf, keys, ex)
    BY <2>4, <2>5 DEF ReaderOf
  <2>7. read = q2
    BY <1>9, <2>3, <2>5, Zenon
  <2>8. read = ReaderOf(key, known, ct0, st, ns, sy, fi, nf, keys, ex)
    BY <2>6, <2>7, Zenon
  <2>9. q = ReaderOf(key, known, cost, st, ns, sy, fi, nf, keys, ex)
    BY <1>15, <2>8 DEF ReaderOf
  <2>10. IsReader(read) /\ read.key = key /\ read.keys = keys /\ read.cost = ct0
    BY <2>1, <2>8, ReaderIs
  <2>11. /\ IsReader(q) /\ q.key = key /\ q.keys = keys /\ q.cost = cost
         /\ q.nodestack = ns /\ q.expects = ex
         /\ q.symbols = sy /\ q.files = fi /\ q.namedFiles = nf
    BY <2>1, <2>9, ReaderIs
  <2>12. cost = r.cost => q = read
    BY <2>1, <2>8, <2>9, Zenon
  <2> QED BY <2>1, <2>10, <2>11, <2>12, Zenon
<1>17. ReadCounter(r, t) = q
  <2>1. CASE def = key
    <3>1. keys[id + 1]
      BY <1>6, <2>1, Zenon
    <3>2. cost = Charged(read.cost, p, ct)
      BY <1>14, <1>16, <2>1, Zenon
    <3>3. PICK tt, vv : tt = ct.ticks /\ vv = ct.value
      OBVIOUS
    <3>4. [read EXCEPT !.cost[p].freq = @ + tt, !.cost[p].cnt = @ + vv] =
            [read EXCEPT !.cost = [read.cost EXCEPT ![p].freq = @ + tt, ![p].cnt = @ + vv]]
      <4>1. IsReader(read)
        BY <1>16
      <4> QED BY <4>1 DEF IsReader
    <3>6. q = [read EXCEPT !.cost = [read.cost EXCEPT ![p].freq = @ + tt, ![p].cnt = @ + vv]]
      BY <1>15, <3>2, <3>3, Zenon DEF Charged
    <3> QED BY <1>12, <1>13, <3>1, <3>3, <3>4, <3>6, Zenon
  <2>2. CASE def # key
    <3>1. ~ keys[id + 1]
      BY <1>6, <2>2, Zenon
    <3>2. q = read
      BY <1>14, <1>16, <2>2, Zenon
    <3> QED BY <1>12, <3>1, <3>2, Zenon
  <2> QED BY <2>1, <2>2
<1>18. CounterRead(r, q, ct)
  BY <1>1, <1>5, <1>13, <1>14, <1>16, Zenon DEF CounterRead
<1>19. KeyTable(q, j)
  <2>1. ASSUME NEW c \in CounterDefs, j.ids[c] # -1
        PROVE  keys[j.ids[c] + 1] <=> c = key
    <3>1. CASE c = def
      <4>1. j.ids[c] = id
        BY <1>2, <1>4, <3>1
      <4> QED BY <1>6, <3>1, <4>1, Zenon
    <3>2. CASE c # def
      <4>1. j.ids[c] = ids[c]
        BY <1>2, <1>4, <3>2
      <4>2. ids[c] # -1
        BY <2>1, <4>1
      <4>3. ids[c] \in 0..(nc - 1)
        BY <1>2, <4>2
      <4>4. nc # 0
        BY <1>d, <4>3
      <4>5. key = r.key
        BY <1>3, <1>5, <4>4
      <4>6. keys[ids[c] + 1] = s[ids[c] + 1]
        BY <1>6, <4>3, Zenon
      <4>7. s[ids[c] + 1] <=> c = r.key
        BY <1>3, <4>2, Zenon
      <4> QED BY <4>1, <4>5, <4>6, <4>7, Zenon
    <3> QED BY <3>1, <3>2
  <2>2. q.keys = keys /\ q.key = key
    BY <1>16, Zenon
  <2>3. keys \in Seq(BOOLEAN) /\ Len(keys) = j.nctrs /\ key # ""
    BY <1>5, <1>6, Zenon
  <2> QED BY <2>1, <2>2, <2>3, Zenon DEF KeyTable
<1> QED BY <1>10, <1>17, <1>18, <1>19, Zenon

-----------------------------------------------------------------------------
(* The costs that have been read *)

Count(a, b) == [freq |-> a, cnt |-> b]

(* What a counter adds is what it counts. *)
LEMMA ChargedIs ==
  ASSUME NEW cost, NEW path, path \in DOMAIN cost, NEW a, NEW b, cost[path] = Count(a, b),
         cost = [p \in DOMAIN cost |-> cost[p]], NEW ct
  PROVE  Charged(cost, path, ct) = [cost EXCEPT ![path] = Plus(cost[path], ct)]
<1>1. PICK x, y : x = cost[path].freq + ct.ticks /\ y = cost[path].cnt + ct.value
  OBVIOUS
<1>2. PICK n : n = cost[path]
  OBVIOUS
<1>3. [[n EXCEPT !.freq = x] EXCEPT !.cnt = y] = Count(x, y)
  <2>1. n = Count(a, b)
    BY <1>2
  <2>2. PICK m : m = [n EXCEPT !.freq = x]
    OBVIOUS
  <2>3. m = Count(x, b)
    BY <2>1, <2>2 DEF Count
  <2>4. [m EXCEPT !.cnt = y] = Count(x, y)
    BY <2>3 DEF Count
  <2> QED BY <2>2, <2>4
<1>4. Plus(cost[path], ct) = Count(x, y)
  BY <1>1 DEF Plus, Count
<1>5. PICK c1 : c1 = [cost EXCEPT ![path].freq = x]
  OBVIOUS
<1>6. c1 = [cost EXCEPT ![path] = [n EXCEPT !.freq = x]]
  BY <1>2, <1>5
<1>7. c1[path] = [n EXCEPT !.freq = x] /\ c1[path].cnt = cost[path].cnt
  <2>1. c1[path] = [n EXCEPT !.freq = x]
    BY <1>6
  <2>2. n = Count(a, b)
    BY <1>2
  <2>3. [n EXCEPT !.freq = x].cnt = n.cnt
    BY <2>2 DEF Count
  <2> QED BY <1>2, <2>1, <2>3
<1>8. [c1 EXCEPT ![path].cnt = y] = [c1 EXCEPT ![path] = Count(x, y)]
  BY <1>3, <1>7
<1>9. [c1 EXCEPT ![path] = Count(x, y)] = [cost EXCEPT ![path] = Count(x, y)]
  BY <1>6
<1>10. Charged(cost, path, ct) = [c1 EXCEPT ![path].cnt = y]
  BY <1>1, <1>5, <1>7 DEF Charged
<1> QED BY <1>4, <1>8, <1>9, <1>10

Paths(L) == {PathTo(x) : x \in L}

(* Costs by the paths of lines *)
LEMMA CostsAre ==
  ASSUME NEW L, NEW D, NEW key
  PROVE  /\ Costs(L, D, key) = [p \in Paths(L) |-> Counted(D, p, key)]
         /\ DOMAIN Costs(L, D, key) = Paths(L)
         /\ \A p \in Paths(L) : Costs(L, D, key)[p] = Counted(D, p, key)
BY DEF Costs, Paths

(* One counter more that has the key *)
CanAdd(L, D, c) ==
  /\ D \in SUBSET CountersOf(Frames) /\ IsFiniteSet(D)
  /\ c \in CountersOf(Frames) \ D /\ PathTo(c[1]) \in Paths(L)

Adds(L, D, c, key) ==
  Charged(Costs(L, D, key), PathTo(c[1]), CounterAt(c)) = Costs(L, D \cup {c}, key)

(* One counter more that has the key is charged to its path. *)
LEMMA CostAdd ==
  ASSUME program \in Programs, NEW L, NEW D, NEW c, CanAdd(L, D, c),
         NEW key, CounterAt(c).def = key
  PROVE  Adds(L, D, c, key)
<1>0. PICK path, ct : path = PathTo(c[1]) /\ ct = CounterAt(c)
  OBVIOUS
<1>a. /\ D \in SUBSET CountersOf(Frames) /\ IsFiniteSet(D)
      /\ c \in CountersOf(Frames) \ D /\ path \in Paths(L)
  BY <1>0 DEF CanAdd
<1>1. PICK old, new, S : old = Costs(L, D, key) /\ new = Costs(L, D \cup {c}, key) /\ S = Paths(L)
  OBVIOUS
<1>2. /\ old = [p \in S |-> Counted(D, p, key)] /\ DOMAIN old = S
      /\ \A p \in S : old[p] = Counted(D, p, key)
      /\ new = [p \in S |-> Counted(D \cup {c}, p, key)]
  <2>1. old = [p \in S |-> Counted(D, p, key)]
    BY <1>1 DEF Costs, Paths
  <2>2. new = [p \in S |-> Counted(D \cup {c}, p, key)]
    BY <1>1 DEF Costs, Paths
  <2>3. DOMAIN old = S /\ \A p \in S : old[p] = Counted(D, p, key)
    BY <2>1
  <2> QED BY <2>1, <2>2, <2>3
<1>3. \A p \in S : p # path => Counted(D \cup {c}, p, key) = old[p]
  BY <1>0, <1>a, <1>2, CountedAdd
<1>4. Counted(D \cup {c}, path, key) = Plus(old[path], ct)
  BY <1>0, <1>a, <1>1, <1>2, CountedAdd
<1>5. PICK a, b : old[path] = Count(a, b)
  <2>1. Counted(D, path, key) =
          Count(Sum(Chosen(D, path, key), "ticks"), Sum(Chosen(D, path, key), "value"))
    BY DEF Counted, Count, Chosen
  <2>2. path \in S
    BY <1>a, <1>1
  <2> QED BY <1>2, <2>1, <2>2
<1>6. Charged(old, path, ct) = [old EXCEPT ![path] = Plus(old[path], ct)]
  BY <1>a, <1>1, <1>2, <1>5, ChargedIs
<1>7. \A p \in S : Counted(D \cup {c}, p, key) = IF p = path THEN Plus(old[path], ct) ELSE old[p]
  BY <1>3, <1>4
<1>8. PICK f : f = [old EXCEPT ![path] = Plus(old[path], ct)]
  OBVIOUS
<1>9. f = new
  BY <1>1, <1>2, <1>7, <1>8
<1> QED BY <1>0, <1>1, <1>6, <1>8, <1>9, Zenon DEF Adds

(* One counter more that has not the key, or has counted nothing *)
LEMMA CostSkip ==
  ASSUME program \in Programs, NEW L, NEW D \in SUBSET CountersOf(Frames), IsFiniteSet(D),
         NEW c \in CountersOf(Frames) \ D, NEW key,
         CounterAt(c).def # key \/ (CounterAt(c).ticks = 0 /\ CounterAt(c).value = 0)
  PROVE  Costs(L, D \cup {c}, key) = Costs(L, D, key)
<1>1. ASSUME NEW p PROVE Counted(D \cup {c}, p, key) = Counted(D, p, key)
  <2>1. CASE CounterAt(c).def = key /\ PathTo(c[1]) = p
    <3>1. CounterAt(c).ticks = 0 /\ CounterAt(c).value = 0
      BY <2>1
    <3>2. Counted(D \cup {c}, p, key) = Plus(Counted(D, p, key), CounterAt(c))
      BY <2>1, CountedAdd
    <3>3. PICK T : T = Chosen(D, p, key)
      OBVIOUS
    <3>4. T \in SUBSET CountersOf(Frames) /\ IsFiniteSet(T)
      <4>1. T \in SUBSET D
        BY <3>3 DEF Chosen, OnPath, Named
      <4> QED BY <4>1, FS_Subset
    <3>5. PICK a, b : a = Sum(T, "ticks") /\ b = Sum(T, "value")
      OBVIOUS
    <3>6. a \in Int /\ b \in Int
      BY <3>4, <3>5, SumTyped DEF Fields
    <3>7. Counted(D, p, key) = [freq |-> a, cnt |-> b]
      BY <3>3, <3>5 DEF Counted, Chosen
    <3>8. PICK n : n = Counted(D, p, key)
      OBVIOUS
    <3>9. n.freq = a /\ n.cnt = b
      BY <3>7, <3>8
    <3>10. a + CounterAt(c).ticks = a /\ b + CounterAt(c).value = b
      BY <3>1, <3>6
    <3>11. Plus(n, CounterAt(c)) = [freq |-> a, cnt |-> b]
      BY <3>9, <3>10 DEF Plus
    <3> QED BY <3>2, <3>7, <3>8, <3>11
  <2>2. CASE ~ (CounterAt(c).def = key /\ PathTo(c[1]) = p)
    BY <2>2, CountedAdd
  <2> QED BY <2>1, <2>2
<1> QED BY <1>1 DEF Costs

(* The line of a frame *)
LEMMA CostLine ==
  ASSUME program \in Programs, NEW L, NEW D \in SUBSET CountersOf(Frames), IsFiniteSet(D),
         NEW x, \A c \in D : PathTo(c[1]) \in Paths(L), NEW key
  PROVE  Costs(L \cup {x}, D, key) = Visited(Costs(L, D, key), PathTo(x))
<1>1. PICK old, S, path : old = Costs(L, D, key) /\ S = Paths(L) /\ path = PathTo(x)
  OBVIOUS
<1>2. DOMAIN old = S /\ \A p \in S : old[p] = Counted(D, p, key)
  BY <1>1, CostsAre
<1>3. Costs(L \cup {x}, D, key) = [p \in S \cup {path} |-> Counted(D, p, key)]
  <2>1. Paths(L \cup {x}) = S \cup {path}
    BY <1>1 DEF Paths
  <2> QED BY <2>1 DEF Costs, Paths
<1>4. path \notin S => Counted(D, path, key) = Nothing
  BY <1>1, CountedNothing
<1>5. \A p \in S \cup {path} : Counted(D, p, key) = IF p \in S THEN old[p] ELSE Nothing
  BY <1>2, <1>4
<1> QED BY <1>1, <1>2, <1>3, <1>5 DEF Visited

(* Counters that have counted nothing are the same under every key. *)
LEMMA CostKey ==
  ASSUME program \in Programs, NEW L, NEW D \in SUBSET CountersOf(Frames), IsFiniteSet(D),
         Unused(D), NEW key, NEW other
  PROVE  Costs(L, D, key) = Costs(L, D, other)
<1>1. \A c \in D : CounterAt(c).ticks = 0 /\ CounterAt(c).value = 0
  BY CounterFacts DEF Unused
<1>2. \A p : Counted(D, p, key) = Nothing /\ Counted(D, p, other) = Nothing
  BY <1>1, CountedNothing
<1> QED BY <1>2 DEF Costs

(* A counter that is next, on the line that the reader has come to *)
CounterNext(L, D, c, ct, r) ==
  /\ D \in SUBSET CountersOf(Frames) /\ IsFiniteSet(D)
  /\ c \in CountersOf(Frames) \ D /\ ct = CounterAt(c)
  /\ PathTo(c[1]) = r.nodestack /\ r.nodestack \in Paths(L)
  /\ r.cost = Costs(L, D, r.key) /\ (r.key = "" => Unused(D))

(* What the reader has counted after a counter *)
LEMMA CounterCharged ==
  ASSUME program \in Programs, NEW L, NEW D, NEW c, NEW ct, NEW r, CounterNext(L, D, c, ct, r),
         NEW q, CounterRead(r, q, ct), NEW E, E = D \cup {c}
  PROVE  q.cost = Costs(L, E, q.key)
<1>a. /\ D \in SUBSET CountersOf(Frames) /\ IsFiniteSet(D)
      /\ c \in CountersOf(Frames) \ D /\ ct = CounterAt(c)
      /\ PathTo(c[1]) = r.nodestack /\ r.nodestack \in Paths(L)
      /\ r.cost = Costs(L, D, r.key) /\ (r.key = "" => Unused(D))
  BY DEF CounterNext
<1>1. PICK key : key = q.key
  OBVIOUS
<1>2. /\ q.cost = IF ct.def = key THEN Charged(r.cost, r.nodestack, ct) ELSE r.cost
      /\ r.key # "" => key = r.key
  BY <1>1 DEF CounterRead
<1>3. r.cost = Costs(L, D, key)
  <2>1. CASE r.key = ""
    BY <1>a, <2>1, CostKey
  <2>2. CASE r.key # ""
    BY <1>a, <1>2, <2>2
  <2> QED BY <2>1, <2>2
<1>4. CASE ct.def = key
  <2>1. Charged(Costs(L, D, key), r.nodestack, ct) = Costs(L, D \cup {c}, key)
    <3>1. CanAdd(L, D, c)
      BY <1>a DEF CanAdd
    <3>2. Adds(L, D, c, key)
      BY <1>a, <1>4, <3>1, CostAdd
    <3> QED BY <1>a, <3>2, Zenon DEF Adds
  <2> QED BY <1>1, <1>2, <1>3, <1>4, <2>1
<1>5. CASE ct.def # key
  <2>1. Costs(L, D \cup {c}, key) = Costs(L, D, key)
    BY <1>a, <1>5, CostSkip
  <2> QED BY <1>1, <1>2, <1>3, <1>5, <2>1
<1> QED BY <1>4, <1>5

-----------------------------------------------------------------------------
(* The reader's stack of nodes *)

(* The beginning of a beginning *)
LEMMA SubSub ==
  ASSUME NEW S, NEW s \in Seq(S), NEW m \in Nat, m <= Len(s), NEW k \in Nat, k <= m
  PROVE  /\ SubSeq(s, 1, m) \in Seq(S) /\ Len(SubSeq(s, 1, m)) = m
         /\ SubSeq(SubSeq(s, 1, m), 1, k) = SubSeq(s, 1, k)
<1>1. Len(s) \in Nat /\ \A i \in 1..Len(s) : s[i] \in S
  OBVIOUS
<1>2. PICK t : t = SubSeq(s, 1, m)
  OBVIOUS
<1>3. t = [i \in 1..m |-> s[i]]
  <2>1. SubSeq(s, 1, m) = [i \in 1..((m - 1) + 1) |-> s[(i + 1) - 1]]
    BY <1>1
  <2>2. (m - 1) + 1 = m /\ \A i \in 1..m : (i + 1) - 1 = i
    OBVIOUS
  <2> QED BY <1>2, <2>1, <2>2
<1>4. t \in Seq(S) /\ Len(t) = m
  BY <1>1, <1>3
<1>5. SubSeq(t, 1, k) = [i \in 1..k |-> t[i]]
  <2>1. SubSeq(t, 1, k) = [i \in 1..((k - 1) + 1) |-> t[(i + 1) - 1]]
    BY <1>4
  <2>2. (k - 1) + 1 = k /\ \A i \in 1..k : (i + 1) - 1 = i
    OBVIOUS
  <2> QED BY <2>1, <2>2
<1>6. SubSeq(s, 1, k) = [i \in 1..k |-> s[i]]
  <2>1. SubSeq(s, 1, k) = [i \in 1..((k - 1) + 1) |-> s[(i + 1) - 1]]
    BY <1>1
  <2>2. (k - 1) + 1 = k /\ \A i \in 1..k : (i + 1) - 1 = i
    OBVIOUS
  <2> QED BY <2>1, <2>2
<1>7. \A i \in 1..k : t[i] = s[i]
  BY <1>3
<1> QED BY <1>2, <1>4, <1>5, <1>6, <1>7

(* A path without its last name *)
LEMMA SubAppend ==
  ASSUME NEW S, NEW s \in Seq(S), NEW x \in S, NEW k \in Nat, k <= Len(s)
  PROVE  SubSeq(Append(s, x), 1, k) = SubSeq(s, 1, k)
<1>1. PICK t : t = Append(s, x)
  OBVIOUS
<1>2. /\ t \in Seq(S) /\ Len(t) = Len(s) + 1 /\ Len(s) \in Nat
      /\ \A i \in 1..Len(s) : t[i] = s[i]
  BY <1>1, AppendProperties
<1>5. SubSeq(t, 1, k) = [i \in 1..k |-> t[i]]
  <2>1. SubSeq(t, 1, k) = [i \in 1..((k - 1) + 1) |-> t[(i + 1) - 1]]
    BY <1>2
  <2>2. (k - 1) + 1 = k /\ \A i \in 1..k : (i + 1) - 1 = i
    OBVIOUS
  <2> QED BY <2>1, <2>2
<1>6. SubSeq(s, 1, k) = [i \in 1..k |-> s[i]]
  <2>1. SubSeq(s, 1, k) = [i \in 1..((k - 1) + 1) |-> s[(i + 1) - 1]]
    BY <1>2
  <2>2. (k - 1) + 1 = k /\ \A i \in 1..k : (i + 1) - 1 = i
    OBVIOUS
  <2> QED BY <2>1, <2>2
<1>7. \A i \in 1..k : t[i] = s[i]
  BY <1>2
<1> QED BY <1>1, <1>5, <1>6, <1>7

(* One sequence after the other *)
LEMMA Joined ==
  ASSUME NEW S, NEW a \in Seq(S), NEW b \in Seq(S),
         NEW m \in Nat, m = Len(a), NEW n \in Nat, n = Len(b)
  PROVE  /\ DOMAIN (a \o b) = 1..(m + n)
         /\ \A i \in 1..m : (a \o b)[i] = a[i]
         /\ \A k \in 1..n : (a \o b)[m + k] = b[k]
<1>1. PICK x : x = a \o b
  OBVIOUS
<1>2. /\ Len(x) = m + n /\ DOMAIN x = 1..(m + n)
      /\ \A i \in 1..(m + n) : x[i] = IF i <= m THEN a[i] ELSE b[i - m]
  BY <1>1
<1>3. \A k \in 1..n : m + k \in 1..(m + n) /\ ~ (m + k <= m) /\ (m + k) - m = k
  OBVIOUS
<1>4. \A i \in 1..m : i \in 1..(m + n) /\ i <= m
  OBVIOUS
<1> QED BY <1>1, <1>2, <1>3, <1>4

(* The children of the root are found below the empty path. *)
LEMMA RootOnStack ==
  ASSUME NEW tree \in Trees, NEW ns \in Seq(Names)
  PROVE  OnStack(tree, Below(tree, Root) \o <<>>, ns)
<1>1. PICK w : w = Below(tree, Item(1, 0))
  OBVIOUS
<1>2. /\ 1 \in DOMAIN tree /\ 0 \in Nat
  BY FrameFacts
<1>3. /\ w \in Seq(ItemsOf(tree)) /\ Len(w) = Len(tree[1].children)
      /\ tree[1].children \in Seq(2..Len(tree))
      /\ \A k \in 1..Len(tree[1].children) : w[k] = Item(tree[1].children[k], 0 + 1)
  BY <1>1, <1>2, BelowFacts
<1>4. w \o <<>> = w
  BY <1>3
<1>5. ASSUME NEW k \in DOMAIN w
      PROVE  /\ w[k].depth - 1 <= Len(ns)
             /\ SubSeq(ns, 1, w[k].depth - 1) = PathsOf(tree)[ParentOf(tree, w[k].frame)]
  <2>1. k \in 1..Len(tree[1].children) /\ k \in DOMAIN tree[1].children
    BY <1>3
  <2>2. w[k].frame = tree[1].children[k] /\ w[k].depth = 1
    <3>1. w[k] = Item(tree[1].children[k], 0 + 1)
      BY <1>3, <2>1
    <3> QED BY <3>1 DEF Item
  <2>3. tree[1].children[k] \in 2..Len(tree)
    BY <1>3, <2>1
  <2>4. ParentOf(tree, w[k].frame) = 1
    BY <1>2, <2>1, <2>2, <2>3, ParentFacts
  <2>5. SubSeq(ns, 1, 0) = <<>>
    OBVIOUS
  <2>6. PathsOf(tree)[1] = <<>>
    BY PathFacts
  <2>7. Len(ns) \in Nat
    OBVIOUS
  <2> QED BY <2>2, <2>4, <2>5, <2>6, <2>7
<1>6. OnStack(tree, w, ns)
  BY <1>5, Zenon DEF OnStack
<1> QED BY <1>1, <1>4, <1>6 DEF Root

(* The reader that has got to a frame finds its children below it, and what *)
(* is to be entered after them where it was.                                *)
LEMMA FrameOnStack ==
  ASSUME NEW tree \in Trees, NEW w, NEW seen, IsWalk(tree, w, seen), w # <<>>,
         NEW ns \in Seq(Names), OnStack(tree, w, ns),
         NEW path, path = PathsOf(tree)[Head(w).frame]
  PROVE  /\ Head(w).depth - 1 <= Len(ns)
         /\ path = Append(SubSeq(ns, 1, Head(w).depth - 1), ReadName(tree[Head(w).frame].address))
         /\ OnStack(tree, Below(tree, Head(w)) \o Tail(w), path)
<1>1. PICK f, d, t, n : f = Head(w).frame /\ d = Head(w).depth /\ t = Tail(w) /\ n = Len(tree[f].children)
  OBVIOUS
<1>2. /\ w \in Seq(ItemsOf(tree)) /\ t \in Seq(ItemsOf(tree))
      /\ Len(w) \in Nat \ {0} /\ Len(t) = Len(w) - 1
      /\ \A i \in 1..Len(t) : t[i] = w[i + 1]
      /\ Head(w) = w[1] /\ Head(w) = Item(f, d)
      /\ f \in 2..Len(tree) /\ d \in Nat \ {0} /\ d = Len(PathsOf(tree)[f])
      /\ \A i \in DOMAIN t : t[i].depth <= d
  BY <1>1, WalkTail
<1>3. f \in DOMAIN tree /\ Len(tree) \in Nat
  BY <1>2, FrameFacts
<1>4. w[1].depth - 1 <= Len(ns) /\ SubSeq(ns, 1, w[1].depth - 1) = PathsOf(tree)[ParentOf(tree, w[1].frame)]
  <2>1. 1 \in DOMAIN w
    BY <1>2
  <2> QED BY <2>1 DEF OnStack
<1>5. d - 1 <= Len(ns) /\ SubSeq(ns, 1, d - 1) = PathsOf(tree)[ParentOf(tree, f)]
  BY <1>1, <1>2, <1>4
<1>6. PICK up, nm : up = SubSeq(ns, 1, d - 1) /\ nm = ReadName(tree[f].address)
  OBVIOUS
<1>7. path = Append(up, nm) /\ nm \in Names /\ path \in Seq(Names) /\ Len(path) = d
  BY <1>1, <1>2, <1>3, <1>5, <1>6, PathFacts
<1>8. up \in Seq(Names) /\ Len(up) = d - 1 /\ Len(ns) \in Nat /\ d - 1 \in Nat
  <2>1. d - 1 \in Nat /\ d - 1 <= d - 1
    BY <1>2
  <2> QED BY <1>5, <1>6, <2>1, SubSub
<1>9. PICK b : b = Below(tree, Item(f, d))
  OBVIOUS
<1>10. /\ b \in Seq(ItemsOf(tree)) /\ Len(b) = n /\ tree[f].children \in Seq(2..Len(tree))
       /\ \A k \in 1..n : b[k] = Item(tree[f].children[k], d + 1)
  <2>1. d \in Nat
    BY <1>2
  <2> QED BY <1>1, <1>3, <1>9, <2>1, BelowFacts
<1>11. PICK x, m : x = b \o t /\ m = Len(t)
  OBVIOUS
<1>a. n \in Nat /\ m \in Nat /\ t \in Seq(ItemsOf(tree))
  BY <1>2, <1>10, <1>11
<1>12. /\ DOMAIN x = 1..(n + m)
       /\ \A i \in 1..n : x[i] = b[i]
       /\ \A k \in 1..m : x[n + k] = t[k]
  <2>1. m = Len(t) /\ n = Len(b) /\ b \in Seq(ItemsOf(tree))
    BY <1>10, <1>11
  <2>2. /\ DOMAIN (b \o t) = 1..(n + m)
        /\ \A i \in 1..n : (b \o t)[i] = b[i]
        /\ \A k \in 1..m : (b \o t)[n + k] = t[k]
    BY <1>a, <2>1, Joined
  <2> QED BY <1>11, <2>2
<1>13. ASSUME NEW i \in DOMAIN x
       PROVE  /\ x[i].depth - 1 <= Len(path)
              /\ SubSeq(path, 1, x[i].depth - 1) = PathsOf(tree)[ParentOf(tree, x[i].frame)]
  <2>1. CASE i \in 1..n
    <3>1. x[i] = Item(tree[f].children[i], d + 1)
      BY <1>10, <1>12, <2>1
    <3>2. x[i].frame = tree[f].children[i] /\ x[i].depth = d + 1
      BY <3>1 DEF Item
    <3>3. i \in DOMAIN tree[f].children /\ tree[f].children[i] \in 2..Len(tree)
      <4>1. PICK c, S : c = tree[f].children /\ S = 2..Len(tree)
        OBVIOUS
      <4>2. c \in Seq(S) /\ i \in 1..Len(c)
        BY <1>1, <1>10, <2>1, <4>1
      <4>3. i \in DOMAIN c /\ c[i] \in S
        BY <4>2
      <4> QED BY <4>1, <4>3
    <3>4. ParentOf(tree, x[i].frame) = f
      BY <1>3, <3>2, <3>3, ParentFacts
    <3>5. (d + 1) - 1 = d /\ d <= d
      BY <1>2
    <3>6. SubSeq(path, 1, Len(path)) = path
      BY <1>7, SubSeqFull
    <3>7. SubSeq(path, 1, x[i].depth - 1) = path /\ x[i].depth - 1 <= Len(path)
      BY <1>7, <3>2, <3>5, <3>6
    <3> QED BY <1>1, <3>4, <3>7
  <2>2. CASE \E k \in 1..m : i = n + k
    <3>1. PICK k \in 1..m : i = n + k
      BY <2>2
    <3>2. k \in DOMAIN t /\ k \in 1..Len(t) /\ k + 1 \in DOMAIN w
      <4>1. DOMAIN t = 1..m
        BY <1>a, <1>11
      <4>2. DOMAIN w = 1..(m + 1)
        BY <1>2, <1>11
      <4>3. k + 1 \in 1..(m + 1)
        BY <1>a
      <4> QED BY <1>11, <4>1, <4>2, <4>3
    <3>3. x[i] = t[k] /\ t[k] = w[k + 1]
      BY <1>2, <1>12, <3>1, <3>2
    <3>4. PICK e : e = x[i].depth - 1
      OBVIOUS
    <3>5. e \in Nat /\ e <= d - 1
      <4>1. t[k].depth <= d
        BY <1>2, <3>2
      <4>2. t[k] \in ItemsOf(tree)
        BY <1>a, <3>2
      <4>3. t[k].depth \in Nat \ {0}
        BY <4>2 DEF ItemsOf
      <4>4. d \in Nat /\ e = t[k].depth - 1
        BY <1>2, <3>3, <3>4
      <4> QED BY <4>1, <4>3, <4>4
    <3>6. SubSeq(ns, 1, e) = PathsOf(tree)[ParentOf(tree, x[i].frame)]
      BY <3>2, <3>3, <3>4 DEF OnStack
    <3>7. SubSeq(up, 1, e) = SubSeq(ns, 1, e)
      BY <1>5, <1>6, <1>8, <3>5, SubSub
    <3>8. SubSeq(path, 1, e) = SubSeq(up, 1, e)
      <4>1. e <= Len(up)
        BY <1>8, <3>5
      <4> QED BY <1>7, <1>8, <3>5, <4>1, SubAppend
    <3>9. e <= Len(path)
      BY <1>2, <1>7, <3>5
    <3> QED BY <3>4, <3>6, <3>7, <3>8, <3>9
  <2>3. i \in 1..n \/ \E k \in 1..m : i = n + k
    <3>1. i \in 1..(n + m)
      BY <1>12
    <3>2. i \notin 1..n => i - n \in 1..m /\ i = n + (i - n)
      BY <1>a, <3>1
    <3> QED BY <3>2
  <2> QED BY <2>1, <2>2, <2>3
<1>14. OnStack(tree, x, path)
  BY <1>13, Zenon DEF OnStack
<1> QED BY <1>1, <1>2, <1>5, <1>6, <1>7, <1>9, <1>11, <1>14, Zenon

-----------------------------------------------------------------------------
(* The header, and the end of a line *)

(* The header starts a dump with empty tables. *)
LEMMA HeaderRead ==
  ASSUME NEW r, IsReader(r)
  PROVE  \A q : q = Reading(Reader(r), <<[k |-> "P"]>>) =>
           /\ IsReader(q) /\ q.key = r.key /\ q.cost = r.cost /\ q.nodestack = <<>>
           /\ q.symbols = <<>> /\ q.files = <<>> /\ q.namedFiles = {} /\ q.keys = <<>>
           /\ q.expects = "line"
<1>1. PICK key, known, cost, st, no, nf, p, line :
        /\ key = r.key /\ known = r.known /\ cost = r.cost /\ st = "reading"
        /\ no = <<>> /\ nf = {} /\ p = "P" /\ line = "line"
  OBVIOUS
<1>2. PICK b : b = Reader(r)
  OBVIOUS
<1>3. b = ReaderOf(key, known, cost, st, no, no, no, nf, no, p)
  <2>1. PICK ns, sy, fi, mf, ke, ex :
          /\ ns = r.nodestack /\ sy = r.symbols /\ fi = r.files /\ mf = r.namedFiles
          /\ ke = r.keys /\ ex = r.expects
    OBVIOUS
  <2>2. r = ReaderOf(key, known, cost, st, ns, sy, fi, mf, ke, ex)
    BY <1>1, <2>1, IsReaderOf
  <2>3. PICK q1 : q1 = [r EXCEPT !.nodestack = no]
    OBVIOUS
  <2>4. q1 = ReaderOf(key, known, cost, st, no, sy, fi, mf, ke, ex)
    BY <2>2, <2>3 DEF ReaderOf
  <2>5. PICK q2 : q2 = [q1 EXCEPT !.symbols = no]
    OBVIOUS
  <2>6. q2 = ReaderOf(key, known, cost, st, no, no, fi, mf, ke, ex)
    BY <2>4, <2>5 DEF ReaderOf
  <2>7. PICK q3 : q3 = [q2 EXCEPT !.files = no]
    OBVIOUS
  <2>8. q3 = ReaderOf(key, known, cost, st, no, no, no, mf, ke, ex)
    BY <2>6, <2>7 DEF ReaderOf
  <2>9. PICK q4 : q4 = [q3 EXCEPT !.namedFiles = nf]
    OBVIOUS
  <2>10. q4 = ReaderOf(key, known, cost, st, no, no, no, nf, ke, ex)
    BY <2>8, <2>9 DEF ReaderOf
  <2>11. PICK q5 : q5 = [q4 EXCEPT !.keys = no]
    OBVIOUS
  <2>12. q5 = ReaderOf(key, known, cost, st, no, no, no, nf, no, ex)
    BY <2>10, <2>11 DEF ReaderOf
  <2>13. PICK q6 : q6 = [q5 EXCEPT !.expects = p]
    OBVIOUS
  <2>14. q6 = ReaderOf(key, known, cost, st, no, no, no, nf, no, p)
    BY <2>12, <2>13 DEF ReaderOf
  <2>15. b = q6
    BY <1>1, <1>2, <2>3, <2>5, <2>7, <2>9, <2>11, <2>13, Zenon DEF Reader
  <2> QED BY <2>14, <2>15
<1>4. PICK t : t = [k |-> "P"]
  OBVIOUS
<1>5. Reading(b, <<t>>) = ReadToken(b, t)
  <2>1. <<>> \in Seq({t}) /\ t \in {t} /\ Append(<<>>, t) = <<t>>
    OBVIOUS
  <2>2. Reading(b, Append(<<>>, t)) = ReadToken(Reading(b, <<>>), t)
    BY <2>1, ReadOneMore
  <2> QED BY <2>1, <2>2, ReadNothing
<1>6. PICK q : q = [b EXCEPT !.expects = line]
  OBVIOUS
<1>7. q = ReaderOf(key, known, cost, st, no, no, no, nf, no, line)
  BY <1>3, <1>6 DEF ReaderOf
<1>8. ReadToken(b, t) = q
  <2>1. b.status = "reading" /\ b.expects = "P"
    BY <1>1, <1>3 DEF ReaderOf
  <2>2. t.k = "P"
    BY <1>4
  <2> QED BY <1>1, <1>6, <2>1, <2>2 DEF ReadToken
<1>9. /\ IsReader(q) /\ q.key = key /\ q.cost = cost /\ q.nodestack = no
      /\ q.symbols = no /\ q.files = no /\ q.namedFiles = nf /\ q.keys = no
      /\ q.expects = line
  BY <1>1, <1>7, ReaderIs
<1> QED BY <1>1, <1>2, <1>4, <1>5, <1>8, <1>9

(* The end of a line *)
LineEnded(r, q) ==
  /\ IsReader(q) /\ q.expects = "line"
  /\ q.key = r.key /\ q.cost = r.cost /\ q.nodestack = r.nodestack
  /\ q.symbols = r.symbols /\ q.files = r.files /\ q.namedFiles = r.namedFiles /\ q.keys = r.keys

(* The end of a line changes nothing but what may follow. *)
LEMMA EndRead ==
  ASSUME NEW r, IsReader(r), r.expects = "counter"
  PROVE  LineEnded(r, ReadToken(r, [k |-> "EOL"]))
<1>1. PICK key, known, cost, st, ns, sy, fi, nf, ke, ex, line :
        /\ key = r.key /\ known = r.known /\ cost = r.cost /\ st = "reading" /\ ns = r.nodestack
        /\ sy = r.symbols /\ fi = r.files /\ nf = r.namedFiles /\ ke = r.keys /\ ex = r.expects
        /\ line = "line"
  OBVIOUS
<1>2. r = ReaderOf(key, known, cost, st, ns, sy, fi, nf, ke, ex)
  BY <1>1, IsReaderOf
<1>3. PICK q : q = [r EXCEPT !.expects = line]
  OBVIOUS
<1>4. q = ReaderOf(key, known, cost, st, ns, sy, fi, nf, ke, line)
  BY <1>2, <1>3 DEF ReaderOf
<1>5. PICK t : t = [k |-> "EOL"]
  OBVIOUS
<1>6. ReadToken(r, t) = q
  <2>1. r.status = "reading"
    BY DEF IsReader
  <2>2. t.k = "EOL"
    BY <1>5
  <2> QED BY <1>1, <1>3, <2>1, <2>2 DEF ReadToken
<1>7. /\ IsReader(q)
      /\ q.key = key /\ q.cost = cost /\ q.nodestack = ns
      /\ q.symbols = sy /\ q.files = fi /\ q.namedFiles = nf
      /\ q.keys = ke /\ q.expects = line
  BY <1>1, <1>4, ReaderIs
<1>8. LineEnded(r, q)
  BY <1>1, <1>7 DEF LineEnded
<1> QED BY <1>5, <1>6, <1>8

-----------------------------------------------------------------------------
(* The steps: what they leave alone *)

(* What the program says does not change. *)
LEMMA SameProgram ==
  ASSUME program' = program
  PROVE  /\ Frames' = Frames /\ Counting' = Counting /\ SharedFile' = SharedFile
         /\ \A x : FrameAt(x)' = FrameAt(x) /\ PathTo(x)' = PathTo(x)
         /\ \A c : CounterAt(c)' = CounterAt(c)
         /\ \A L : CountersOf(L)' = CountersOf(L)
         /\ \A S : Unused(S)' = Unused(S)
         /\ \A L, D, key : Costs(L, D, key)' = Costs(L, D, key)
<1>1. ASSUME NEW x PROVE FrameAt(x)' = FrameAt(x) /\ PathTo(x)' = PathTo(x)
  BY DEF FrameAt, PathTo, BufferAt
<1>2. ASSUME NEW c PROVE CounterAt(c)' = CounterAt(c)
  BY DEF CounterAt, FrameAt, BufferAt
<1>3. Frames' = Frames
  BY DEF Frames, FramesOf, BufferAt
<1>4. ASSUME NEW L PROVE CountersOf(L)' = CountersOf(L)
  BY DEF CountersOf, FrameAt, BufferAt
<1>5. ASSUME NEW S PROVE Unused(S)' = Unused(S)
  BY DEF Unused, CounterAt, FrameAt, BufferAt
<1>6. ASSUME NEW L, NEW D, NEW key PROVE Costs(L, D, key)' = Costs(L, D, key)
  BY DEF Costs, Counted, OnPath, Named, Sum, PathTo, CounterAt, FrameAt, BufferAt
<1>7. Counting' = Counting
  BY DEF Counting, CountersOf, FramesOf, CounterAt, FrameAt, BufferAt
<1>8. SharedFile' = SharedFile
  BY DEF SharedFile, Frames, FramesOf, FrameAt, BufferAt
<1> QED BY <1>1, <1>2, <1>3, <1>4, <1>5, <1>6, <1>7, <1>8

(* The buffer that is walked through *)
LEMMA InBuffer ==
  ASSUME PhaseOK, Walking
  PROVE  /\ program \in Programs /\ dump \in Nat /\ buffer \in Nat
         /\ dump \in DOMAIN program.dumps /\ buffer \in DOMAIN program.dumps[dump]
         /\ DOMAIN program.dumps = 1..Len(program.dumps) /\ Len(program.dumps) \in Nat
         /\ Buffer \in Trees /\ Buffer = BufferAt(dump, buffer)
         /\ Len(Buffer) \in Nat \ {0} /\ DOMAIN Buffer = 1..Len(Buffer)
         /\ \A i : Here(i) \in Frames <=> i \in 2..Len(Buffer)
         /\ \A i : FrameAt(Here(i)) = Buffer[i] /\ PathTo(Here(i)) = PathsOf(Buffer)[i]
<1>1. /\ program \in Programs /\ dump \in 0..Len(program.dumps) /\ dump > 0
      /\ buffer \in DOMAIN program.dumps[dump]
  BY DEF PhaseOK, Walking
<1>2. /\ program.dumps \in Seq(Seq(Trees)) /\ Len(program.dumps) \in Nat \ {0}
      /\ \A d \in DOMAIN program.dumps :
           /\ Len(program.dumps[d]) \in Nat \ {0}
           /\ DOMAIN program.dumps[d] = 1..Len(program.dumps[d])
           /\ \A b \in DOMAIN program.dumps[d] : program.dumps[d][b] \in Trees
  BY <1>1, TreesOf
<1>3. dump \in DOMAIN program.dumps /\ dump \in Nat /\ DOMAIN program.dumps = 1..Len(program.dumps)
  BY <1>1, <1>2
<1>4. buffer \in Nat
  BY <1>1, <1>2, <1>3
<1>5. Buffer = program.dumps[dump][buffer] /\ Buffer \in Trees
  BY <1>1, <1>2, <1>3 DEF Buffer, Buffers
<1>6. Len(Buffer) \in Nat \ {0} /\ DOMAIN Buffer = 1..Len(Buffer)
  BY <1>5, FrameFacts
<1>7. ASSUME NEW i PROVE Here(i) \in Frames <=> i \in 2..Len(Buffer)
  BY <1>1, <1>3, <1>5, PlaceOfFrame DEF Here
<1>8. ASSUME NEW i PROVE FrameAt(Here(i)) = Buffer[i] /\ PathTo(Here(i)) = PathsOf(Buffer)[i]
  BY <1>5 DEF FrameAt, PathTo, Here, BufferAt
<1> QED BY <1>1, <1>2, <1>3, <1>4, <1>5, <1>6, <1>7, <1>8 DEF BufferAt

(* What the reader has to follow is the same, as long as the writer stands still. *)
Writing == <<program, dump, buffer, stack, ctr, info, lines, reader>>

(* A reader that follows the writer still does while the writer stands still. *)
LEMMA StillFollows ==
  ASSUME UNCHANGED Writing, Loaded, Loaded', NEW r, Follows(r)
  PROVE  Follows(r)'
<1>1. /\ program' = program /\ dump' = dump /\ lines' = lines /\ info' = info
  BY DEF Writing
<1>2. ~ Walking /\ ~ Walking' /\ phase # "counters" /\ phase' # "counters"
  BY DEF Loaded, Walking
<1>3. PICK L, D : L = lines /\ D = CountersOf(L)
  OBVIOUS
<1>4. Dumped = D
  BY <1>2, <1>3 DEF Dumped
<1>5. Dumped' = CountersOf(L)'
  BY <1>1, <1>2, <1>3 DEF Dumped
<1>6. Dumped' = D
  BY <1>1, <1>3, <1>5, SameProgram
<1>7. IsReader(r) /\ r.cost = Costs(L, D, r.key) /\ KeysFit(r, info, D, dump) /\ StackFits(r)
  BY <1>3, <1>4 DEF Follows
<1>8. (r.cost = Costs(lines, Dumped, r.key))'
  <2>1. Costs(L, D, r.key)' = Costs(L, D, r.key)
    BY <1>1, SameProgram
  <2>2. Costs(lines, Dumped, r.key)' = Costs(L, D, r.key)'
    BY <1>1, <1>3, <1>6
  <2> QED BY <1>7, <2>1, <2>2
<1>9. KeysFit(r, info, Dumped, dump)'
  <2>1. /\ Unused(D)' = Unused(D)
        /\ Unused({c \in D : c[1][1] = dump})' = Unused({c \in D : c[1][1] = dump})
    BY <1>1, SameProgram
  <2> QED BY <1>1, <1>6, <1>7, <2>1 DEF KeysFit
<1>10. StackFits(r)'
  BY <1>2, <1>7 DEF StackFits
<1> QED BY <1>2, <1>7, <1>8, <1>9, <1>10 DEF Follows

-----------------------------------------------------------------------------
(* The steps of FastIO and of the reader *)

(* Outside of a walk the writer stands still. *)
LEMMA WriterRests ==
  ASSUME Inv, UNCHANGED <<program, writer>>, ~ Walking, ~ Walking'
  PROVE  /\ WalkOK' /\ LinesOK' /\ InfoOK' /\ IsFiniteSet(Dumped)'
         /\ Dumped = CountersOf(lines) /\ Dumped' = CountersOf(lines)
<1>1. /\ program' = program /\ dump' = dump /\ buffer' = buffer /\ lines' = lines /\ info' = info
  BY DEF writer
<1>2. phase # "counters" /\ phase' # "counters"
  BY DEF Walking
<1>3. WalkOK'
  BY DEF WalkOK
<1>4. LinesOK'
  <2>1. Frames' = Frames
    BY <1>1, SameProgram
  <2> QED BY <1>1, <2>1 DEF Inv, LinesOK
<1>5. InfoOK'
  <2>1. /\ InfoFits(info) /\ info.out # <<>>
        /\ \A a \in DOMAIN info.symcache.symId : \E x \in Frames : FrameAt(x).address = a
        /\ \A c \in CounterDefs : info.ids[c] = -1
    BY DEF Inv, InfoOK
  <2>2. \A a \in DOMAIN info'.symcache.symId : \E x \in Frames' : FrameAt(x)'.address = a
    BY <1>1, <2>1, SameProgram
  <2>3. InfoFits(info')
    BY <1>1, <2>1
  <2> QED BY <1>1, <2>1, <2>2, <2>3 DEF InfoOK
<1>6. Dumped = CountersOf(lines)
  BY <1>2 DEF Dumped
<1>7. Dumped' = CountersOf(lines)
  <2>1. PICK L : L = lines
    OBVIOUS
  <2>2. Dumped' = CountersOf(L)'
    BY <1>1, <1>2, <2>1 DEF Dumped
  <2> QED BY <1>1, <2>1, <2>2, SameProgram
<1>8. IsFiniteSet(Dumped)'
  BY <1>6, <1>7 DEF Inv
<1> QED BY <1>3, <1>4, <1>5, <1>6, <1>7, <1>8

(* What will be in the file, if no more is lost *)
Stream == (file \o SubSeq(buf, off + 1, Len(buf))) \o todo

(* A token goes from what is still to be put into the buffer. *)
LEMMA PutStays ==
  ASSUME Inv, PutToken
  PROVE  /\ Stream' = Stream
         /\ buf' \in Seq(Token) /\ todo' \in Seq(Token) /\ Len(buf') \in Nat \ {0}
<1>1. /\ phase = "put" /\ buf' = Append(buf, Head(todo)) /\ todo' = Tail(todo)
      /\ off' = off /\ file' = file
  BY DEF PutToken
<1>2. /\ file \in Seq(Token) /\ buf \in Seq(Token) /\ todo \in Seq(Token) /\ todo # <<>>
      /\ off = 0
  BY <1>1 DEF Inv, StreamOK
<1>3. PICK T : T = Token
  OBVIOUS
<1>4. Head(todo) \in T /\ Tail(todo) \in Seq(T)
  BY <1>2, <1>3
<1>5. PICK b, h, t, u, f : /\ b = buf /\ h = Head(todo) /\ t = Tail(todo) /\ u = todo /\ f = file
  OBVIOUS
<1>6. /\ b \in Seq(T) /\ h \in T /\ t \in Seq(T) /\ u \in Seq(T) /\ f \in Seq(T)
      /\ u = <<h>> \o t
  <2>1. u \in Seq(T) /\ u # <<>> /\ h = Head(u) /\ t = Tail(u)
    BY <1>2, <1>3, <1>5
  <2>2. u = <<h>> \o t
    BY <2>1
  <2> QED BY <1>2, <1>3, <1>4, <1>5, <2>2
<1>7. SubSeq(b, 1, Len(b)) = b
  BY <1>6, SubSeqFull
<1>8. Append(b, h) \in Seq(T) /\ Len(Append(b, h)) \in Nat \ {0}
  BY <1>6
<1>9. SubSeq(Append(b, h), 1, Len(Append(b, h))) = Append(b, h)
  BY <1>8, SubSeqFull
<1>10. (f \o Append(b, h)) \o t = (f \o b) \o u
  <2>1. PICK one : one = <<h>>
    OBVIOUS
  <2>2. one \in Seq(T) /\ Append(b, h) = b \o one /\ u = one \o t
    BY <1>6, <2>1, AppendIsConcat
  <2>3. f \o b \in Seq(T)
    BY <1>6, ConcatProperties
  <2>4. f \o (b \o one) = (f \o b) \o one
    BY <1>6, <2>2, ConcatAssociative
  <2>5. ((f \o b) \o one) \o t = (f \o b) \o (one \o t)
    <3>1. \A s, v, w \in Seq(T) : (s \o v) \o w = s \o (v \o w)
      BY ConcatAssociative
    <3> QED BY <1>6, <2>2, <2>3, <3>1
  <2> QED BY <2>2, <2>4, <2>5, Zenon
<1>11. off' + 1 = 1 /\ off + 1 = 1
  BY <1>1, <1>2
<1>12. SubSeq(buf', off' + 1, Len(buf')) = Append(b, h)
  BY <1>1, <1>5, <1>9, <1>11
<1>13. Stream = (f \o b) \o u
  BY <1>5, <1>7, <1>11 DEF Stream
<1>14. Stream' = (f \o Append(b, h)) \o t
  BY <1>1, <1>5, <1>12 DEF Stream
<1> QED BY <1>1, <1>3, <1>4, <1>5, <1>8, <1>10, <1>13, <1>14

(* The reader stays what it is while tokens are put and written. *)
LEMMA ReaderWaits ==
  ASSUME Inv, UNCHANGED <<program, writer, reader>>, Loaded, Loaded',
         failures' = 0 => failures = 0
  PROVE  ReadOK'
<1>1. program' = program /\ reader' = reader /\ info' = info
  BY DEF writer
<1>2. UNCHANGED Writing
  BY DEF writer, Writing
<1> SUFFICES ASSUME Good' PROVE /\ IsReader(reader)' /\ Follows(Follower)'
                                /\ phase' \notin {"begin", "done"}
  BY DEF ReadOK
<1>3. Good
  <2>1. Counting' = Counting /\ SharedFile' = SharedFile
    BY <1>1, SameProgram
  <2>2. failures' = 0 /\ Counting' /\ ~ SharedFile'
    BY Zenon DEF Good
  <2> QED BY <2>1, <2>2, Zenon DEF Good
<1>4. IsReader(reader) /\ Follows(Follower)
  BY <1>3 DEF Inv, ReadOK
<1>5. PICK r : r = Follower
  OBVIOUS
<1>6. Follower' = r
  BY <1>1, <1>5 DEF Follower
<1>7. Follows(r)'
  BY <1>2, <1>4, <1>5, StillFollows
<1> QED BY <1>1, <1>4, <1>6, <1>7 DEF Loaded

(* A token goes from what is still to be put to the buffer. *)
LEMMA StepPutToken ==
  ASSUME Inv, PutToken
  PROVE  Inv'
<1>1. /\ phase = "put" /\ buf' = Append(buf, Head(todo)) /\ todo' = Tail(todo)
      /\ phase' \in {"put", "flush"} /\ (todo' = <<>> => phase' = "flush")
      /\ UNCHANGED <<program, writer, off, file, failures, torn, reader>>
  BY DEF PutToken
<1>2. ~ Walking /\ ~ Walking' /\ Loaded /\ Loaded'
  BY <1>1 DEF Walking, Loaded
<1>3. WalkOK' /\ LinesOK' /\ InfoOK' /\ IsFiniteSet(Dumped)'
  BY <1>1, <1>2, WriterRests
<1>4. ReadOK'
  BY <1>1, <1>2, ReaderWaits
<1>5. PhaseOK'
  BY <1>1, <1>2 DEF Inv, PhaseOK, writer
<1>6. StreamOK'
  <2>1. /\ Stream' = Stream
        /\ buf' \in Seq(Token) /\ todo' \in Seq(Token) /\ Len(buf') \in Nat \ {0}
    BY PutStays
  <2>2. /\ file \in Seq(Token) /\ off = 0 /\ failures \in Nat /\ (failures = 0 => Stream = info.out)
        /\ (torn => failures # 0)
    BY <1>1, <1>2 DEF Inv, StreamOK, Stream
  <2>3. failures' = 0 => (file' \o SubSeq(buf', off' + 1, Len(buf'))) \o todo' = info'.out
    <3>1. failures' = failures /\ info' = info
      BY <1>1 DEF writer
    <3>2. failures' = 0 => Stream' = info'.out
      BY <2>1, <2>2, <3>1
    <3> QED BY <3>2 DEF Stream
  <2>4. phase' = "put" => todo' # <<>>
    BY <1>1
  <2>5. off' = 0 /\ file' \in Seq(Token) /\ failures' \in Nat /\ (torn' => failures' # 0)
    BY <1>1, <2>2
  <2>6. phase' = "flush" => off' \in 0..(Len(buf') - 1)
    BY <2>1, <2>5
  <2>7. phase' \in {"put", "flush"}
    BY <1>1
  <2> QED BY <2>1, <2>3, <2>4, <2>5, <2>6, <2>7 DEF StreamOK
<1> QED BY <1>3, <1>4, <1>5, <1>6 DEF Inv

(* What is left of the buffer after n more of its elements *)
CanWrite(b, k, n) == k \in Nat /\ n \in Nat \ {0} /\ k + n <= Len(b)

WrittenOn(T, f, b, k, n) ==
  /\ f \o SubSeq(b, k + 1, k + n) \in Seq(T)
  /\ (f \o SubSeq(b, k + 1, k + n)) \o SubSeq(b, (k + n) + 1, Len(b)) =
       f \o SubSeq(b, k + 1, Len(b))

(* What is written and what is left are what was there. *)
LEMMA WriteOn ==
  ASSUME NEW T, NEW f \in Seq(T), NEW b \in Seq(T), NEW k, NEW n, CanWrite(b, k, n)
  PROVE  WrittenOn(T, f, b, k, n)
<1>1. PICK x, y, z, l : /\ x = SubSeq(b, k + 1, k + n) /\ y = SubSeq(b, (k + n) + 1, Len(b))
                        /\ z = SubSeq(b, k + 1, Len(b)) /\ l = Len(b)
  OBVIOUS
<1>a. k \in Nat /\ n \in Nat \ {0} /\ k + n <= Len(b)
  BY DEF CanWrite
<1>2. l \in Nat /\ \A i \in 1..l : b[i] \in T
  BY <1>1, LenProperties
<1>3. x \in Seq(T)
  <2>1. k + 1 \in Int /\ k + n \in Int /\ \A i \in (k + 1)..(k + n) : b[i] \in T
    BY <1>a, <1>1, <1>2
  <2> QED BY <1>1, <2>1, SubSeqProperties
<1>4. y \in Seq(T)
  <2>1. (k + n) + 1 \in Int /\ l \in Int /\ \A i \in ((k + n) + 1)..l : b[i] \in T
    BY <1>a, <1>1, <1>2
  <2> QED BY <1>1, <2>1, SubSeqProperties
<1>5. x \o y = z
  <2>1. /\ k + 1 \in 1..(Len(b) + 1) /\ k + n \in ((k + 1) - 1)..Len(b)
        /\ Len(b) \in (k + n)..Len(b)
    BY <1>a, <1>1, <1>2
  <2>2. SubSeq(b, k + 1, k + n) \o SubSeq(b, (k + n) + 1, Len(b)) = SubSeq(b, k + 1, Len(b))
    BY <2>1, ConcatAdjacentSubSeq
  <2> QED BY <1>1, <2>2
<1>6. (f \o x) \o y = f \o (x \o y)
  <2>1. f \in Seq(T) /\ x \in Seq(T) /\ y \in Seq(T)
    BY <1>3, <1>4
  <2> QED BY <2>1, ConcatAssociative
<1>7. f \o x \in Seq(T)
  BY <1>3, ConcatProperties
<1> QED BY <1>1, <1>5, <1>6, <1>7 DEF WrittenOn

(* What write() transfers goes from the buffer into the file. *)
LEMMA WriteStays ==
  ASSUME Inv, NEW n \in 1..SIZE, Write(n)
  PROVE  /\ Stream' = Stream /\ file' \in Seq(Token) /\ buf' \in Seq(Token)
         /\ phase' = "flush" => off' \in 0..(Len(buf') - 1)
         /\ phase' \in {"put", "read"} => buf' = <<>> /\ off' = 0
         /\ phase' = "put" => todo # <<>>
         /\ phase' = "read" => todo = <<>>
<1>1. PICK contents : contents = file \o SubSeq(buf, off + 1, off + n)
  OBVIOUS
<1>2. /\ phase = "flush" /\ n <= Len(buf) - off /\ todo' = todo
      /\ Unwritten(n) => off' = off + n /\ file' = contents /\ phase' = phase /\ buf' = buf
      /\ ~ Unwritten(n) => Flushed(contents)
  BY <1>1 DEF Write
<1>3. /\ file \in Seq(Token) /\ buf \in Seq(Token) /\ off \in 0..(Len(buf) - 1)
  BY <1>2 DEF Inv, StreamOK
<1>4. n \in Nat \ {0} /\ Len(buf) \in Nat
  BY <1>3, SizeAssumption, LenProperties
<1>5. CanWrite(buf, off, n)
  BY <1>2, <1>3, <1>4 DEF CanWrite
<1>6. /\ contents \in Seq(Token)
      /\ contents \o SubSeq(buf, (off + n) + 1, Len(buf)) = file \o SubSeq(buf, off + 1, Len(buf))
  <2>1. PICK T, f, b, k : T = Token /\ f = file /\ b = buf /\ k = off
    OBVIOUS
  <2>2. f \in Seq(T) /\ b \in Seq(T) /\ CanWrite(b, k, n)
    BY <1>3, <1>5, <2>1
  <2>3. WrittenOn(T, f, b, k, n)
    BY <2>2, WriteOn
  <2> QED BY <1>1, <2>1, <2>3 DEF WrittenOn
<1>7. CASE Unwritten(n)
  <2>1. off' = off + n /\ file' = contents /\ phase' = "flush" /\ buf' = buf
    BY <1>2, <1>7
  <2>2. off' \in 0..(Len(buf') - 1)
    BY <1>3, <1>4, <1>7, <2>1 DEF Unwritten
  <2>3. Stream' = Stream
    BY <1>2, <1>6, <2>1 DEF Stream
  <2> QED BY <1>3, <1>6, <2>1, <2>2, <2>3
<1>8. CASE ~ Unwritten(n)
  <2>1. /\ buf' = <<>> /\ off' = 0 /\ file' = contents
        /\ phase' = IF todo = <<>> THEN "read" ELSE "put"
    BY <1>2, <1>8 DEF Flushed
  <2>2. off + n = Len(buf)
    BY <1>3, <1>4, <1>5, <1>8 DEF Unwritten, CanWrite
  <2>3. SubSeq(buf, (off + n) + 1, Len(buf)) = <<>>
    BY <1>4, <2>2, SubSeqEmpty
  <2>4. contents = file \o SubSeq(buf, off + 1, Len(buf))
    BY <1>6, <2>3, ConcatEmptySeq
  <2>5. SubSeq(buf', off' + 1, Len(buf')) = <<>>
    BY <2>1, SubSeqEmpty
  <2>6. file' \o SubSeq(buf', off' + 1, Len(buf')) = contents
    BY <1>6, <2>1, <2>5, ConcatEmptySeq
  <2>7. Stream' = Stream
    BY <1>2, <2>4, <2>6 DEF Stream
  <2>8. <<>> \in Seq(Token)
    OBVIOUS
  <2> QED BY <1>6, <2>1, <2>7, <2>8
<1> QED BY <1>7, <1>8

(* What is put is what is made, whatever write() takes of it. *)
LEMMA StepWrite ==
  ASSUME Inv, NEW n \in 1..SIZE, Write(n)
  PROVE  Inv'
<1>1. PICK contents : contents = file \o SubSeq(buf, off + 1, off + n)
  OBVIOUS
<1>2. /\ phase = "flush" /\ UNCHANGED <<program, writer, todo, failures, torn, reader>>
      /\ Unwritten(n) => phase' = phase
      /\ ~ Unwritten(n) => Flushed(contents)
  BY <1>1 DEF Write
<1>3. phase' \in {"flush", "read", "put"}
  BY <1>2 DEF Flushed
<1>4. ~ Walking /\ ~ Walking' /\ Loaded /\ Loaded'
  BY <1>2, <1>3 DEF Walking, Loaded
<1>5. WalkOK' /\ LinesOK' /\ InfoOK' /\ IsFiniteSet(Dumped)'
  BY <1>2, <1>4, WriterRests
<1>6. ReadOK'
  BY <1>2, <1>4, ReaderWaits
<1>7. PhaseOK'
  BY <1>2, <1>3, <1>4 DEF Inv, PhaseOK, writer
<1>8. StreamOK'
  <2>1. /\ Stream' = Stream /\ file' \in Seq(Token) /\ buf' \in Seq(Token)
        /\ phase' = "flush" => off' \in 0..(Len(buf') - 1)
        /\ phase' \in {"put", "read"} => buf' = <<>> /\ off' = 0
        /\ phase' = "put" => todo # <<>>
        /\ phase' = "read" => todo = <<>>
    BY WriteStays
  <2>2. /\ todo \in Seq(Token) /\ failures \in Nat /\ (failures = 0 => Stream = info.out)
        /\ (torn => failures # 0)
    BY <1>4 DEF Inv, StreamOK, Stream
  <2>3. failures' = 0 => (file' \o SubSeq(buf', off' + 1, Len(buf'))) \o todo' = info'.out
    <3>1. failures' = failures /\ info' = info
      BY <1>2 DEF writer
    <3>2. failures' = 0 => Stream' = info'.out
      BY <2>1, <2>2, <3>1
    <3> QED BY <3>2 DEF Stream
  <2> QED BY <1>2, <1>3, <2>1, <2>2, <2>3 DEF StreamOK
<1> QED BY <1>5, <1>6, <1>7, <1>8 DEF Inv

(* After a failure nothing is claimed of what is read. *)
LEMMA StepWriteFails ==
  ASSUME Inv, NEW cut \in BOOLEAN, WriteFails(cut)
  PROVE  Inv'
<1>1. /\ phase = "flush" /\ failures' = failures + 1
      /\ UNCHANGED <<program, writer, todo, reader>>
      /\ buf' = <<>> /\ off' = 0 /\ file' = file
      /\ phase' = IF todo = <<>> THEN "read" ELSE "put"
  BY DEF WriteFails, GiveUp, Flushed
<1>2. phase' \in {"read", "put"}
  BY <1>1
<1>3. ~ Walking /\ ~ Walking' /\ Loaded /\ Loaded'
  BY <1>1, <1>2 DEF Walking, Loaded
<1>4. /\ file \in Seq(Token) /\ todo \in Seq(Token) /\ failures \in Nat
  BY DEF Inv, StreamOK
<1>5. failures' # 0 /\ failures' \in Nat
  BY <1>1, <1>4
<1>6. WalkOK' /\ LinesOK' /\ InfoOK' /\ IsFiniteSet(Dumped)'
  BY <1>1, <1>3, WriterRests
<1>7. ReadOK'
  BY <1>1, <1>3, <1>5, ReaderWaits
<1>8. PhaseOK'
  BY <1>1, <1>2, <1>3 DEF Inv, PhaseOK, writer
<1>9. StreamOK'
  <2>1. <<>> \in Seq(Token)
    OBVIOUS
  <2>2. phase' = "put" => todo' # <<>>
    BY <1>1
  <2>3. phase' = "read" => todo' = <<>>
    BY <1>1
  <2> QED BY <1>1, <1>2, <1>4, <1>5, <2>1, <2>2, <2>3 DEF StreamOK
<1> QED BY <1>6, <1>7, <1>8, <1>9 DEF Inv

(* The whole dump has been read, and counts what has been dumped. *)
LEMMA ReadAll ==
  ASSUME Inv, phase = "read", Good
  PROVE  /\ readDump(reader, file) = Follower
         /\ IsReader(Follower)
         /\ Follower.cost = Costs(lines, CountersOf(lines), Follower.key)
         /\ Follower.key = "" => Unused(CountersOf(lines))
<1>1. Loaded /\ ~ Walking
  BY DEF Loaded, Walking
<1>2. IsReader(reader) /\ Follows(Follower)
  BY <1>1 DEF Inv, ReadOK
<1>3. PICK r : r = Follower
  OBVIOUS
<1>4. Dumped = CountersOf(lines)
  BY DEF Dumped
<1>5. /\ IsReader(r) /\ r.cost = Costs(lines, CountersOf(lines), r.key)
      /\ KeysFit(r, info, CountersOf(lines), dump) /\ r.expects = "line"
  BY <1>2, <1>3, <1>4 DEF Follows, StackFits
<1>6. file = info.out
  <2>1. /\ off = 0 /\ buf = <<>> /\ todo = <<>> /\ failures = 0 /\ file \in Seq(Token)
        /\ (file \o SubSeq(buf, off + 1, Len(buf))) \o todo = info.out
    BY <1>1 DEF Inv, StreamOK, Good
  <2>2. SubSeq(buf, off + 1, Len(buf)) = <<>>
    BY <2>1, SubSeqEmpty
  <2> QED BY <2>1, <2>2, ConcatEmptySeq
<1>7. /\ Len(r.keys) = info.nctrs /\ r.keys \in Seq(BOOLEAN)
      /\ r.key = "" => Unused(CountersOf(lines))
      /\ info.nctrs = 0 => Unused({c \in CountersOf(lines) : c[1][1] = dump})
  BY <1>5 DEF KeysFit, KeyTable
<1>8. info.nctrs # 0
  <2>1. dump \in DOMAIN program.dumps /\ program \in Programs
    <3>1. program \in Programs /\ dump \in 0..Len(program.dumps) /\ dump > 0
      BY DEF Inv, PhaseOK
    <3>2. program.dumps \in Seq(Seq(Trees))
      BY <3>1, TreesOf
    <3> QED BY <3>1, <3>2
  <2>2. PICK c \in CountersOf(FramesOf(dump)) : CounterAt(c).ticks > 0
    BY <2>1 DEF Good, Counting
  <2>3. PICK x \in FramesOf(dump) : c \in {<<x, j>> : j \in DOMAIN FrameAt(x).counters}
    BY <2>2 DEF CountersOf
  <2>4. c[1] = x
    BY <2>3
  <2>5. x \in Frames
    BY <2>1, <2>3 DEF Frames
  <2>6. x[1] = dump
    <3>1. PICK b \in DOMAIN program.dumps[dump] :
            x \in {<<dump, b, i>> : i \in 2..Len(BufferAt(dump, b))}
      BY <2>3 DEF FramesOf
    <3> QED BY <3>1
  <2>7. x \in lines
    BY <1>1, <2>5, <2>6 DEF Inv, LinesOK
  <2>8. c \in CountersOf(lines) /\ c[1][1] = dump
    BY <2>3, <2>4, <2>6, <2>7 DEF CountersOf
  <2>9. ~ (CounterAt(c).ticks = 0)
    BY <2>2
  <2> QED BY <1>7, <2>8, <2>9 DEF Unused
<1>9. r.keys # <<>>
  <2>1. PICK k : k = r.keys
    OBVIOUS
  <2>2. Len(k) # 0
    BY <1>7, <1>8, <2>1
  <2> QED BY <2>1, <2>2
<1>10. readDump(reader, file) = r
  <2>1. reader.status = "reading"
    <3>1. IsReader(reader)
      BY <1>2
    <3> QED BY <3>1 DEF IsReader
  <2>2. FoldLeft(ReadToken, Reader(reader), file) = r
    BY <1>3, <1>6, Zenon DEF Follower, Reading
  <2> QED BY <1>5, <1>9, <2>1, <2>2 DEF readDump
<1> QED BY <1>3, <1>5, <1>7, <1>10

(* A dump that was written in full is read in full. *)
LEMMA StepRead ==
  ASSUME Inv, Read
  PROVE  Inv'
<1>1. /\ phase = "read" /\ file' = <<>> /\ torn' = torn
      /\ ~ torn => reader' = readDump(reader, file)
      /\ phase' = IF dump = Len(program.dumps) THEN "done" ELSE "begin"
      /\ UNCHANGED <<program, writer, todo, buf, off, failures>>
  BY DEF Read
<1>2. phase' \in {"done", "begin"}
  BY <1>1
<1>3. ~ Walking /\ ~ Walking' /\ ~ Loaded'
  BY <1>1, <1>2 DEF Walking, Loaded
<1>4. WalkOK' /\ LinesOK' /\ InfoOK' /\ IsFiniteSet(Dumped)'
  BY <1>1, <1>3, WriterRests
<1>5. PhaseOK'
  <2>1. /\ program \in Programs /\ dump \in 0..Len(program.dumps) /\ dump > 0
    BY <1>1 DEF Inv, PhaseOK
  <2>2. program' = program /\ dump' = dump
    BY <1>1 DEF writer
  <2>3. Len(program.dumps) \in Nat
    BY <2>1, TreesOf
  <2>4. phase' = "begin" => dump < Len(program.dumps)
    BY <1>1, <2>1, <2>3
  <2>5. phase' = "done" => dump = Len(program.dumps)
    BY <1>1
  <2> QED BY <1>2, <1>3, <2>1, <2>2, <2>4, <2>5 DEF PhaseOK
<1>6. StreamOK'
  <2>1. <<>> \in Seq(Token)
    OBVIOUS
  <2>2. off = 0 /\ buf = <<>> /\ todo = <<>> /\ failures \in Nat /\ (torn => failures # 0)
    BY <1>1 DEF Inv, StreamOK
  <2> QED BY <1>1, <1>2, <1>3, <2>1, <2>2 DEF StreamOK
<1>7. ReadOK'
  <2> SUFFICES ASSUME Good'
               PROVE  /\ IsReader(reader')
                      /\ reader'.cost = Costs(lines, CountersOf(lines), reader.key)'
                      /\ reader'.key = "" => Unused(CountersOf(lines))'
    BY <1>3, Zenon DEF ReadOK
  <2>1. program' = program /\ lines' = lines /\ failures' = failures
    BY <1>1 DEF writer
  <2>2. Good
    <3>1. Counting' = Counting /\ SharedFile' = SharedFile
      BY <2>1, SameProgram
    <3>2. failures' = 0 /\ Counting' /\ ~ SharedFile'
      BY Zenon DEF Good
    <3> QED BY <2>1, <3>1, <3>2, Zenon DEF Good
  <2>a. ~ torn
    BY <2>2 DEF Inv, StreamOK, Good
  <2>3. PICK r, L, D, k : r = Follower /\ L = lines /\ D = CountersOf(L) /\ k = r.key
    OBVIOUS
  <2>4. /\ reader' = r /\ IsReader(r) /\ r.cost = Costs(L, D, k)
        /\ k = "" => Unused(D)
    BY <1>1, <2>2, <2>a, <2>3, ReadAll
  <2>5. /\ Costs(L, D, k)' = Costs(L, D, k) /\ Unused(D)' = Unused(D)
        /\ CountersOf(L)' = D
    BY <2>1, <2>3, SameProgram
  <2>6. Costs(lines, CountersOf(lines), reader.key)' = Costs(L, D, k)'
    BY <2>1, <2>3, <2>4, <2>5
  <2>7. Unused(CountersOf(lines))' = Unused(D)'
    BY <2>1, <2>3, <2>5
  <2> QED BY <2>3, <2>4, <2>5, <2>6, <2>7
<1> QED BY <1>4, <1>5, <1>6, <1>7 DEF Inv

-----------------------------------------------------------------------------
(* The steps of the writer *)

(* An IgProfDumpInfo that is new, when no counter has a number *)
LEMMA InfoStart ==
  ASSUME NEW ids \in [CounterDefs -> Int], \A c \in CounterDefs : ids[c] = -1,
         NEW i, i = IgProfDumpInfo(ids)
  PROVE  /\ InfoFits(i) /\ i.nsyms = 0 /\ i.nlibs = 0 /\ i.nctrs = 0 /\ i.ids = ids
         /\ DOMAIN i.symcache.symId = {} /\ DOMAIN i.symcache.binId = {}
         /\ i.out = <<[k |-> "P"]>>
<1>1. PICK zero, c, out, no : zero = 0 /\ c = IgProfSymCache /\ out = <<[k |-> "P"]>> /\ no = FALSE
  OBVIOUS
<1>2. i = InfoOf(zero, zero, zero, c, ids, out, no)
  BY <1>1, Zenon DEF IgProfDumpInfo, InfoOf
<1>3. CacheOK(c)
  BY <1>1, CacheInit
<1>4. DOMAIN c.symId = {} /\ DOMAIN c.binId = {}
  BY <1>1 DEF IgProfSymCache
<1>5. out \in Seq(Token)
  <2>1. PICK t : t = [k |-> "P"]
    OBVIOUS
  <2>2. t \in Token
    BY <2>1 DEF Token
  <2> QED BY <1>1, <2>1, <2>2
<1>6. zero \in Nat
  BY <1>1
<1>7. InfoFits(i)
  BY <1>1, <1>2, <1>3, <1>4, <1>5, <1>6, InfoFitsOf
<1>8. /\ i.nsyms = zero /\ i.nlibs = zero /\ i.nctrs = zero /\ i.symcache = c /\ i.ids = ids
      /\ i.out = out
  BY <1>2, InfoFields
<1> QED BY <1>1, <1>4, <1>7, <1>8

(* Nothing has been read. *)
LEMMA NoCosts ==
  ASSUME NEW key
  PROVE  Costs({}, {}, key) = << >>
<1>1. {PathTo(x) : x \in {}} = {}
  OBVIOUS
<1> QED BY <1>1 DEF Costs

(* Before the first dump *)
LEMMA InitInv == Init => Inv
<1> SUFFICES ASSUME Init PROVE Inv
  OBVIOUS
<1>1. /\ program \in Programs /\ phase = "begin" /\ dump = 0 /\ lines = {}
      /\ info = IgProfDumpInfo(NoNumbers)
      /\ todo = <<>> /\ buf = <<>> /\ off = 0 /\ file = <<>> /\ failures = 0 /\ torn = FALSE
      /\ reader = FirstReader(program.key)
  BY DEF Init
<1>2. ~ Walking /\ ~ Loaded
  BY <1>1 DEF Walking, Loaded
<1>3. PhaseOK
  <2>1. Len(program.dumps) \in Nat \ {0}
    BY <1>1, TreesOf
  <2> QED BY <1>1, <1>2, <2>1 DEF PhaseOK
<1>4. WalkOK
  BY <1>2 DEF WalkOK
<1>5. LinesOK
  <2> SUFFICES ASSUME NEW x \in Frames PROVE x[1] \in Nat \ {0}
    BY <1>1 DEF LinesOK
  <2>1. x[1] \in DOMAIN program.dumps
    BY <1>1, FrameIsPlace
  <2>2. DOMAIN program.dumps = 1..Len(program.dumps)
    <3>1. program.dumps \in Seq(Seq(Trees))
      BY <1>1, TreesOf
    <3> QED BY <3>1
  <2> QED BY <2>1, <2>2
<1>6. InfoOK
  <2>1. NoNumbers \in [CounterDefs -> Int] /\ \A c \in CounterDefs : NoNumbers[c] = -1
    BY DEF NoNumbers
  <2>2. /\ InfoFits(info) /\ info.ids = NoNumbers /\ DOMAIN info.symcache.symId = {}
        /\ info.out = <<[k |-> "P"]>>
    BY <1>1, <2>1, InfoStart
  <2>3. info.out # <<>>
    BY <2>2
  <2> QED BY <2>1, <2>2, <2>3 DEF InfoOK
<1>7. StreamOK
  <2>1. <<>> \in Seq(Token)
    OBVIOUS
  <2> QED BY <1>1, <1>2, <2>1 DEF StreamOK
<1>8. CountersOf(lines) = {}
  BY <1>1 DEF CountersOf
<1>9. Dumped = {}
  BY <1>8 DEF Dumped
<1>10. IsFiniteSet(Dumped)
  BY <1>9, FS_EmptySet
<1>11. ReadOK
  <2>1. IsReader(reader) /\ reader.cost = << >>
    <3>1. PICK key, st, no, none, p : /\ key = program.key /\ st = "reading" /\ no = << >>
                                      /\ none = {} /\ p = "P"
      OBVIOUS
    <3>2. reader = ReaderOf(key, none, no, st, no, no, no, none, no, p)
      BY <1>1, <3>1, Zenon DEF FirstReader, ReaderOf
    <3> QED BY <3>1, <3>2, ReaderIs
  <2>2. reader.cost = Costs(lines, CountersOf(lines), reader.key)
    BY <1>1, <1>8, <2>1, NoCosts
  <2>3. Unused(CountersOf(lines))
    BY <1>8 DEF Unused
  <2> QED BY <1>2, <2>1, <2>2, <2>3 DEF ReadOK
<1> QED BY <1>3, <1>4, <1>5, <1>6, <1>7, <1>10, <1>11 DEF Inv

(* The reader follows the writer after a step, if it does with what is new. *)
LEMMA FollowsNext ==
  ASSUME program' = program, NEW q, IsReader(q),
         NEW L, L = lines', NEW D, D = Dumped', NEW i, i = info', NEW d, d = dump',
         q.cost = Costs(L, D, q.key), Walking' => SymbolsFit(q, i), KeysFit(q, i, D, d),
         StackFits(q)'
  PROVE  Follows(q)'
<1>1. q.cost = Costs(lines, Dumped, q.key)'
  <2>1. PICK k : k = q.key
    OBVIOUS
  <2>2. Costs(L, D, k)' = Costs(L, D, k)
    BY SameProgram
  <2> QED BY <2>1, <2>2
<1>2. KeysFit(q, info, Dumped, dump)'
  <2>1. PICK E : E = {c \in D : c[1][1] = d}
    OBVIOUS
  <2>2. Unused(D)' = Unused(D) /\ Unused(E)' = Unused(E)
    BY SameProgram
  <2>3. KeyTable(q, i) /\ (q.key = "" => Unused(D)') /\ (i.nctrs = 0 => Unused(E)')
    BY <2>1, <2>2 DEF KeysFit
  <2>4. E = {c \in Dumped : c[1][1] = dump}'
    BY <2>1
  <2>5. Unused({c \in Dumped : c[1][1] = dump})' = Unused(E)'
    BY <2>4
  <2>6. Unused(Dumped)' = Unused(D)'
    OBVIOUS
  <2>7. KeyTable(q, info)'
    BY <2>3 DEF KeyTable
  <2> QED BY <2>3, <2>5, <2>6, <2>7 DEF KeysFit
<1>3. Walking' => SymbolsFit(q, info)'
  BY DEF SymbolsFit
<1> QED BY <1>1, <1>2, <1>3 DEF Follows, IsReader

(* What makes a run a good one is settled before it. *)
LEMMA StillGood ==
  ASSUME program' = program, failures' = failures, Good'
  PROVE  Good
<1>1. Counting' = Counting /\ SharedFile' = SharedFile
  BY SameProgram
<1>2. failures' = 0 /\ Counting' /\ ~ SharedFile'
  BY Zenon DEF Good
<1> QED BY <1>1, <1>2, Zenon DEF Good

(* The first buffer of a dump *)
LEMMA BeginPhase ==
  ASSUME Inv, Begin
  PROVE  /\ PhaseOK' /\ Walking' /\ dump' = dump + 1 /\ dump \in Nat
         /\ (Buffer \in Trees)' /\ (Len(Buffer) \in Nat \ {0})' /\ (DOMAIN Buffer = 1..Len(Buffer))'
         /\ \A i : Here(i)' \in Frames <=> i \in 2..Len(Buffer')
<1>1. /\ phase = "begin" /\ phase' = "frames" /\ dump' = dump + 1 /\ buffer' = 1
      /\ program' = program
  BY DEF Begin
<1>2. /\ program \in Programs /\ dump \in 0..Len(program.dumps) /\ dump < Len(program.dumps)
  BY <1>1 DEF Inv, PhaseOK
<1>3. /\ program.dumps \in Seq(Seq(Trees)) /\ Len(program.dumps) \in Nat \ {0}
      /\ \A d \in DOMAIN program.dumps :
           Len(program.dumps[d]) \in Nat \ {0} /\ DOMAIN program.dumps[d] = 1..Len(program.dumps[d])
  BY <1>2, TreesOf
<1>4. dump \in Nat /\ dump' \in 0..Len(program.dumps) /\ dump' > 0 /\ dump' \in DOMAIN program.dumps
  <2>1. DOMAIN program.dumps = 1..Len(program.dumps)
    BY <1>3
  <2> QED BY <1>1, <1>2, <1>3, <2>1
<1>5. buffer' \in DOMAIN program.dumps[dump']
  <2>1. DOMAIN program.dumps[dump'] = 1..Len(program.dumps[dump']) /\ Len(program.dumps[dump']) \in Nat \ {0}
    BY <1>3, <1>4
  <2> QED BY <1>1, <2>1
<1>6. Walking'
  BY <1>1 DEF Walking
<1>7. PhaseOK'
  BY <1>1, <1>2, <1>4, <1>5, <1>6 DEF PhaseOK
<1>8. /\ (Buffer \in Trees)' /\ (Len(Buffer) \in Nat \ {0})' /\ (DOMAIN Buffer = 1..Len(Buffer))'
      /\ (\A i : Here(i) \in Frames <=> i \in 2..Len(Buffer))'
  BY <1>6, <1>7, InBuffer, PTL
<1>9. Frames' = Frames
  BY <1>1, SameProgram
<1> QED BY <1>1, <1>4, <1>6, <1>7, <1>8, <1>9

(* A dump begins: nothing of it is there, and what precedes it is. *)
LEMMA StepBegin ==
  ASSUME Inv, Begin
  PROVE  Inv'
<1>1. /\ phase = "begin" /\ phase' = "frames" /\ dump' = dump + 1 /\ buffer' = 1
      /\ stack' = <<Root>> /\ info' = IgProfDumpInfo(info.ids)
      /\ UNCHANGED <<program, ctr, lines, fastio, reader>>
  BY DEF Begin
<1>2. /\ PhaseOK' /\ Walking' /\ dump \in Nat
      /\ (Buffer \in Trees)' /\ (Len(Buffer) \in Nat \ {0})' /\ (DOMAIN Buffer = 1..Len(Buffer))'
      /\ \A i : Here(i)' \in Frames <=> i \in 2..Len(Buffer')
  BY BeginPhase
<1>3. /\ program' = program /\ lines' = lines /\ reader' = reader /\ Frames' = Frames
      /\ todo' = todo /\ buf' = buf /\ off' = off /\ file' = file /\ failures' = failures /\ torn' = torn
  BY <1>1, SameProgram DEF fastio
<1>4. ~ Walking /\ ~ Loaded /\ ~ Loaded' /\ phase # "counters" /\ phase' # "counters"
  BY <1>1 DEF Walking, Loaded
<1>5. program \in Programs
  BY DEF Inv, PhaseOK
<1>6. /\ lines \subseteq Frames
      /\ \A x \in Frames : x[1] \in Nat \ {0} /\ x[2] \in Nat \ {0}
                           /\ (x[1] <= dump => x \in lines) /\ (x[1] > dump => x \notin lines)
  <2>1. SUFFICES ASSUME NEW x \in Frames
                 PROVE  /\ x[1] \in Nat \ {0} /\ x[2] \in Nat \ {0}
                        /\ (x[1] <= dump => x \in lines) /\ (x[1] > dump => x \notin lines)
    BY DEF Inv, LinesOK
  <2>2. /\ x[1] \in DOMAIN program.dumps /\ x[2] \in DOMAIN program.dumps[x[1]]
        /\ DOMAIN program.dumps[x[1]] = 1..Len(program.dumps[x[1]])
        /\ Len(program.dumps[x[1]]) \in Nat
    BY <1>5, FrameIsPlace, TreesOf
  <2>3. DOMAIN program.dumps = 1..Len(program.dumps) /\ Len(program.dumps) \in Nat
    <3>1. program.dumps \in Seq(Seq(Trees))
      BY <1>5, TreesOf
    <3> QED BY <3>1
  <2>4. x[1] \in Nat \ {0} /\ x[2] \in Nat \ {0}
    BY <2>2, <2>3
  <2> QED BY <1>2, <1>4, <2>4 DEF Inv, LinesOK
<1>7. \A i \in 2..Len(Buffer') : Here(i)' \notin lines
  <2> SUFFICES ASSUME NEW i \in 2..Len(Buffer') PROVE Here(i)' \notin lines
    OBVIOUS
  <2>1. Here(i)' \in Frames
    BY <1>2
  <2>2. Here(i)'[1] = dump + 1
    BY <1>1 DEF Here
  <2>3. Here(i)'[1] > dump
    BY <1>2, <2>2
  <2> QED BY <1>6, <2>1, <2>3
<1>8. Seen' = {1}
  BY <1>3, <1>7 DEF Seen
<1>9. Fresh'
  BY <1>1, <1>3, <1>7 DEF Fresh
<1>10. WalkOK'
  <2>1. Closed(Buffer', Seen')
    BY <1>2, <1>8 DEF Closed
  <2>2. Closed(Buffer, Seen)'
    BY <2>1 DEF Closed
  <2> QED BY <1>4, <1>9, <2>2 DEF WalkOK
<1>11. LinesOK'
  <2> SUFFICES ASSUME NEW x \in Frames
               PROVE  /\ x[1] < dump' => x \in lines
                      /\ x[1] > dump' => x \notin lines
                      /\ x[1] = dump' => /\ x[2] < buffer' => x \in lines
                                         /\ x[2] > buffer' => x \notin lines
    BY <1>2, <1>3, <1>6 DEF LinesOK
  <2>1. x[1] \in Nat \ {0} /\ x[2] \in Nat \ {0}
    BY <1>6
  <2> QED BY <1>1, <1>2, <1>6, <2>1
<1>12. /\ info.ids \in [CounterDefs -> Int] /\ \A c \in CounterDefs : info.ids[c] = -1
  BY <1>4 DEF Inv, InfoOK, InfoFits
<1>13. PICK i : i = info'
  OBVIOUS
<1>14. /\ InfoFits(i) /\ i.nsyms = 0 /\ i.nlibs = 0 /\ i.nctrs = 0 /\ i.ids = info.ids
       /\ DOMAIN i.symcache.symId = {} /\ DOMAIN i.symcache.binId = {}
       /\ i.out = <<[k |-> "P"]>>
  BY <1>1, <1>12, <1>13, InfoStart
<1>15. InfoOK'
  <2>1. InfoFits(info)'
    BY <1>13, <1>14 DEF InfoFits
  <2>2. i.out # <<>>
    BY <1>14
  <2> QED BY <1>12, <1>13, <1>14, <2>1, <2>2 DEF InfoOK
<1>16. StreamOK'
  BY <1>1, <1>3, <1>4 DEF Inv, StreamOK
<1>17. PICK L, D : L = lines /\ D = CountersOf(L)
  OBVIOUS
<1>18. Dumped = D /\ Dumped' = D
  <2>1. Dumped = D
    BY <1>4, <1>17 DEF Dumped
  <2>2. Dumped' = CountersOf(L)'
    BY <1>3, <1>4, <1>17 DEF Dumped
  <2> QED BY <1>3, <1>17, <2>1, <2>2, SameProgram
<1>19. IsFiniteSet(Dumped)'
  BY <1>18 DEF Inv
<1>20. ReadOK'
  <2> SUFFICES ASSUME Good' PROVE IsReader(reader)' /\ Follows(Follower)'
    BY <1>1 DEF ReadOK
  <2>1. Good
    BY <1>3, StillGood
  <2>2. /\ IsReader(reader)
        /\ reader.cost = Costs(L, D, reader.key)
        /\ reader.key = "" => Unused(D)
    BY <1>1, <1>17, <2>1 DEF Inv, ReadOK
  <2>3. PICK q : q = Reading(Reader(reader), <<[k |-> "P"]>>)
    OBVIOUS
  <2>4. Follower' = q
    BY <1>3, <1>13, <1>14, <2>3 DEF Follower
  <2>5. /\ IsReader(q) /\ q.key = reader.key /\ q.cost = reader.cost /\ q.nodestack = <<>>
        /\ q.symbols = <<>> /\ q.files = <<>> /\ q.namedFiles = {} /\ q.keys = <<>>
        /\ q.expects = "line"
    BY <2>2, <2>3, HeaderRead
  <2>6. SymbolsFit(q, i)
    <3>1. \A S : <<>> \in Seq(S)
      OBVIOUS
    <3> QED BY <1>14, <2>5, <3>1 DEF SymbolsFit, SymbolTable, FileTable
  <2>7. PICK d : d = dump'
    OBVIOUS
  <2>8. KeysFit(q, i, D, d)
    <3>1. KeyTable(q, i)
      <4>1. q.keys \in Seq(BOOLEAN) /\ Len(q.keys) = 0
        BY <2>5
      <4> QED BY <1>12, <1>14, <4>1 DEF KeyTable
    <3>2. {c \in D : c[1][1] = d} = {}
      <4> SUFFICES ASSUME NEW c \in D PROVE c[1][1] # d
        OBVIOUS
      <4>1. c[1] \in lines
        <5>1. PICK x \in L : c \in {<<x, j>> : j \in DOMAIN FrameAt(x).counters}
          BY <1>17 DEF CountersOf
        <5> QED BY <1>17, <5>1
      <4>2. c[1] \in Frames /\ ~ (c[1][1] > dump)
        BY <1>6, <4>1
      <4> QED BY <1>1, <1>2, <2>7, <4>2
    <3>3. Unused({})
      BY DEF Unused
    <3> QED BY <2>2, <2>5, <3>1, <3>2, <3>3 DEF KeysFit
  <2>9. StackFits(q)'
    <3>1. <<>> \in Seq(Names)
      OBVIOUS
    <3> QED BY <1>4, <1>9, <2>5, <3>1 DEF StackFits
  <2>10. Follows(q)'
    BY <1>3, <1>13, <1>17, <1>18, <2>2, <2>5, <2>6, <2>7, <2>8, <2>9, FollowsNext
  <2>11. Follows(Follower)'
    BY <2>4, <2>10
  <2> QED BY <1>3, <2>2, <2>11 DEF IsReader
<1> QED BY <1>2, <1>10, <1>11, <1>15, <1>16, <1>19, <1>20 DEF Inv

(* Outside of the lines, the counters of all lines have been dumped. *)
LEMMA AllDumped ==
  /\ phase # "counters" => Dumped = CountersOf(lines)
  /\ phase' # "counters" => Dumped' = CountersOf(lines)'
<1>1. phase # "counters" => Dumped = CountersOf(lines)
  BY DEF Dumped
<1>2. phase' # "counters" => Dumped' = CountersOf(lines)'
  BY DEF Dumped
<1> QED BY <1>1, <1>2

(* The root is entered: its children come next. *)
LEMMA StepEnterRoot ==
  ASSUME Inv, EnterRoot
  PROVE  Inv'
<1>1. /\ phase = "frames" /\ phase' = "frames" /\ stack # <<>> /\ Current.depth = 0
      /\ stack' = Below(Buffer, Current) \o Tail(stack)
      /\ UNCHANGED <<program, dump, buffer, ctr, info, lines, fastio, reader>>
  BY DEF EnterRoot, Descend
<1>2. /\ Walking /\ Walking' /\ ~ Loaded /\ ~ Loaded'
  BY <1>1 DEF Walking, Loaded
<1>3. PICK tree : tree = Buffer
  OBVIOUS
<1>4. tree \in Trees /\ Len(tree) \in Nat \ {0} /\ DOMAIN tree = 1..Len(tree)
  BY <1>2, <1>3, InBuffer DEF Inv
<1>5. /\ program' = program /\ dump' = dump /\ buffer' = buffer /\ info' = info
      /\ lines' = lines /\ reader' = reader /\ todo' = todo /\ buf' = buf /\ off' = off
      /\ file' = file /\ failures' = failures /\ torn' = torn /\ Buffer' = tree
  BY <1>1, <1>3 DEF fastio, Buffer, Buffers
<1>6. Fresh
  <2> SUFFICES ASSUME ~ Fresh PROVE FALSE
    OBVIOUS
  <2>1. IsWalk(tree, stack, Seen)
    BY <1>1, <1>2, <1>3 DEF Inv, WalkOK, ToEnter
  <2>2. Head(stack).depth \in Nat \ {0}
    BY <1>1, <1>4, <2>1, WalkTail
  <2> QED BY <1>1, <2>2 DEF Current
<1>7. stack = <<Root>> /\ Current = Root /\ Tail(stack) = <<>>
  BY <1>6 DEF Fresh, Current
<1>8. Seen = {1} /\ Seen' = {1}
  <2>1. Seen = {1}
    BY <1>6 DEF Fresh, Seen
  <2>2. Seen' = Seen
    BY <1>3, <1>5 DEF Seen, Here
  <2> QED BY <2>1, <2>2
<1>9. stack' = Below(tree, Root) \o <<>>
  BY <1>1, <1>3, <1>7
<1>10. IsWalk(tree, stack', {1})
  <2>1. PICK seen, t : seen = {} /\ t = <<>>
    OBVIOUS
  <2>2. t \in Seq(ItemsOf(tree)) /\ DOMAIN t = {} /\ seen \in SUBSET DOMAIN tree
    BY <2>1
  <2>3. 1 \in DOMAIN tree /\ 0 \in Nat /\ 0 = Len(PathsOf(tree)[1])
    <3>1. PathsOf(tree)[1] = <<>>
      BY <1>4, PathFacts
    <3> QED BY <1>4, <3>1
  <2>4. \A g \in 2..Len(tree) : (\E j \in DOMAIN t : t[j].frame = g) <=>
           g \notin seen /\ g # 1 /\ ParentOf(tree, g) \in seen
    BY <2>1, <2>2
  <2>5. IsWalk(tree, Below(tree, Item(1, 0)) \o t, seen \cup {1})
    BY <1>4, <2>1, <2>2, <2>3, <2>4, WalkOn
  <2>6. seen \cup {1} = {1}
    BY <2>1
  <2> QED BY <1>9, <2>1, <2>5, <2>6 DEF Root
<1>11. WalkOK'
  <2>1. ToEnter' = stack'
    BY <1>1 DEF ToEnter
  <2>2. IsWalk(Buffer, ToEnter, Seen)'
    BY <1>5, <1>8, <1>10, <2>1 DEF IsWalk
  <2>3. Closed(Buffer, Seen)'
    <3>1. Closed(tree, {1})
      BY <1>4 DEF Closed
    <3> QED BY <1>5, <1>8, <3>1 DEF Closed
  <2> QED BY <1>1, <2>2, <2>3 DEF WalkOK
<1>12. PhaseOK'
  <2>1. Buffer' = Buffer /\ program' = program
    BY <1>3, <1>5
  <2> QED BY <1>1, <1>2, <1>5 DEF Inv, PhaseOK
<1>13. LinesOK'
  <2>1. Frames' = Frames
    BY <1>5, SameProgram
  <2> QED BY <1>2, <1>5, <2>1 DEF Inv, LinesOK
<1>14. InfoOK'
  <2>1. InfoFits(info)'
    BY <1>5 DEF Inv, InfoOK, InfoFits
  <2>2. \A a \in DOMAIN info.symcache.symId : \E x \in Frames' : FrameAt(x)'.address = a
    BY <1>5, SameProgram DEF Inv, InfoOK
  <2>3. \A c \in CounterDefs :
          info.ids[c] # -1 => \E j \in DOMAIN tree : c \in Defs(tree, j)
    BY <1>3 DEF Inv, InfoOK
  <2>4. info.out # <<>>
    BY DEF Inv, InfoOK
  <2> QED BY <1>2, <1>5, <2>1, <2>2, <2>3, <2>4 DEF InfoOK, Defs
<1>15. StreamOK'
  BY <1>1, <1>2, <1>5 DEF Inv, StreamOK
<1>16. Dumped' = Dumped
  <2>1. PICK L : L = lines
    OBVIOUS
  <2>2. Dumped = CountersOf(L) /\ Dumped' = CountersOf(L)'
    BY <1>1, <1>5, <2>1, AllDumped
  <2> QED BY <1>5, <2>2, SameProgram
<1>17. IsFiniteSet(Dumped)'
  BY <1>16 DEF Inv
<1>18. ReadOK'
  <2> SUFFICES ASSUME Good' PROVE IsReader(reader)' /\ Follows(Follower)'
    BY <1>1 DEF ReadOK
  <2>1. Good
    BY <1>5, StillGood
  <2>2. IsReader(reader) /\ Follows(Follower)
    BY <1>2, <2>1 DEF Inv, ReadOK
  <2>3. PICK q : q = Follower
    OBVIOUS
  <2>4. Follower' = q
    BY <1>5, <2>3 DEF Follower
  <2>5. PICK L, D, i, d : L = lines /\ D = Dumped /\ i = info /\ d = dump
    OBVIOUS
  <2>6. /\ IsReader(q) /\ q.cost = Costs(L, D, q.key) /\ SymbolsFit(q, i)
        /\ KeysFit(q, i, D, d) /\ StackFits(q)
    BY <1>2, <2>2, <2>3, <2>5 DEF Follows
  <2>7. StackFits(q)'
    <3>1. q.nodestack \in Seq(Names) /\ q.expects = "line"
      BY <1>1, <2>6 DEF StackFits
    <3>2. OnStack(tree, stack', q.nodestack)
      BY <1>4, <1>9, <3>1, RootOnStack
    <3>3. ToEnter' = stack'
      BY <1>1 DEF ToEnter
    <3>4. OnStack(Buffer, ToEnter, q.nodestack)'
      BY <1>5, <3>2, <3>3 DEF OnStack
    <3> QED BY <1>1, <3>1, <3>4 DEF StackFits
  <2>8. Follows(q)'
    BY <1>5, <1>16, <2>5, <2>6, <2>7, FollowsNext
  <2>9. Follows(Follower)'
    BY <2>4, <2>8
  <2> QED BY <1>5, <2>2, <2>9 DEF IsReader
<1> QED BY <1>11, <1>12, <1>13, <1>14, <1>15, <1>17, <1>18 DEF Inv

(* The frame that is entered, and what the writer makes of it *)
LEMMA EnterFrameWalk ==
  ASSUME Inv, EnterFrame, NEW tree, tree = Buffer, NEW f, f = Current.frame,
         NEW d, d = Current.depth, NEW a, a = tree[f].address, NEW x, x = Here(f)
  PROVE  /\ tree \in Trees /\ Len(tree) \in Nat \ {0} /\ DOMAIN tree = 1..Len(tree)
         /\ f \in 2..Len(tree) /\ d \in Nat \ {0} /\ d = Len(PathsOf(tree)[f])
         /\ a \in Addresses /\ Current = Item(f, d)
         /\ ~ Fresh /\ IsWalk(tree, stack, Seen)
         /\ x \in Frames \ lines /\ FrameAt(x) = tree[f] /\ PathTo(x) = PathsOf(tree)[f]
         /\ phase' = "counters"
         /\ \E t : /\ FramePut(info, info', t, a)
                   /\ \A r : /\ CanRead(r, info, d)
                             /\ \A y \in DOMAIN info.symcache.symId :
                                  RealPath[BinaryOf[y]] = RealPath[BinaryOf[a]] =>
                                    BinaryOf[y] = BinaryOf[a]
                             => /\ Reached(r, ReadToken(r, t), Child(r, d, a))
                                /\ SymbolsFit(ReadToken(r, t), info')
<1>1. /\ phase = "frames" /\ stack # <<>> /\ d > 0 /\ info' = PutFrame(info, d, a)
      /\ phase' = IF info'.crashed THEN "done" ELSE "counters"
  BY DEF EnterFrame, ThisFrame
<1>2. Walking
  BY <1>1 DEF Walking
<1>3. /\ tree \in Trees /\ Len(tree) \in Nat \ {0} /\ DOMAIN tree = 1..Len(tree)
      /\ \A i : Here(i) \in Frames <=> i \in 2..Len(tree)
      /\ \A i : FrameAt(Here(i)) = tree[i] /\ PathTo(Here(i)) = PathsOf(tree)[i]
  BY <1>2, InBuffer DEF Inv
<1>4. ~ Fresh
  <2> SUFFICES ASSUME Fresh PROVE FALSE
    OBVIOUS
  <2>1. Current = Root
    BY DEF Fresh, Current
  <2> QED BY <1>1, <2>1 DEF Root, Item
<1>5. IsWalk(tree, stack, Seen)
  BY <1>1, <1>2, <1>4 DEF Inv, WalkOK, ToEnter
<1>6. /\ Head(stack) = Item(f, d) /\ f \in 2..Len(tree) /\ d \in Nat \ {0} /\ f \notin Seen
      /\ d = Len(PathsOf(tree)[f])
  <2>1. /\ Head(stack) = Item(Head(stack).frame, Head(stack).depth)
        /\ Head(stack).frame \in 2..Len(tree) /\ Head(stack).depth \in Nat \ {0}
        /\ Head(stack).frame \notin Seen
        /\ Head(stack).depth = Len(PathsOf(tree)[Head(stack).frame])
    BY <1>1, <1>3, <1>5, WalkTail
  <2> QED BY <2>1 DEF Current
<1>7. a \in Addresses
  BY <1>3, <1>6, FrameFacts
<1>8. x \in Frames \ lines
  BY <1>3, <1>6 DEF Seen
<1>9. InfoFits(info)
  BY DEF Inv, InfoOK
<1>10. d \in Nat
  BY <1>6
<1>11. PICK i : i = info
  OBVIOUS
<1>12. PICK t :
         /\ FramePut(i, PutFrame(i, d, a), t, a)
         /\ \A r : /\ CanRead(r, i, d)
                   /\ \A y \in DOMAIN i.symcache.symId :
                        RealPath[BinaryOf[y]] = RealPath[BinaryOf[a]] => BinaryOf[y] = BinaryOf[a]
                   => /\ Reached(r, ReadToken(r, t), Child(r, d, a))
                      /\ SymbolsFit(ReadToken(r, t), PutFrame(i, d, a))
  BY <1>7, <1>9, <1>10, <1>11, FrameWrittenAndRead
<1>13. PICK j : j = info'
  OBVIOUS
<1>14. j = PutFrame(i, d, a)
  BY <1>1, <1>11, <1>13
<1>15. j.crashed = FALSE
  <2>1. InfoFits(j)
    BY <1>12, <1>14 DEF FramePut
  <2>2. PICK ns, nl, nc, c, ids, out, no :
          /\ ns = j.nsyms /\ nl = j.nlibs /\ nc = j.nctrs /\ c = j.symcache /\ ids = j.ids
          /\ out = j.out /\ no = FALSE
    OBVIOUS
  <2>3. j = InfoOf(ns, nl, nc, c, ids, out, no)
    BY <2>1, <2>2, Zenon DEF InfoFits, InfoOf
  <2> QED BY <2>2, <2>3, InfoFields
<1>16. phase' = "counters"
  BY <1>1, <1>13, <1>15
<1>17. Current = Item(f, d)
  BY <1>6 DEF Current
<1>18. \E u : /\ FramePut(info, info', u, a)
              /\ \A r : /\ CanRead(r, info, d)
                        /\ \A y \in DOMAIN info.symcache.symId :
                             RealPath[BinaryOf[y]] = RealPath[BinaryOf[a]] =>
                               BinaryOf[y] = BinaryOf[a]
                        => /\ Reached(r, ReadToken(r, u), Child(r, d, a))
                           /\ SymbolsFit(ReadToken(r, u), info')
  <2>1. /\ FramePut(i, j, t, a)
        /\ \A r : /\ CanRead(r, i, d)
                  /\ \A y \in DOMAIN i.symcache.symId :
                       RealPath[BinaryOf[y]] = RealPath[BinaryOf[a]] => BinaryOf[y] = BinaryOf[a]
                  => /\ Reached(r, ReadToken(r, t), Child(r, d, a))
                     /\ SymbolsFit(ReadToken(r, t), j)
    BY <1>12, <1>14
  <2>2. \E u : /\ FramePut(i, j, u, a)
               /\ \A r : /\ CanRead(r, i, d)
                         /\ \A y \in DOMAIN i.symcache.symId :
                              RealPath[BinaryOf[y]] = RealPath[BinaryOf[a]] =>
                                BinaryOf[y] = BinaryOf[a]
                         => /\ Reached(r, ReadToken(r, u), Child(r, d, a))
                            /\ SymbolsFit(ReadToken(r, u), j)
    BY <2>1, Zenon
  <2> QED BY <1>11, <1>13, <2>2, Zenon
<1> QED BY <1>3, <1>4, <1>5, <1>6, <1>7, <1>8, <1>16, <1>17, <1>18, Zenon

(* A line begins: its frame has been entered, what is below it is next. *)
LEMMA EnterFrameStep ==
  ASSUME Inv, EnterFrame
  PROVE  /\ PhaseOK' /\ WalkOK' /\ LinesOK' /\ StreamOK' /\ Dumped' = Dumped
<1>1. PICK tree, f, d, a, x : /\ tree = Buffer /\ f = Current.frame /\ d = Current.depth
                              /\ a = tree[f].address /\ x = Here(f)
  OBVIOUS
<1>2. /\ tree \in Trees /\ Len(tree) \in Nat \ {0} /\ DOMAIN tree = 1..Len(tree)
      /\ f \in 2..Len(tree) /\ d \in Nat \ {0} /\ d = Len(PathsOf(tree)[f])
      /\ Current = Item(f, d) /\ IsWalk(tree, stack, Seen)
      /\ x \in Frames \ lines /\ FrameAt(x) = tree[f]
      /\ phase' = "counters"
  BY <1>1, EnterFrameWalk
<1>3. /\ phase = "frames" /\ stack # <<>> /\ ctr' = 0 /\ lines' = lines \cup {x}
      /\ program' = program /\ dump' = dump /\ buffer' = buffer /\ stack' = stack
      /\ reader' = reader /\ todo' = todo /\ buf' = buf /\ off' = off
      /\ file' = file /\ failures' = failures /\ torn' = torn /\ Buffer' = tree
      /\ Current' = Current /\ ThisFrame' = tree[f]
  BY <1>1 DEF EnterFrame, fastio, Buffer, Buffers, Here, Current, ThisFrame
<1>4. /\ Walking /\ Walking' /\ ~ Loaded /\ ~ Loaded'
  BY <1>2, <1>3 DEF Walking, Loaded
<1>5. PICK seen : seen = Seen
  OBVIOUS
<1>6. Seen' = seen \cup {f}
  <2>1. \A i : Here(i)' = Here(i)
    BY <1>3 DEF Here
  <2>2. \A i : Here(i) = x <=> i = f
    BY <1>1 DEF Here
  <2>3. Seen' = {1} \cup {i \in 2..Len(tree) : Here(i) \in lines \cup {x}}
    BY <1>3, <2>1 DEF Seen
  <2> QED BY <1>1, <1>2, <1>5, <2>2, <2>3 DEF Seen
<1>7. PICK w, b : w = stack /\ b = Below(tree, Item(f, d)) \o Tail(w)
  OBVIOUS
<1>8. ToEnter' = b
  <2>1. ToEnter' = Below(Buffer', Current') \o Tail(stack')
    BY <1>2 DEF ToEnter, Below
  <2>2. Buffer' = tree /\ Current' = Item(f, d) /\ stack' = w
    BY <1>2, <1>3, <1>7
  <2> QED BY <1>7, <2>1, <2>2
<1>9. Closed(tree, seen)
  BY <1>1, <1>4, <1>5 DEF Inv, WalkOK
<1>10. /\ Tail(w) \in Seq(ItemsOf(tree)) /\ f \notin seen /\ ParentOf(tree, f) \in seen
       /\ \A i, j \in DOMAIN Tail(w) : Tail(w)[i].frame = Tail(w)[j].frame => i = j
       /\ \A g \in 2..Len(tree) :
            (\E i \in DOMAIN Tail(w) : Tail(w)[i].frame = g) <=>
              g \notin seen /\ g # f /\ ParentOf(tree, g) \in seen
       /\ \A i \in DOMAIN Tail(w) :
            Tail(w)[i].depth = Len(PathsOf(tree)[Tail(w)[i].frame]) /\ Tail(w)[i].depth <= d
       /\ \A i, j \in DOMAIN Tail(w) : i <= j => Tail(w)[j].depth <= Tail(w)[i].depth
  <2>1. IsWalk(tree, w, seen) /\ w # <<>>
    BY <1>2, <1>3, <1>5, <1>7
  <2>2. Head(w).frame = f /\ Head(w).depth = d
    BY <1>1, <1>7 DEF Current
  <2>3. /\ Tail(w) \in Seq(ItemsOf(tree)) /\ Head(w).frame \notin seen
        /\ ParentOf(tree, Head(w).frame) \in seen
        /\ \A i, j \in DOMAIN Tail(w) : Tail(w)[i].frame = Tail(w)[j].frame => i = j
    BY <1>2, <2>1, WalkTail
  <2>4. /\ \A g \in 2..Len(tree) :
             (\E i \in DOMAIN Tail(w) : Tail(w)[i].frame = g) <=>
               g \notin seen /\ g # Head(w).frame /\ ParentOf(tree, g) \in seen
    BY <1>2, <2>1, WalkTail
  <2>5. /\ \A i \in DOMAIN Tail(w) :
             /\ Tail(w)[i].depth = Len(PathsOf(tree)[Tail(w)[i].frame])
             /\ Tail(w)[i].depth <= Head(w).depth
        /\ \A i, j \in DOMAIN Tail(w) : i <= j => Tail(w)[j].depth <= Tail(w)[i].depth
    BY <1>2, <2>1, WalkTail
  <2> QED BY <2>2, <2>3, <2>4, <2>5
<1>11. IsWalk(tree, b, seen \cup {f})
  <2>1. PICK t : t = Tail(w)
    OBVIOUS
  <2>2. d \in Nat /\ f \in DOMAIN tree /\ seen \in SUBSET DOMAIN tree
        /\ \A g \in seen \ {1} : ParentOf(tree, g) \in seen
    BY <1>2, <1>9 DEF Closed
  <2>3. IsWalk(tree, Below(tree, Item(f, d)) \o t, seen \cup {f})
    BY <1>2, <1>10, <2>1, <2>2, WalkOn
  <2> QED BY <1>7, <2>1, <2>3
<1>12. Closed(tree, seen \cup {f})
  BY <1>2, <1>9, <1>10 DEF Closed
<1>13. WalkOK'
  <2>1. IsWalk(Buffer, ToEnter, Seen)'
    BY <1>3, <1>6, <1>8, <1>11 DEF IsWalk
  <2>2. Closed(Buffer, Seen)'
    BY <1>3, <1>6, <1>12 DEF Closed
  <2>3. stack' \in Seq(Items) /\ stack' # <<>>
    <3>1. PICK I, M : I = ItemsOf(tree) /\ M = Items
      OBVIOUS
    <3>2. I \subseteq M
      BY <1>2, <3>1 DEF ItemsOf, Items
    <3>3. w \in Seq(I)
      BY <1>2, <1>3, <1>5, <1>7, <3>1, WalkTail
    <3>4. w \in Seq(M)
      <4>1. \A i \in 1..Len(w) : w[i] \in M
        BY <3>2, <3>3
      <4> QED BY <3>3, <4>1, SeqIn
    <3> QED BY <1>3, <1>7, <3>1, <3>4
  <2>4. Current'.frame = f /\ Current'.depth = d
    BY <1>1, <1>3
  <2>5. Current'.frame \in Seen' \ {1} /\ Current'.depth = Len(PathsOf(Buffer)[Current.frame])'
    <3>1. Len(PathsOf(Buffer)[Current.frame])' = Len(PathsOf(tree)[f])
      BY <1>3, <2>4
    <3> QED BY <1>2, <1>6, <2>4, <3>1
  <2>6. ctr' \in 0..Len(ThisFrame'.counters)
    <3>1. tree[f].counters \in Seq(Counter)
      BY <1>2, FrameFacts
    <3>2. Len(tree[f].counters) \in Nat
      BY <3>1
    <3> QED BY <1>3, <3>2
  <2> QED BY <2>1, <2>2, <2>3, <2>5, <2>6 DEF WalkOK
<1>14. PhaseOK'
  BY <1>2, <1>3, <1>4 DEF Inv, PhaseOK
<1>15. LinesOK'
  <2>1. Frames' = Frames
    BY <1>3, SameProgram
  <2>2. x[1] = dump /\ x[2] = buffer /\ dump \in Nat /\ buffer \in Nat
    <3>1. x[1] = dump /\ x[2] = buffer
      BY <1>1 DEF Here
    <3> QED BY <1>4, <3>1, InBuffer DEF Inv
  <2> QED BY <1>2, <1>3, <1>4, <2>1, <2>2 DEF Inv, LinesOK
<1>16. StreamOK'
  BY <1>2, <1>3, <1>4 DEF Inv, StreamOK
<1>17. Dumped' = Dumped
  <2>1. PICK L, M : L = lines /\ M = L \cup {x}
    OBVIOUS
  <2>2. Dumped = CountersOf(L)
    BY <1>3, <2>1, AllDumped
  <2>3. CountersOf(lines)' = CountersOf(M)
    <3>1. CountersOf(lines)' = CountersOf(M)'
      BY <1>3, <2>1
    <3> QED BY <1>3, <3>1, SameProgram
  <2>4. Here(Current.frame)' = x
    BY <1>1, <1>3 DEF Here
  <2>5. Dumped' = {c \in CountersOf(M) : c[1] = x => c[2] <= 0}
    BY <1>2, <1>3, <2>3, <2>4 DEF Dumped
  <2>6. ASSUME NEW c \in CountersOf(L) PROVE c \in CountersOf(M) /\ c[1] # x
    <3>1. c \in CountersOf(M)
      BY <2>1, CountersMore
    <3>2. PICK y \in L : c \in {<<y, j>> : j \in DOMAIN FrameAt(y).counters}
      BY DEF CountersOf
    <3> QED BY <1>2, <2>1, <3>1, <3>2
  <2>7. ASSUME NEW c \in CountersOf(M), c[1] = x => c[2] <= 0 PROVE c \in CountersOf(L)
    <3>1. PICK y \in M : c \in {<<y, j>> : j \in DOMAIN FrameAt(y).counters}
      BY DEF CountersOf
    <3>2. PICK j \in DOMAIN FrameAt(y).counters : c = <<y, j>>
      BY <3>1
    <3>3. y # x
      <4> SUFFICES ASSUME y = x PROVE FALSE
        OBVIOUS
      <4>1. tree[f].counters \in Seq(Counter)
        BY <1>2, FrameFacts
      <4>2. j \in 1..Len(tree[f].counters) /\ Len(tree[f].counters) \in Nat
        BY <1>2, <4>1
      <4> QED BY <2>7, <3>2, <4>2
    <3> QED BY <2>1, <3>1, <3>3 DEF CountersOf
  <2> QED BY <2>2, <2>5, <2>6, <2>7
<1> QED BY <1>13, <1>14, <1>15, <1>16, <1>17

(* Binaries are told apart by their files, when no two share one. *)
LEMMA OwnFile ==
  ASSUME InfoOK, ~ SharedFile, NEW x \in Frames, NEW a, a = FrameAt(x).address
  PROVE  \A y \in DOMAIN info.symcache.symId :
           RealPath[BinaryOf[y]] = RealPath[BinaryOf[a]] => BinaryOf[y] = BinaryOf[a]
<1> SUFFICES ASSUME NEW y \in DOMAIN info.symcache.symId,
                    RealPath[BinaryOf[y]] = RealPath[BinaryOf[a]]
             PROVE  BinaryOf[y] = BinaryOf[a]
  OBVIOUS
<1>1. PICK z \in Frames : FrameAt(z).address = y
  BY DEF InfoOK
<1> QED BY <1>1 DEF SharedFile

(* The counters that have been dumped are on lines. *)
LEMMA DumpedOnLines ==
  ASSUME Inv
  PROVE  /\ Dumped \in SUBSET CountersOf(Frames)
         /\ \A c \in Dumped : c[1] \in lines /\ PathTo(c[1]) \in Paths(lines)
<1>1. lines \subseteq Frames
  BY DEF Inv, LinesOK
<1>2. Dumped \subseteq CountersOf(lines)
  BY DEF Dumped
<1>3. CountersOf(lines) \subseteq CountersOf(Frames)
  BY <1>1, CountersMore
<1>4. ASSUME NEW c \in CountersOf(lines) PROVE c[1] \in lines /\ PathTo(c[1]) \in Paths(lines)
  <2>1. PICK x \in lines : c \in {<<x, j>> : j \in DOMAIN FrameAt(x).counters}
    BY DEF CountersOf
  <2> QED BY <2>1 DEF Paths
<1> QED BY <1>2, <1>3, <1>4

(* The reader comes to the path of the frame. *)
LEMMA EnterFrameRead ==
  ASSUME Inv, EnterFrame
  PROVE  InfoOK' /\ ReadOK'
<1>1. PICK tree, f, d, a, x : /\ tree = Buffer /\ f = Current.frame /\ d = Current.depth
                              /\ a = tree[f].address /\ x = Here(f)
  OBVIOUS
<1>2. /\ tree \in Trees /\ Len(tree) \in Nat \ {0} /\ DOMAIN tree = 1..Len(tree)
      /\ f \in 2..Len(tree) /\ d \in Nat \ {0} /\ Current = Item(f, d)
      /\ ~ Fresh /\ IsWalk(tree, stack, Seen)
      /\ x \in Frames \ lines /\ FrameAt(x) = tree[f] /\ PathTo(x) = PathsOf(tree)[f]
      /\ phase' = "counters"
  BY <1>1, EnterFrameWalk
<1>3. /\ phase = "frames" /\ stack # <<>> /\ lines' = lines \cup {x}
      /\ program' = program /\ dump' = dump /\ stack' = stack
      /\ reader' = reader /\ failures' = failures /\ torn' = torn /\ Buffer' = tree
      /\ Current' = Current
  BY <1>1 DEF EnterFrame, fastio, Buffer, Buffers, Here, Current, ThisFrame
<1>4. /\ Walking /\ Walking' /\ ~ Fresh'
  BY <1>2, <1>3 DEF Walking, Fresh
<1>5. program \in Programs
  BY DEF Inv, PhaseOK
<1>6. PICK i, j : i = info /\ j = info'
  OBVIOUS
<1>7. PICK t : /\ FramePut(i, j, t, a)
               /\ \A r : /\ CanRead(r, i, d)
                         /\ \A y \in DOMAIN i.symcache.symId :
                              RealPath[BinaryOf[y]] = RealPath[BinaryOf[a]] =>
                                BinaryOf[y] = BinaryOf[a]
                         => /\ Reached(r, ReadToken(r, t), Child(r, d, a))
                            /\ SymbolsFit(ReadToken(r, t), j)
  <2>1. \E t : /\ FramePut(info, info', t, a)
               /\ \A r : /\ CanRead(r, info, d)
                         /\ \A y \in DOMAIN info.symcache.symId :
                              RealPath[BinaryOf[y]] = RealPath[BinaryOf[a]] =>
                                BinaryOf[y] = BinaryOf[a]
                         => /\ Reached(r, ReadToken(r, t), Child(r, d, a))
                            /\ SymbolsFit(ReadToken(r, t), info')
    BY <1>1, EnterFrameWalk
  <2> QED BY <1>6, <2>1
<1>8. /\ InfoFits(j) /\ t \in Token /\ j.out = Append(i.out, t) /\ j.ids = i.ids
      /\ j.nctrs = i.nctrs
      /\ DOMAIN j.symcache.symId = DOMAIN i.symcache.symId \cup {a}
  BY <1>7 DEF FramePut
<1>9. i.out \in Seq(Token)
  BY <1>6 DEF Inv, InfoOK, InfoFits
<1>10. InfoOK'
  <2>1. InfoFits(info)'
    BY <1>6, <1>8 DEF InfoFits
  <2>2. \A y \in DOMAIN j.symcache.symId : \E z \in Frames : FrameAt(z).address = y
    BY <1>1, <1>2, <1>6, <1>8 DEF Inv, InfoOK
  <2>3. \A y \in DOMAIN info'.symcache.symId : \E z \in Frames' : FrameAt(z)'.address = y
    BY <1>3, <1>6, <2>2, SameProgram
  <2>4. \A c \in CounterDefs :
          j.ids[c] # -1 => \E k \in DOMAIN tree : c \in Defs(tree, k)
    BY <1>1, <1>6, <1>8 DEF Inv, InfoOK
  <2>5. j.out # <<>>
    BY <1>8, <1>9
  <2> QED BY <1>3, <1>4, <1>6, <2>1, <2>3, <2>4, <2>5 DEF InfoOK, Defs
<1>11. PICK L, M, D : L = lines /\ M = L \cup {x} /\ D = Dumped
  OBVIOUS
<1>12. Dumped' = D
  BY <1>11, EnterFrameStep
<1>13. ReadOK'
  <2> SUFFICES ASSUME Good' PROVE IsReader(reader)' /\ Follows(Follower)'
    BY <1>2 DEF ReadOK
  <2>1. Good
    BY <1>3, StillGood
  <2>2. IsReader(reader) /\ Follows(Follower)
    BY <1>4, <2>1 DEF Inv, ReadOK
  <2>3. PICK r, q, n : r = Follower /\ q = ReadToken(r, t) /\ n = dump
    OBVIOUS
  <2>4. Follower' = q
    <3>1. PICK base, T, s : base = Reader(reader) /\ T = Token /\ s = i.out
      OBVIOUS
    <3>2. Reading(base, Append(s, t)) = ReadToken(Reading(base, s), t)
      BY <1>8, <1>9, <3>1, ReadOneMore
    <3>3. Follower' = Reading(base, Append(s, t))
      BY <1>3, <1>6, <1>8, <3>1 DEF Follower
    <3>4. r = Reading(base, s)
      BY <1>6, <2>3, <3>1 DEF Follower
    <3> QED BY <2>3, <3>2, <3>3, <3>4
  <2>5. /\ IsReader(r) /\ r.cost = Costs(L, D, r.key) /\ SymbolsFit(r, i)
        /\ KeysFit(r, i, D, n) /\ StackFits(r)
    BY <1>4, <1>6, <1>11, <2>2, <2>3 DEF Follows
  <2>6. PICK ns, w, path : ns = r.nodestack /\ w = stack /\ path = PathsOf(tree)[f]
    OBVIOUS
  <2>7. ns \in Seq(Names) /\ r.expects = "line" /\ OnStack(tree, w, ns)
    BY <1>1, <1>2, <1>3, <1>4, <2>5, <2>6 DEF StackFits, ToEnter
  <2>8. Head(w) = Item(f, d) /\ Head(w).frame = f /\ Head(w).depth = d
    BY <1>1, <1>2, <2>6 DEF Current
  <2>9. /\ d - 1 <= Len(ns)
        /\ path = Append(SubSeq(ns, 1, d - 1), ReadName(a))
        /\ OnStack(tree, Below(tree, Head(w)) \o Tail(w), path)
    <3>1. PICK seen : seen = Seen
      OBVIOUS
    <3>2. IsWalk(tree, w, seen) /\ w # <<>> /\ path = PathsOf(tree)[Head(w).frame]
      BY <1>2, <1>3, <2>6, <2>8, <3>1
    <3>3. /\ Head(w).depth - 1 <= Len(ns)
          /\ path = Append(SubSeq(ns, 1, Head(w).depth - 1),
                           ReadName(tree[Head(w).frame].address))
          /\ OnStack(tree, Below(tree, Head(w)) \o Tail(w), path)
      BY <1>2, <2>7, <3>2, FrameOnStack
    <3> QED BY <1>1, <2>8, <3>3
  <2>10. Child(r, d, a) = path
    BY <2>6, <2>9 DEF Child
  <2>11. CanRead(r, i, d)
    BY <2>5, <2>6, <2>7, <2>9 DEF CanRead
  <2>12. \A y \in DOMAIN i.symcache.symId :
           RealPath[BinaryOf[y]] = RealPath[BinaryOf[a]] => BinaryOf[y] = BinaryOf[a]
    <3>1. InfoOK /\ ~ SharedFile
      BY <2>1 DEF Inv, Good
    <3>2. a = FrameAt(x).address
      BY <1>1, <1>2
    <3> QED BY <1>2, <1>6, <3>1, <3>2, OwnFile
  <2>13. Reached(r, q, path) /\ SymbolsFit(q, j)
    BY <1>7, <2>3, <2>10, <2>11, <2>12
  <2>14. /\ IsReader(q) /\ q.nodestack = path /\ q.expects = "counter"
         /\ q.key = r.key /\ q.keys = r.keys
         /\ q.cost = Visited(r.cost, path)
    BY <2>13 DEF Reached
  <2>15. q.cost = Costs(M, D, q.key)
    <3>1. PICK k : k = r.key
      OBVIOUS
    <3>2. D \in SUBSET CountersOf(Frames) /\ \A c \in D : PathTo(c[1]) \in Paths(L)
      BY <1>11, DumpedOnLines
    <3>3. IsFiniteSet(D)
      BY <1>11 DEF Inv
    <3>4. Costs(L \cup {x}, D, k) = Visited(Costs(L, D, k), PathTo(x))
      BY <1>5, <3>2, <3>3, CostLine
    <3> QED BY <1>2, <1>11, <2>5, <2>6, <2>14, <3>1, <3>4
  <2>16. KeysFit(q, j, D, n)
    <3>1. KeyTable(r, i)
      BY <2>5 DEF KeysFit
    <3>2. KeyTable(q, j)
      BY <1>8, <2>14, <3>1 DEF KeyTable
    <3> QED BY <1>8, <2>5, <2>14, <3>2 DEF KeysFit
  <2>17. StackFits(q)'
    <3>1. path \in Seq(Names)
      BY <1>2, <2>6, PathFacts
    <3>2. ToEnter' = Below(tree, Head(w)) \o Tail(w)
      <4>1. ToEnter' = Below(Buffer', Current') \o Tail(stack')
        BY <1>2 DEF ToEnter, Below
      <4> QED BY <1>2, <1>3, <2>6, <2>8, <4>1
    <3>3. OnStack(Buffer, ToEnter, q.nodestack)'
      BY <1>3, <2>9, <2>14, <3>2 DEF OnStack
    <3>4. PathsOf(Buffer)[Current.frame]' = path
      BY <1>1, <1>3, <2>6
    <3> QED BY <1>2, <2>14, <3>1, <3>3, <3>4 DEF StackFits
  <2>18. Follows(q)'
    <3>1. /\ M = lines' /\ D = Dumped' /\ j = info' /\ n = dump'
      BY <1>3, <1>6, <1>11, <1>12, <2>3
    <3> QED BY <1>3, <2>13, <2>14, <2>15, <2>16, <2>17, <3>1, FollowsNext
  <2>19. Follows(Follower)'
    BY <2>4, <2>18
  <2> QED BY <1>3, <2>2, <2>19 DEF IsReader
<1> QED BY <1>10, <1>13

(* A frame is entered, its line begun, and the reader comes to its path. *)
LEMMA StepEnterFrame ==
  ASSUME Inv, EnterFrame
  PROVE  Inv'
<1>1. PhaseOK' /\ WalkOK' /\ LinesOK' /\ StreamOK' /\ Dumped' = Dumped
  BY EnterFrameStep
<1>2. InfoOK' /\ ReadOK'
  BY EnterFrameRead
<1>3. IsFiniteSet(Dumped)'
  BY <1>1 DEF Inv
<1> QED BY <1>1, <1>2, <1>3 DEF Inv

(* The counter that is next *)
LEMMA CounterWalk ==
  ASSUME Inv, NextCounter, NEW tree, tree = Buffer, NEW f, f = Current.frame,
         NEW ct, ct = ThisFrame.counters[ctr + 1], NEW x, x = Here(f), NEW c, c = <<x, ctr + 1>>
  PROVE  /\ tree \in Trees /\ f \in 2..Len(tree) /\ f \in DOMAIN tree /\ ctr \in Nat
         /\ ctr + 1 \in DOMAIN tree[f].counters /\ ct \in Counter
         /\ (ct.ticks = 0 /\ ct.peak = 0 => ct.value = 0)
         /\ x \in lines /\ PathTo(x) = PathsOf(tree)[f]
         /\ c \in CountersOf(Frames) \ Dumped /\ CounterAt(c) = ct
         /\ Dumped' = Dumped \cup {c}
<1>1. /\ phase = "counters" /\ phase' = "counters" /\ ctr < Len(ThisFrame.counters)
      /\ ctr' = ctr + 1 /\ UNCHANGED <<program, dump, buffer, stack, lines>>
  BY DEF NextCounter
<1>2. Walking
  BY <1>1 DEF Walking
<1>3. /\ tree \in Trees /\ Len(tree) \in Nat \ {0} /\ DOMAIN tree = 1..Len(tree)
      /\ \A i : Here(i) \in Frames <=> i \in 2..Len(tree)
      /\ \A i : FrameAt(Here(i)) = tree[i] /\ PathTo(Here(i)) = PathsOf(tree)[i]
  BY <1>2, InBuffer DEF Inv
<1>4. /\ Closed(tree, Seen) /\ f \in Seen \ {1} /\ ctr \in 0..Len(ThisFrame.counters)
  BY <1>1, <1>2 DEF Inv, WalkOK
<1>5. /\ f \in 2..Len(tree) /\ x \in lines
  BY <1>3, <1>4 DEF Closed, Seen
<1>6. ThisFrame = tree[f] /\ tree[f].counters \in Seq(Counter)
  BY <1>3, <1>5, FrameFacts DEF ThisFrame
<1>7. ctr + 1 \in DOMAIN tree[f].counters /\ ctr \in Nat
  <2>1. PICK s : s = tree[f].counters
    OBVIOUS
  <2>2. s \in Seq(Counter) /\ ctr \in 0..Len(s) /\ ctr < Len(s)
    BY <1>1, <1>4, <1>6, <2>1
  <2>3. ctr + 1 \in 1..Len(s) /\ ctr \in Nat
    BY <2>2
  <2> QED BY <2>1, <2>2, <2>3
<1>8. ct \in Counter /\ (ct.ticks = 0 /\ ct.peak = 0 => ct.value = 0)
  BY <1>3, <1>5, <1>6, <1>7, FrameFacts
<1>9. FrameAt(x) = tree[f] /\ PathTo(x) = PathsOf(tree)[f] /\ x \in Frames
  BY <1>3, <1>5
<1>10. CounterAt(c) = ct
  BY <1>6, <1>9 DEF CounterAt
<1>11. c \in CountersOf(lines) /\ c \in CountersOf(Frames)
  <2>1. c \in {<<x, j>> : j \in DOMAIN FrameAt(x).counters}
    BY <1>7, <1>9
  <2> QED BY <1>5, <1>9, <2>1 DEF CountersOf
<1>12. Dumped = {e \in CountersOf(lines) : e[1] = x => e[2] <= ctr}
  BY <1>1 DEF Dumped
<1>13. c \notin Dumped
  BY <1>7, <1>12
<1>14. Dumped' = {e \in CountersOf(lines) : e[1] = x => e[2] <= ctr + 1}
  <2>1. CountersOf(lines)' = CountersOf(lines)
    <3>1. PICK L : L = lines
      OBVIOUS
    <3>2. CountersOf(lines)' = CountersOf(L)'
      BY <1>1, <3>1
    <3> QED BY <1>1, <3>1, <3>2, SameProgram
  <2>2. Here(Current.frame)' = x
    BY <1>1 DEF Here, Current
  <2> QED BY <1>1, <2>1, <2>2 DEF Dumped
<1>15. ASSUME NEW e \in CountersOf(lines), e[1] = x
       PROVE  e = <<x, e[2]>> /\ e[2] \in Nat
  <2>1. PICK y \in lines : e \in {<<y, j>> : j \in DOMAIN FrameAt(y).counters}
    BY DEF CountersOf
  <2>2. PICK j \in DOMAIN FrameAt(y).counters : e = <<y, j>>
    BY <2>1
  <2>3. y = x
    BY <1>15, <2>2
  <2>4. j \in Nat
    BY <1>6, <1>9, <2>2, <2>3
  <2> QED BY <2>2, <2>3, <2>4
<1>16. Dumped' = Dumped \cup {c}
  <2>1. ASSUME NEW e \in Dumped' PROVE e \in Dumped \cup {c}
    BY <1>7, <1>12, <1>14, <1>15
  <2>2. ASSUME NEW e \in Dumped PROVE e \in Dumped'
    BY <1>7, <1>12, <1>14, <1>15
  <2>3. c \in Dumped'
    BY <1>7, <1>11, <1>14
  <2> QED BY <2>1, <2>2, <2>3
<1> QED BY <1>3, <1>5, <1>7, <1>8, <1>9, <1>10, <1>11, <1>13, <1>16

(* The IgProfDumpInfo after a counter, when it is written and when it is not *)
LEMMA CounterInfo ==
  ASSUME NEW i, InfoFits(i), NEW ct \in Counter, NEW j, j = PutCounter(i, ct)
  PROVE  /\ ct.ticks = 0 /\ ct.peak = 0 => j = i
         /\ ~ (ct.ticks = 0 /\ ct.peak = 0) => CounterPut(i, j, CounterOf(i, ct), ct)
         /\ InfoFits(j) /\ j.symcache = i.symcache
         /\ (i.out # <<>> => j.out # <<>>)
         /\ \A e \in CounterDefs : j.ids[e] # -1 => i.ids[e] # -1 \/ e = ct.def
<1>1. CASE ct.ticks = 0 /\ ct.peak = 0
  <2>1. j = i
    BY <1>1 DEF PutCounter
  <2> QED BY <1>1, <2>1
<1>2. CASE ~ (ct.ticks = 0 /\ ct.peak = 0)
  <2>1. PICK t : t = CounterOf(i, ct)
    OBVIOUS
  <2>2. CounterPut(i, j, t, ct)
    BY <1>2, <2>1, PutCounterIs
  <2>3. /\ InfoFits(j) /\ j.symcache = i.symcache /\ j.out = Append(i.out, t) /\ t \in Token
        /\ j.ids = [i.ids EXCEPT ![ct.def] = NumberOf(i, ct)]
    BY <2>2 DEF CounterPut
  <2>4. i.out \in Seq(Token) /\ i.ids \in [CounterDefs -> Int]
    BY DEF InfoFits
  <2>5. j.out # <<>>
    <3>1. PICK s, T : s = i.out /\ T = Token
      OBVIOUS
    <3>2. s \in Seq(T) /\ t \in T /\ j.out = Append(s, t)
      BY <2>3, <2>4, <3>1
    <3>3. Append(s, t) # <<>>
      BY <3>2, AppendProperties
    <3> QED BY <3>2, <3>3
  <2>6. \A e \in CounterDefs : e # ct.def => j.ids[e] = i.ids[e]
    BY <2>3, <2>4
  <2> QED BY <1>2, <2>1, <2>2, <2>3, <2>5, <2>6
<1> QED BY <1>1, <1>2

(* The reader after a counter *)
CounterFits(r, i, ct, L, D, c, d) ==
  /\ InfoFits(i) /\ ct \in Counter /\ (ct.ticks = 0 /\ ct.peak = 0 => ct.value = 0)
  /\ CounterNext(L, D, c, ct, r)
  /\ IsReader(r) /\ r.expects = "counter" /\ SymbolsFit(r, i) /\ KeysFit(r, i, D, d)

CounterFollowed(r, q, j, L, E, d) ==
  /\ IsReader(q) /\ q.expects = "counter" /\ q.nodestack = r.nodestack
  /\ q.cost = Costs(L, E, q.key) /\ SymbolsFit(q, j) /\ KeysFit(q, j, E, d)

(* The reader follows the writer over a counter. *)
LEMMA CounterFollows ==
  ASSUME program \in Programs, NEW r, NEW i, NEW ct, NEW L, NEW D, NEW c, NEW d,
         CounterFits(r, i, ct, L, D, c, d), NEW j, j = PutCounter(i, ct),
         NEW base, r = Reading(base, i.out), NEW q, q = Reading(base, j.out),
         NEW E, E = D \cup {c}
  PROVE  CounterFollowed(r, q, j, L, E, d)
<1>1. /\ InfoFits(i) /\ ct \in Counter /\ (ct.ticks = 0 /\ ct.peak = 0 => ct.value = 0)
      /\ IsReader(r) /\ r.expects = "counter" /\ SymbolsFit(r, i) /\ KeysFit(r, i, D, d)
      /\ CounterNext(L, D, c, ct, r)
  BY DEF CounterFits
<1>2. CASE ct.ticks = 0 /\ ct.peak = 0
  <2>1. j = i /\ q = r
    BY <1>1, <1>2, CounterInfo
  <2>2. PICK key : key = r.key
    OBVIOUS
  <2>3. /\ D \in SUBSET CountersOf(Frames) /\ IsFiniteSet(D)
        /\ c \in CountersOf(Frames) \ D /\ ct = CounterAt(c)
        /\ r.cost = Costs(L, D, r.key)
    BY <1>1 DEF CounterNext
  <2>4. CounterAt(c).ticks = 0 /\ CounterAt(c).value = 0 /\ CounterAt(c).peak = 0
    BY <1>1, <1>2, <2>3
  <2>5. Costs(L, D \cup {c}, key) = Costs(L, D, key)
    BY <2>3, <2>4, CostSkip
  <2>6. KeysFit(r, i, E, d)
    BY <1>1, <2>4 DEF KeysFit, Unused
  <2> QED BY <1>1, <2>1, <2>2, <2>3, <2>5, <2>6 DEF CounterFollowed
<1>3. CASE ~ (ct.ticks = 0 /\ ct.peak = 0)
  <2>1. PICK t : t = CounterOf(i, ct)
    OBVIOUS
  <2>2. CounterPut(i, j, t, ct)
    BY <1>1, <1>3, <2>1, PutCounterIs
  <2>3. q = ReadToken(r, t)
    <3>1. PICK s, T : s = i.out /\ T = Token
      OBVIOUS
    <3>2. s \in Seq(T) /\ t \in T /\ j.out = Append(s, t)
      BY <1>1, <2>2, <3>1 DEF InfoFits, CounterPut
    <3>3. Reading(base, Append(s, t)) = ReadToken(Reading(base, s), t)
      BY <3>2, ReadOneMore
    <3> QED BY <3>1, <3>2, <3>3
  <2>4. CanCount(r, i)
    BY <1>1 DEF CanCount, KeysFit
  <2>5. CounterRead(r, q, ct) /\ KeyTable(q, j)
    BY <1>1, <2>1, <2>2, <2>3, <2>4, CounterIsRead
  <2>6. /\ IsReader(q) /\ q.key # "" /\ q.nodestack = r.nodestack /\ q.expects = r.expects
        /\ q.symbols = r.symbols /\ q.files = r.files /\ q.namedFiles = r.namedFiles
    BY <2>5 DEF CounterRead
  <2>7. q.cost = Costs(L, E, q.key)
    BY <1>1, <2>5, CounterCharged
  <2>8. SymbolsFit(q, j)
    BY <1>1, <2>2, <2>6 DEF SymbolsFit, CounterPut
  <2>9. j.nctrs # 0
    <3>1. /\ i.nctrs \in Nat /\ (i.ids[ct.def] = -1 \/ i.ids[ct.def] \in 0..(i.nctrs - 1))
      BY <1>1 DEF InfoFits, Counter
    <3>2. j.nctrs = IF i.ids[ct.def] = -1 THEN i.nctrs + 1 ELSE i.nctrs
      BY <2>2 DEF CounterPut, NextNumber
    <3> QED BY <3>1, <3>2
  <2>10. KeysFit(q, j, E, d)
    BY <2>5, <2>6, <2>9 DEF KeysFit
  <2> QED BY <1>1, <2>6, <2>7, <2>8, <2>10 DEF CounterFollowed
<1> QED BY <1>2, <1>3

(* A counter is written if it has counted something, and read. *)
LEMMA StepNextCounter ==
  ASSUME Inv, NextCounter
  PROVE  Inv'
<1>1. PICK tree, f, ct, x, c : /\ tree = Buffer /\ f = Current.frame
                               /\ ct = ThisFrame.counters[ctr + 1] /\ x = Here(f)
                               /\ c = <<x, ctr + 1>>
  BY Zenon
<1>2. /\ phase = "counters" /\ phase' = "counters"
      /\ info' = PutCounter(info, ct) /\ ctr' = ctr + 1
      /\ program' = program /\ dump' = dump /\ buffer' = buffer /\ stack' = stack
      /\ lines' = lines /\ todo' = todo /\ buf' = buf /\ off' = off /\ file' = file
      /\ failures' = failures /\ torn' = torn /\ reader' = reader
      /\ Buffer' = tree /\ Current' = Current /\ ThisFrame' = ThisFrame
  BY <1>1, Zenon DEF NextCounter, fastio, Buffer, Buffers, Current, ThisFrame
<1>3. /\ tree \in Trees /\ f \in 2..Len(tree) /\ f \in DOMAIN tree /\ ctr \in Nat
      /\ ctr + 1 \in DOMAIN tree[f].counters /\ ct \in Counter
      /\ (ct.ticks = 0 /\ ct.peak = 0 => ct.value = 0)
      /\ x \in lines /\ PathTo(x) = PathsOf(tree)[f]
      /\ c \in CountersOf(Frames) \ Dumped /\ CounterAt(c) = ct
      /\ Dumped' = Dumped \cup {c}
  BY <1>1, CounterWalk
<1>4. /\ Walking /\ Walking' /\ ~ Fresh /\ ~ Fresh' /\ ~ Loaded /\ ~ Loaded'
  BY <1>2 DEF Walking, Fresh, Loaded
<1>5. ThisFrame = tree[f]
  BY <1>1 DEF ThisFrame
<1>6. ToEnter' = ToEnter /\ Seen' = Seen
  BY <1>1, <1>2 DEF ToEnter, Below, Seen, Here
<1>7. WalkOK'
  <2>1. IsWalk(tree, ToEnter, Seen) /\ Closed(tree, Seen) /\ stack \in Seq(Items) /\ stack # <<>>
        /\ Current.frame \in Seen \ {1} /\ Current.depth = Len(PathsOf(tree)[Current.frame])
    BY <1>1, <1>2, <1>4 DEF Inv, WalkOK
  <2>2. ctr' \in 0..Len(ThisFrame'.counters)
    <3>1. PICK s : s = tree[f].counters
      OBVIOUS
    <3>2. s \in Seq(Counter) /\ ctr + 1 \in DOMAIN s
      BY <1>3, <3>1, FrameFacts
    <3>3. ctr + 1 \in 0..Len(s)
      BY <3>2
    <3> QED BY <1>2, <1>5, <3>1, <3>3
  <2>3. IsWalk(Buffer, ToEnter, Seen)'
    BY <1>2, <1>6, <2>1 DEF IsWalk
  <2>4. Closed(Buffer, Seen)'
    BY <1>2, <1>6, <2>1 DEF Closed
  <2>5. PathsOf(Buffer)[Current.frame]' = PathsOf(tree)[Current.frame]
    BY <1>2
  <2> QED BY <1>2, <1>6, <2>1, <2>2, <2>3, <2>4, <2>5 DEF WalkOK
<1>8. PhaseOK'
  BY <1>2, <1>4 DEF Inv, PhaseOK
<1>9. LinesOK'
  <2>1. Frames' = Frames
    BY <1>2, SameProgram
  <2> QED BY <1>2, <1>4, <2>1 DEF Inv, LinesOK
<1>10. PICK i, j : i = info /\ j = info'
  OBVIOUS
<1>11. InfoFits(i) /\ i.out # <<>>
  BY <1>10 DEF Inv, InfoOK
<1>12. /\ InfoFits(j) /\ j.symcache = i.symcache /\ j.out # <<>>
       /\ \A e \in CounterDefs : j.ids[e] # -1 => i.ids[e] # -1 \/ e = ct.def
  BY <1>2, <1>3, <1>10, <1>11, CounterInfo
<1>13. InfoOK'
  <2>1. InfoFits(info)'
    BY <1>10, <1>12 DEF InfoFits
  <2>2. \A y \in DOMAIN i.symcache.symId : \E z \in Frames : FrameAt(z).address = y
    BY <1>10 DEF Inv, InfoOK
  <2>3. \A y \in DOMAIN info'.symcache.symId : \E z \in Frames' : FrameAt(z)'.address = y
    BY <1>2, <1>10, <1>12, <2>2, SameProgram
  <2>4. \A e \in CounterDefs :
          j.ids[e] # -1 => \E k \in DOMAIN tree : e \in Defs(tree, k)
    <3>1. \A e \in CounterDefs :
            i.ids[e] # -1 => \E k \in DOMAIN tree : e \in Defs(tree, k)
      BY <1>1, <1>10 DEF Inv, InfoOK
    <3>2. ct.def \in Defs(tree, f)
      BY <1>1, <1>3, <1>5 DEF Defs
    <3> QED BY <1>3, <1>12, <3>1, <3>2
  <2> QED BY <1>2, <1>4, <1>10, <1>12, <2>1, <2>3, <2>4 DEF InfoOK, Defs
<1>14. StreamOK'
  BY <1>2, <1>4 DEF Inv, StreamOK
<1>15. IsFiniteSet(Dumped)'
  <2>1. IsFiniteSet(Dumped)
    BY DEF Inv
  <2> QED BY <1>3, <2>1, FS_AddElement
<1>16. PICK L, D, d : L = lines /\ D = Dumped /\ d = dump
  OBVIOUS
<1>17. ReadOK'
  <2> SUFFICES ASSUME Good' PROVE IsReader(reader)' /\ Follows(Follower)'
    BY <1>2 DEF ReadOK
  <2>1. Good
    BY <1>2, StillGood
  <2>2. IsReader(reader) /\ Follows(Follower)
    BY <1>4, <2>1 DEF Inv, ReadOK
  <2>3. PICK base, r, q : base = Reader(reader) /\ r = Reading(base, i.out)
                          /\ q = Reading(base, j.out)
    OBVIOUS
  <2>4. Follower = r /\ Follower' = q
    BY <1>2, <1>10, <2>3 DEF Follower
  <2>5. /\ IsReader(r) /\ r.cost = Costs(L, D, r.key) /\ SymbolsFit(r, i)
        /\ KeysFit(r, i, D, d) /\ StackFits(r)
    BY <1>4, <1>10, <1>16, <2>2, <2>4 DEF Follows
  <2>6. /\ r.nodestack \in Seq(Names) /\ r.expects = "counter"
        /\ r.nodestack = PathsOf(tree)[f] /\ OnStack(tree, ToEnter, r.nodestack)
    BY <1>1, <1>2, <1>4, <2>5 DEF StackFits
  <2>7. PICK E : E = D \cup {c}
    OBVIOUS
  <2>a. /\ IsReader(q) /\ q.expects = "counter" /\ q.nodestack = r.nodestack
        /\ q.cost = Costs(L, E, q.key) /\ SymbolsFit(q, j) /\ KeysFit(q, j, E, d)
    <3>1. program \in Programs
      BY DEF Inv, PhaseOK
    <3>2. CounterNext(L, D, c, ct, r)
      <4>1. D \in SUBSET CountersOf(Frames)
        BY <1>16, DumpedOnLines
      <4>2. IsFiniteSet(D) /\ c \in CountersOf(Frames) \ D
        BY <1>3, <1>16 DEF Inv
      <4>3. PathTo(c[1]) = r.nodestack /\ r.nodestack \in Paths(L)
        BY <1>1, <1>3, <1>16, <2>6 DEF Paths
      <4>4. r.key = "" => Unused(D)
        BY <2>5 DEF KeysFit
      <4> QED BY <1>3, <2>5, <4>1, <4>2, <4>3, <4>4 DEF CounterNext
    <3>3. CounterFits(r, i, ct, L, D, c, d)
      BY <1>3, <1>11, <2>5, <2>6, <3>2 DEF CounterFits
    <3>4. j = PutCounter(i, ct)
      BY <1>2, <1>10
    <3>5. CounterFollowed(r, q, j, L, E, d)
      BY <2>3, <2>7, <3>1, <3>3, <3>4, CounterFollows
    <3> QED BY <3>5 DEF CounterFollowed
  <2>8. StackFits(q)'
    <3>1. PathsOf(Buffer)[Current.frame]' = PathsOf(tree)[f]
      BY <1>1, <1>2
    <3>2. OnStack(Buffer, ToEnter, q.nodestack)'
      BY <1>2, <1>6, <2>6, <2>a DEF OnStack
    <3> QED BY <1>2, <2>6, <2>a, <3>1, <3>2 DEF StackFits
  <2>9. Follows(q)'
    <3>1. L = lines' /\ E = Dumped' /\ j = info' /\ d = dump'
      BY <1>2, <1>3, <1>10, <1>16, <2>7
    <3> QED BY <1>2, <2>a, <2>8, <3>1, FollowsNext
  <2>10. Follows(Follower)'
    BY <2>4, <2>9
  <2> QED BY <1>2, <2>2, <2>10 DEF IsReader
<1> QED BY <1>7, <1>8, <1>9, <1>13, <1>14, <1>15, <1>17 DEF Inv

(* The end of a line is put, *)
LEMMA EndOfLine ==
  ASSUME NEW i, InfoFits(i), NEW t, t = [k |-> "EOL"], NEW j, j = EndLine(i)
  PROVE  /\ InfoFits(j) /\ t \in Token /\ j.out = Append(i.out, t) /\ j.out # <<>>
         /\ j.nsyms = i.nsyms /\ j.nlibs = i.nlibs /\ j.nctrs = i.nctrs
         /\ j.symcache = i.symcache /\ j.ids = i.ids
<1>1. PICK ns, nl, nc, c, ids, out, no :
        /\ ns = i.nsyms /\ nl = i.nlibs /\ nc = i.nctrs /\ c = i.symcache /\ ids = i.ids
        /\ out = i.out /\ no = FALSE
  OBVIOUS
<1>2. i = InfoOf(ns, nl, nc, c, ids, out, no)
  BY <1>1, Zenon DEF InfoFits, InfoOf
<1>3. j = InfoOf(ns, nl, nc, c, ids, Append(out, t), no)
  <2>1. j = Put(i, t)
    BY DEF EndLine
  <2> QED BY <1>2, <2>1, InfoPut
<1>4. t \in Token
  BY DEF Token
<1>5. out \in Seq(Token)
  BY <1>1 DEF InfoFits
<1>6. PICK o : o = Append(out, t)
  OBVIOUS
<1>7. o \in Seq(Token) /\ o # <<>>
  <2>1. PICK T : T = Token
    OBVIOUS
  <2>2. out \in Seq(T) /\ t \in T
    BY <1>4, <1>5, <2>1
  <2>3. Append(out, t) \in Seq(T) /\ Append(out, t) # <<>>
    BY <2>2, AppendProperties
  <2> QED BY <1>6, <2>1, <2>3
<1>8. /\ ns \in Nat /\ nl \in Nat /\ nc \in Nat /\ CacheOK(c)
      /\ \A a \in DOMAIN c.symId : c.symId[a] \in 0..(ns - 1)
      /\ \A b \in DOMAIN c.binId : c.binId[b] \in 0..(nl - 1)
      /\ ids \in [CounterDefs -> Int]
      /\ \A x \in CounterDefs : ids[x] = -1 \/ ids[x] \in 0..(nc - 1)
  BY <1>1 DEF InfoFits
<1>9. j = InfoOf(ns, nl, nc, c, ids, o, no)
  BY <1>3, <1>6
<1>10. InfoFits(j)
  BY <1>1, <1>7, <1>8, <1>9, InfoFitsOf, Zenon
<1>11. /\ j.nsyms = ns /\ j.nlibs = nl /\ j.nctrs = nc /\ j.symcache = c /\ j.ids = ids
       /\ j.out = o
  BY <1>9, InfoFields
<1> QED BY <1>1, <1>4, <1>6, <1>7, <1>10, <1>11

(* The end of a line is behind all of its counters. *)
LEMMA LineDumped ==
  ASSUME Inv, LeaveLine
  PROVE  Dumped' = Dumped
<1>1. PICK tree, f, x : tree = Buffer /\ f = Current.frame /\ x = Here(f)
  OBVIOUS
<1>2. /\ phase = "counters" /\ phase' = "frames" /\ ctr = Len(ThisFrame.counters)
      /\ program' = program /\ lines' = lines
  BY DEF LeaveLine
<1>3. Walking
  BY <1>2 DEF Walking
<1>4. /\ tree \in Trees /\ Len(tree) \in Nat \ {0} /\ DOMAIN tree = 1..Len(tree)
      /\ \A i : FrameAt(Here(i)) = tree[i] /\ PathTo(Here(i)) = PathsOf(tree)[i]
  BY <1>1, <1>3, InBuffer DEF Inv
<1>5. Closed(tree, Seen) /\ f \in Seen \ {1}
  BY <1>1, <1>2, <1>3 DEF Inv, WalkOK
<1>6. PICK L, D : L = lines /\ D = Dumped
  OBVIOUS
<1>7. Dumped' = D
  <2>1. Dumped' = CountersOf(L)
    <3>1. Dumped' = CountersOf(L)'
      BY <1>2, <1>6, AllDumped
    <3> QED BY <1>2, <3>1, SameProgram
  <2>2. D = {c \in CountersOf(L) : c[1] = x => c[2] <= ctr}
    BY <1>1, <1>2, <1>6 DEF Dumped
  <2>3. ASSUME NEW c \in CountersOf(L), c[1] = x PROVE c[2] <= ctr
    <3>1. PICK y \in L : c \in {<<y, k>> : k \in DOMAIN FrameAt(y).counters}
      BY DEF CountersOf
    <3>2. PICK k \in DOMAIN FrameAt(y).counters : c = <<y, k>>
      BY <3>1
    <3>3. y = x
      BY <2>3, <3>2
    <3>4. ThisFrame = tree[f] /\ FrameAt(x) = tree[f]
      BY <1>1, <1>4 DEF ThisFrame
    <3>5. tree[f].counters \in Seq(Counter)
      BY <1>4, <1>5, FrameFacts DEF Closed
    <3>6. k \in 1..Len(tree[f].counters) /\ Len(tree[f].counters) \in Nat
      BY <3>2, <3>3, <3>4, <3>5
    <3> QED BY <1>2, <3>2, <3>4, <3>6
  <2> QED BY <2>1, <2>2, <2>3
<1> QED BY <1>6, <1>7

(* and read; the frames below the one that is left come next. *)
LEMMA StepLeaveLine ==
  ASSUME Inv, LeaveLine
  PROVE  Inv'
<1>1. PICK tree, f, x, t, w : /\ tree = Buffer /\ f = Current.frame /\ x = Here(f)
                              /\ t = [k |-> "EOL"] /\ w = ToEnter
  OBVIOUS
<1>2. /\ phase = "counters" /\ phase' = "frames" /\ ctr = Len(ThisFrame.counters)
      /\ info' = EndLine(info) /\ stack' = w
      /\ program' = program /\ dump' = dump /\ buffer' = buffer
      /\ lines' = lines /\ todo' = todo /\ buf' = buf /\ off' = off /\ file' = file
      /\ failures' = failures /\ torn' = torn /\ reader' = reader /\ Buffer' = tree
  BY <1>1 DEF LeaveLine, Descend, ToEnter, fastio, Buffer, Buffers
<1>3. /\ Walking /\ Walking' /\ ~ Fresh /\ ~ Loaded /\ ~ Loaded'
  BY <1>2 DEF Walking, Fresh, Loaded
<1>4. /\ tree \in Trees /\ Len(tree) \in Nat \ {0} /\ DOMAIN tree = 1..Len(tree)
      /\ \A i : FrameAt(Here(i)) = tree[i] /\ PathTo(Here(i)) = PathsOf(tree)[i]
  BY <1>1, <1>3, InBuffer DEF Inv
<1>5. IsWalk(tree, w, Seen) /\ Closed(tree, Seen) /\ f \in Seen \ {1}
  BY <1>1, <1>2, <1>3 DEF Inv, WalkOK
<1>6. ToEnter' = w /\ Seen' = Seen
  BY <1>1, <1>2 DEF ToEnter, Seen, Here
<1>7. WalkOK'
  <2>1. IsWalk(Buffer, ToEnter, Seen)'
    BY <1>2, <1>5, <1>6 DEF IsWalk
  <2>2. Closed(Buffer, Seen)'
    BY <1>2, <1>5, <1>6 DEF Closed
  <2> QED BY <1>2, <2>1, <2>2 DEF WalkOK
<1>8. PhaseOK'
  BY <1>2, <1>3 DEF Inv, PhaseOK
<1>9. LinesOK'
  <2>1. Frames' = Frames
    BY <1>2, SameProgram
  <2> QED BY <1>2, <1>3, <2>1 DEF Inv, LinesOK
<1>10. PICK i, j : i = info /\ j = info'
  OBVIOUS
<1>11. /\ InfoFits(j) /\ t \in Token /\ j.out = Append(i.out, t) /\ j.out # <<>>
       /\ j.nsyms = i.nsyms /\ j.nlibs = i.nlibs /\ j.nctrs = i.nctrs
       /\ j.symcache = i.symcache /\ j.ids = i.ids
  <2>1. InfoFits(i)
    BY <1>10 DEF Inv, InfoOK
  <2> QED BY <1>1, <1>2, <1>10, <2>1, EndOfLine
<1>12. InfoOK'
  <2>1. InfoFits(info)'
    BY <1>10, <1>11 DEF InfoFits
  <2>2. \A y \in DOMAIN i.symcache.symId : \E z \in Frames : FrameAt(z).address = y
    BY <1>10 DEF Inv, InfoOK
  <2>3. \A y \in DOMAIN info'.symcache.symId : \E z \in Frames' : FrameAt(z)'.address = y
    BY <1>2, <1>10, <1>11, <2>2, SameProgram
  <2>4. \A e \in CounterDefs :
          j.ids[e] # -1 => \E k \in DOMAIN tree : e \in Defs(tree, k)
    BY <1>1, <1>10, <1>11 DEF Inv, InfoOK
  <2> QED BY <1>2, <1>3, <1>10, <1>11, <2>1, <2>3, <2>4 DEF InfoOK, Defs
<1>13. StreamOK'
  BY <1>2, <1>3 DEF Inv, StreamOK
<1>14. PICK L, D, d : L = lines /\ D = Dumped /\ d = dump
  OBVIOUS
<1>15. Dumped' = D
  BY <1>14, LineDumped
<1>16. IsFiniteSet(Dumped)'
  BY <1>14, <1>15 DEF Inv
<1>17. ReadOK'
  <2> SUFFICES ASSUME Good' PROVE IsReader(reader)' /\ Follows(Follower)'
    BY <1>2 DEF ReadOK
  <2>1. Good
    BY <1>2, StillGood
  <2>2. IsReader(reader) /\ Follows(Follower)
    BY <1>3, <2>1 DEF Inv, ReadOK
  <2>3. PICK r, q : r = Follower /\ q = ReadToken(r, t)
    OBVIOUS
  <2>4. Follower' = q
    <3>1. PICK base, T, s : base = Reader(reader) /\ T = Token /\ s = i.out
      OBVIOUS
    <3>2. s \in Seq(T) /\ t \in T
      BY <1>10, <1>11, <3>1 DEF Inv, InfoOK, InfoFits
    <3>3. Reading(base, Append(s, t)) = ReadToken(Reading(base, s), t)
      BY <3>2, ReadOneMore
    <3>4. Follower' = Reading(base, Append(s, t))
      BY <1>2, <1>10, <1>11, <3>1 DEF Follower
    <3>5. r = Reading(base, s)
      BY <1>10, <2>3, <3>1 DEF Follower
    <3> QED BY <2>3, <3>3, <3>4, <3>5
  <2>5. /\ IsReader(r) /\ r.cost = Costs(L, D, r.key) /\ SymbolsFit(r, i)
        /\ KeysFit(r, i, D, d) /\ StackFits(r)
    BY <1>3, <1>10, <1>14, <2>2, <2>3 DEF Follows
  <2>6. /\ r.nodestack \in Seq(Names) /\ r.expects = "counter" /\ OnStack(tree, w, r.nodestack)
    BY <1>1, <1>2, <1>3, <2>5 DEF StackFits
  <2>7. LineEnded(r, q)
    BY <1>1, <2>3, <2>5, <2>6, EndRead
  <2>8. /\ IsReader(q) /\ q.expects = "line"
        /\ q.key = r.key /\ q.cost = r.cost /\ q.nodestack = r.nodestack
        /\ q.symbols = r.symbols /\ q.files = r.files /\ q.namedFiles = r.namedFiles
        /\ q.keys = r.keys
    BY <2>7 DEF LineEnded
  <2>9. SymbolsFit(q, j)
    BY <1>11, <2>5, <2>8 DEF SymbolsFit
  <2>10. KeysFit(q, j, D, d)
    BY <1>11, <2>5, <2>8 DEF KeysFit, KeyTable
  <2>11. q.cost = Costs(L, D, q.key)
    BY <2>5, <2>8
  <2>12. StackFits(q)'
    <3>1. OnStack(Buffer, ToEnter, q.nodestack)'
      BY <1>2, <1>6, <2>6, <2>8 DEF OnStack
    <3> QED BY <1>2, <2>6, <2>8, <3>1 DEF StackFits
  <2>13. Follows(q)'
    <3>1. L = lines' /\ D = Dumped' /\ j = info' /\ d = dump'
      BY <1>2, <1>10, <1>14, <1>15
    <3> QED BY <1>2, <2>8, <2>9, <2>10, <2>11, <2>12, <3>1, FollowsNext
  <2>14. Follows(Follower)'
    BY <2>4, <2>13
  <2> QED BY <1>2, <2>2, <2>14 DEF IsReader
<1> QED BY <1>7, <1>8, <1>9, <1>12, <1>13, <1>16, <1>17 DEF Inv

(* dumpOneProfile() finds every symbol that it asks for. *)
LEMMA NotCrashed ==
  ASSUME NEW i, InfoFits(i)
  PROVE  i.crashed = FALSE
<1>1. PICK ns, nl, nc, c, ids, out, no :
        /\ ns = i.nsyms /\ nl = i.nlibs /\ nc = i.nctrs /\ c = i.symcache /\ ids = i.ids
        /\ out = i.out /\ no = FALSE
  OBVIOUS
<1>2. i = InfoOf(ns, nl, nc, c, ids, out, no)
  BY <1>1, Zenon DEF InfoFits, InfoOf
<1> QED BY <1>1, <1>2, InfoFields

WithIds(i, ids) == [i EXCEPT !.ids = ids]

(* The numbers of the counters alone change. *)
LEMMA InfoIds ==
  ASSUME NEW ns, NEW nl, NEW nc, NEW c, NEW ids, NEW out, NEW no, NEW new,
         NEW i, i = InfoOf(ns, nl, nc, c, ids, out, no)
  PROVE  WithIds(i, new) = InfoOf(ns, nl, nc, c, new, out, no)
BY DEF WithIds, InfoOf

(* The counters of a buffer that is done have no numbers any more. *)
LEMMA NumbersReset ==
  ASSUME InfoOK, Walking, NEW i, i = info, NEW new, new = dumpResetIDs(i.ids, Buffer),
         NEW j, j = WithIds(i, new)
  PROVE  /\ InfoFits(j) /\ j.nsyms = i.nsyms /\ j.nlibs = i.nlibs /\ j.nctrs = i.nctrs
         /\ j.symcache = i.symcache /\ j.out = i.out
         /\ \A c \in CounterDefs : j.ids[c] = -1
<1>1. PICK ns, nl, nc, c, ids, out, no :
        /\ ns = i.nsyms /\ nl = i.nlibs /\ nc = i.nctrs /\ c = i.symcache /\ ids = i.ids
        /\ out = i.out /\ no = FALSE
  OBVIOUS
<1>2. InfoFits(i)
  BY DEF InfoOK
<1>3. i = InfoOf(ns, nl, nc, c, ids, out, no)
  BY <1>1, <1>2, Zenon DEF InfoFits, InfoOf
<1>4. j = InfoOf(ns, nl, nc, c, new, out, no)
  BY <1>3, InfoIds
<1>5. /\ ns \in Nat /\ nl \in Nat /\ nc \in Nat /\ CacheOK(c) /\ out \in Seq(Token)
      /\ \A a \in DOMAIN c.symId : c.symId[a] \in 0..(ns - 1)
      /\ \A b \in DOMAIN c.binId : c.binId[b] \in 0..(nl - 1)
      /\ ids \in [CounterDefs -> Int]
  BY <1>1, <1>2 DEF InfoFits
<1>6. new \in [CounterDefs -> Int] /\ \A x \in CounterDefs : new[x] = -1
  <2>1. new = [x \in CounterDefs |->
                 IF \E k \in DOMAIN Buffer : x \in Defs(Buffer, k) THEN -1 ELSE ids[x]]
    BY <1>1, <1>5 DEF dumpResetIDs
  <2>2. \A x \in CounterDefs : ids[x] # -1 => \E k \in DOMAIN Buffer : x \in Defs(Buffer, k)
    BY <1>1 DEF InfoOK
  <2>3. \A x \in CounterDefs : new[x] = -1
    BY <2>1, <2>2
  <2>4. DOMAIN new = CounterDefs
    BY <2>1
  <2>5. new = [x \in CounterDefs |-> new[x]]
    BY <2>1, <2>4
  <2> QED BY <2>3, <2>5
<1>7. \A x \in CounterDefs : new[x] = -1 \/ new[x] \in 0..(nc - 1)
  BY <1>6
<1>8. InfoFits(j)
  <2>1. no = FALSE
    BY <1>1
  <2>2. new \in [CounterDefs -> Int]
    BY <1>6
  <2> QED BY <1>4, <1>5, <1>7, <2>1, <2>2, InfoFitsOf
<1>9. /\ j.nsyms = ns /\ j.nlibs = nl /\ j.nctrs = nc /\ j.symcache = c /\ j.ids = new
      /\ j.out = out
  BY <1>4, InfoFields
<1> QED BY <1>1, <1>6, <1>8, <1>9

(* All lines of a buffer are there when nothing is left to enter. *)
LEMMA BufferDone ==
  ASSUME Inv, phase = "frames", stack = <<>>
  PROVE  /\ ~ Fresh
         /\ \A x \in Frames : /\ x[1] \in Nat /\ x[2] \in Nat
                              /\ x[1] = dump /\ x[2] = buffer => x \in lines
<1>1. Walking
  BY DEF Walking
<1>2. PICK tree, seen : tree = Buffer /\ seen = Seen
  OBVIOUS
<1>3. /\ program \in Programs /\ tree \in Trees /\ Len(tree) \in Nat \ {0}
      /\ \A i : Here(i) \in Frames <=> i \in 2..Len(tree)
      /\ dump \in Nat /\ buffer \in Nat
  BY <1>1, <1>2, InBuffer DEF Inv
<1>4. ~ Fresh
  BY DEF Fresh
<1>5. IsWalk(tree, <<>>, seen) /\ Closed(tree, seen)
  <2>1. ToEnter = <<>>
    BY DEF ToEnter
  <2> QED BY <1>1, <1>2, <1>4, <2>1 DEF Inv, WalkOK
<1>6. 2..Len(tree) \subseteq seen
  BY <1>3, <1>5, WalkDone
<1>7. \A i \in 2..Len(tree) : Here(i) \in lines
  BY <1>2, <1>3, <1>6 DEF Seen
<1>8. ASSUME NEW x \in Frames
      PROVE  /\ x[1] \in Nat /\ x[2] \in Nat
             /\ x[1] = dump /\ x[2] = buffer => x \in lines
  <2>1. /\ x = <<x[1], x[2], x[3]>>
        /\ x[1] \in DOMAIN program.dumps /\ x[2] \in DOMAIN program.dumps[x[1]]
    BY <1>3, FrameIsPlace
  <2>2. x[1] \in Nat
    <3>1. program.dumps \in Seq(Seq(Trees))
      BY <1>3, TreesOf
    <3> QED BY <2>1, <3>1
  <2>3. x[2] \in Nat
    <3>1. /\ DOMAIN program.dumps[x[1]] = 1..Len(program.dumps[x[1]])
          /\ Len(program.dumps[x[1]]) \in Nat
      BY <1>3, <2>1, TreesOf
    <3> QED BY <2>1, <3>1
  <2>4. ASSUME x[1] = dump, x[2] = buffer PROVE x \in lines
    <3>1. x = Here(x[3])
      BY <2>1, <2>4 DEF Here
    <3>2. x[3] \in 2..Len(tree)
      BY <1>3, <3>1
    <3> QED BY <1>7, <3>1, <3>2
  <2> QED BY <2>2, <2>3, <2>4
<1> QED BY <1>4, <1>8

(* The next buffer, or the end of what is written *)
LEMMA StepEndBuffer ==
  ASSUME Inv, EndBuffer
  PROVE  Inv'
<1>1. /\ phase = "frames" /\ stack = <<>>
      /\ info' = [info EXCEPT !.ids = dumpResetIDs(@, Buffer)]
      /\ program' = program /\ dump' = dump /\ lines' = lines
      /\ buf' = buf /\ off' = off /\ file' = file /\ failures' = failures /\ torn' = torn /\ reader' = reader
      /\ buffer < Len(Buffers) => /\ buffer' = buffer + 1 /\ stack' = <<Root>>
                                  /\ phase' = "frames" /\ todo' = todo
      /\ ~ (buffer < Len(Buffers)) => buffer' = buffer /\ phase' = "put" /\ todo' = info.out
  BY DEF EndBuffer
<1>2. Walking /\ ~ Loaded /\ phase # "counters" /\ phase' # "counters"
  BY <1>1 DEF Walking, Loaded
<1>3. /\ ~ Fresh
      /\ \A x \in Frames : /\ x[1] \in Nat /\ x[2] \in Nat
                           /\ x[1] = dump /\ x[2] = buffer => x \in lines
  BY <1>1, BufferDone
<1>4. /\ program \in Programs /\ dump \in Nat /\ buffer \in Nat
      /\ dump \in DOMAIN program.dumps /\ buffer \in DOMAIN program.dumps[dump]
  BY <1>2, InBuffer DEF Inv
<1>5. /\ DOMAIN program.dumps[dump] = 1..Len(Buffers) /\ Len(Buffers) \in Nat
  BY <1>4, TreesOf DEF Buffers
<1>6. Frames' = Frames
  BY <1>1, SameProgram
<1>7. ASSUME buffer < Len(Buffers)
      PROVE  PhaseOK' /\ WalkOK' /\ LinesOK' /\ StreamOK' /\ (Fresh' \/ ~ Walking')
             /\ phase' \in {"frames", "put"}
  <2>1. /\ buffer' = buffer + 1 /\ stack' = <<Root>> /\ phase' = "frames" /\ todo' = todo
    BY <1>1, <1>7
  <2>2. Walking' /\ ~ Loaded'
    BY <2>1 DEF Walking, Loaded
  <2>3. PhaseOK'
    <3>1. buffer' \in DOMAIN program.dumps[dump]
      BY <1>4, <1>5, <1>7, <2>1
    <3> QED BY <1>1, <2>1, <2>2, <3>1 DEF Inv, PhaseOK
  <2>4. /\ (Buffer \in Trees)' /\ (Len(Buffer) \in Nat \ {0})' /\ (DOMAIN Buffer = 1..Len(Buffer))'
        /\ (\A i : Here(i) \in Frames <=> i \in 2..Len(Buffer))'
    BY <2>2, <2>3, InBuffer, PTL
  <2>5. \A i \in 2..Len(Buffer') : Here(i)' \notin lines
    <3> SUFFICES ASSUME NEW i \in 2..Len(Buffer') PROVE Here(i)' \notin lines
      OBVIOUS
    <3>1. Here(i)' \in Frames
      BY <1>6, <2>4
    <3>2. Here(i)'[1] = dump /\ Here(i)'[2] = buffer + 1
      BY <1>1, <2>1 DEF Here
    <3>3. Here(i)'[2] > buffer
      BY <1>4, <3>2
    <3> QED BY <1>2, <3>1, <3>2, <3>3 DEF Inv, LinesOK
  <2>6. Seen' = {1} /\ Fresh'
    BY <1>1, <2>1, <2>5 DEF Seen, Fresh
  <2>7. WalkOK'
    <3>1. Closed(Buffer', Seen')
      BY <2>4, <2>6 DEF Closed
    <3>2. Closed(Buffer, Seen)'
      BY <3>1 DEF Closed
    <3> QED BY <1>2, <2>6, <3>2 DEF WalkOK
  <2>8. LinesOK'
    <3> SUFFICES ASSUME NEW x \in Frames
                 PROVE  /\ x[1] < dump => x \in lines
                        /\ x[1] > dump => x \notin lines
                        /\ x[1] = dump => /\ x[2] < buffer' => x \in lines
                                          /\ x[2] > buffer' => x \notin lines
      BY <1>1, <1>6, <2>2 DEF Inv, LinesOK
    <3>1. /\ x[1] < dump => x \in lines
          /\ x[1] > dump => x \notin lines
          /\ x[1] = dump => /\ x[2] < buffer => x \in lines
                            /\ x[2] > buffer => x \notin lines
      BY <1>2 DEF Inv, LinesOK
    <3>2. x[2] \in Nat /\ (x[1] = dump /\ x[2] = buffer => x \in lines)
      BY <1>3
    <3>3. x[2] < buffer' => x[2] < buffer \/ x[2] = buffer
      BY <1>4, <2>1, <3>2
    <3>4. x[2] > buffer' => x[2] > buffer
      BY <1>4, <2>1, <3>2
    <3> QED BY <3>1, <3>2, <3>3, <3>4
  <2>9. StreamOK'
    BY <1>1, <1>2, <2>1, <2>2 DEF Inv, StreamOK
  <2>10. Fresh' \/ ~ Walking'
    BY <2>6
  <2>11. phase' \in {"frames", "put"}
    BY <2>1
  <2> QED BY <2>3, <2>7, <2>8, <2>9, <2>10, <2>11
<1>8. ASSUME ~ (buffer < Len(Buffers))
      PROVE  PhaseOK' /\ WalkOK' /\ LinesOK' /\ StreamOK' /\ (Fresh' \/ ~ Walking')
             /\ phase' \in {"frames", "put"}
  <2>1. buffer' = buffer /\ phase' = "put" /\ todo' = info.out
    BY <1>1, <1>8
  <2>2. ~ Walking' /\ Loaded'
    BY <2>1 DEF Walking, Loaded
  <2>3. PhaseOK'
    BY <1>1, <2>1, <2>2 DEF Inv, PhaseOK
  <2>4. WalkOK'
    BY <2>2 DEF WalkOK
  <2>5. LinesOK'
    <3> SUFFICES ASSUME NEW x \in Frames
                 PROVE  /\ x[1] < dump => x \in lines
                        /\ x[1] > dump => x \notin lines
                        /\ x[1] = dump => x \in lines
      BY <1>1, <1>6, <2>2 DEF Inv, LinesOK
    <3>1. /\ x[1] < dump => x \in lines
          /\ x[1] > dump => x \notin lines
          /\ x[1] = dump /\ x[2] < buffer => x \in lines
      BY <1>2 DEF Inv, LinesOK
    <3>2. ASSUME x[1] = dump PROVE x \in lines
      <4>1. x[2] \in DOMAIN program.dumps[dump]
        BY <1>4, <3>2, FrameIsPlace
      <4>2. x[2] \in 1..Len(Buffers) /\ x[2] \in Nat
        BY <1>5, <4>1
      <4>3. x[2] < buffer \/ x[2] = buffer
        BY <1>4, <1>5, <1>8, <4>2
      <4> QED BY <1>3, <3>1, <3>2, <4>3
    <3> QED BY <3>1, <3>2
  <2>6. StreamOK'
    <3>1. PICK o, T : o = info.out /\ T = Token
      OBVIOUS
    <3>2. o \in Seq(T) /\ o # <<>>
      BY <3>1 DEF Inv, InfoOK, InfoFits
    <3>3. info'.out = o
      <4>1. PICK i, j, new : i = info /\ j = info' /\ new = dumpResetIDs(i.ids, Buffer)
        OBVIOUS
      <4>2. j = WithIds(i, new)
        BY <1>1, <4>1 DEF WithIds
      <4>3. InfoOK
        BY DEF Inv
      <4>4. j.out = i.out
        BY <1>2, <4>1, <4>2, <4>3, NumbersReset
      <4> QED BY <3>1, <4>1, <4>4
    <3>4. /\ file = <<>> /\ buf = <<>> /\ off = 0 /\ failures \in Nat /\ (torn => failures # 0)
      BY <1>1 DEF Inv, StreamOK
    <3>5. (file' \o SubSeq(buf', off' + 1, Len(buf'))) \o todo' = o
      <4>1. PICK e, z : e = <<>> /\ z = SubSeq(buf', off' + 1, Len(buf'))
        OBVIOUS
      <4>2. z = e
        BY <1>1, <3>4, <4>1, SubSeqEmpty
      <4>3. e \o e = e
        BY <4>1
      <4>4. e \o o = o
        BY <3>2, <4>1, ConcatEmptySeq
      <4> QED BY <1>1, <2>1, <3>1, <3>4, <4>1, <4>2, <4>3, <4>4
    <3>6. file' \in Seq(Token) /\ buf' \in Seq(Token) /\ todo' \in Seq(Token)
      <4>1. <<>> \in Seq(Token)
        OBVIOUS
      <4> QED BY <1>1, <2>1, <3>1, <3>2, <3>4, <4>1
    <3> QED BY <1>1, <2>1, <3>1, <3>2, <3>3, <3>4, <3>5, <3>6 DEF StreamOK
  <2>7. Fresh' \/ ~ Walking'
    BY <2>2
  <2>8. phase' \in {"frames", "put"}
    BY <2>1
  <2> QED BY <2>3, <2>4, <2>5, <2>6, <2>7, <2>8
<1>9. PhaseOK' /\ WalkOK' /\ LinesOK' /\ StreamOK' /\ (Fresh' \/ ~ Walking')
      /\ phase' \in {"frames", "put"}
  BY <1>7, <1>8
<1>10. PICK i, j : i = info /\ j = info'
  OBVIOUS
<1>11. /\ InfoFits(j) /\ j.nsyms = i.nsyms /\ j.nlibs = i.nlibs /\ j.nctrs = i.nctrs
       /\ j.symcache = i.symcache /\ j.out = i.out
       /\ \A c \in CounterDefs : j.ids[c] = -1
  <2>1. PICK new : new = dumpResetIDs(i.ids, Buffer)
    OBVIOUS
  <2>2. j = WithIds(i, new)
    BY <1>1, <1>10, <2>1 DEF WithIds
  <2>3. InfoOK
    BY DEF Inv
  <2> QED BY <1>2, <1>10, <2>1, <2>2, <2>3, NumbersReset
<1>12. InfoOK'
  <2>1. InfoFits(info)'
    BY <1>10, <1>11 DEF InfoFits
  <2>2. (\A y \in DOMAIN i.symcache.symId : \E z \in Frames : FrameAt(z).address = y) /\ i.out # <<>>
    BY <1>10 DEF Inv, InfoOK
  <2>3. \A y \in DOMAIN info'.symcache.symId : \E z \in Frames' : FrameAt(z)'.address = y
    BY <1>1, <1>10, <1>11, <2>2, SameProgram
  <2> QED BY <1>10, <1>11, <2>1, <2>2, <2>3 DEF InfoOK
<1>13. PICK L, D, d : L = lines /\ D = Dumped /\ d = dump
  OBVIOUS
<1>14. Dumped' = D
  <2>1. Dumped' = CountersOf(L)' /\ D = CountersOf(L)
    BY <1>1, <1>2, <1>13, AllDumped
  <2> QED BY <1>1, <2>1, SameProgram
<1>15. IsFiniteSet(Dumped)'
  BY <1>13, <1>14 DEF Inv
<1>16. ReadOK'
  <2> SUFFICES ASSUME Good' PROVE IsReader(reader)' /\ Follows(Follower)'
    BY <1>9 DEF ReadOK
  <2>1. Good
    BY <1>1, StillGood
  <2>2. IsReader(reader) /\ Follows(Follower)
    BY <1>2, <2>1 DEF Inv, ReadOK
  <2>3. PICK r : r = Follower
    OBVIOUS
  <2>4. Follower' = r
    BY <1>1, <1>10, <1>11, <2>3 DEF Follower
  <2>5. /\ IsReader(r) /\ r.cost = Costs(L, D, r.key) /\ SymbolsFit(r, i)
        /\ KeysFit(r, i, D, d) /\ StackFits(r)
    BY <1>2, <1>10, <1>13, <2>2, <2>3 DEF Follows
  <2>6. SymbolsFit(r, j)
    BY <1>11, <2>5 DEF SymbolsFit
  <2>7. KeysFit(r, j, D, d)
    BY <1>11, <2>5 DEF KeysFit, KeyTable
  <2>8. StackFits(r)'
    BY <1>2, <1>9, <2>5 DEF StackFits
  <2>9. Follows(r)'
    <3>1. L = lines' /\ D = Dumped' /\ j = info' /\ d = dump'
      BY <1>1, <1>10, <1>13, <1>14
    <3> QED BY <1>1, <2>5, <2>6, <2>7, <2>8, <3>1, FollowsNext
  <2>10. Follows(Follower)'
    BY <2>4, <2>9
  <2> QED BY <1>1, <2>2, <2>10 DEF IsReader
<1> QED BY <1>9, <1>12, <1>15, <1>16 DEF Inv

(* Nothing changes. *)
LEMMA StepNothing ==
  ASSUME Inv, UNCHANGED vars
  PROVE  Inv'
<1>1. /\ program' = program /\ phase' = phase /\ dump' = dump /\ buffer' = buffer
      /\ stack' = stack /\ ctr' = ctr /\ info' = info /\ lines' = lines /\ todo' = todo
      /\ buf' = buf /\ off' = off /\ file' = file /\ failures' = failures /\ torn' = torn /\ reader' = reader
  BY DEF vars
<1>2. /\ Walking' = Walking /\ Loaded' = Loaded /\ Buffer' = Buffer /\ Current' = Current
      /\ ThisFrame' = ThisFrame
  BY <1>1 DEF Walking, Loaded, Buffer, Buffers, Current, ThisFrame
<1>3. Seen' = Seen /\ ToEnter' = ToEnter /\ Fresh' = Fresh
  BY <1>1, <1>2 DEF Seen, ToEnter, Below, Fresh, Here
<1>4. PICK tree, w, seen : tree = Buffer /\ w = ToEnter /\ seen = Seen
  OBVIOUS
<1>5. PhaseOK'
  BY <1>1, <1>2 DEF Inv, PhaseOK
<1>6. WalkOK'
  <2>1. IsWalk(Buffer, ToEnter, Seen)' <=> IsWalk(tree, w, seen)
    BY <1>2, <1>3, <1>4 DEF IsWalk
  <2>2. Closed(Buffer, Seen)' <=> Closed(tree, seen)
    BY <1>2, <1>3, <1>4 DEF Closed
  <2>3. PathsOf(Buffer)[Current.frame]' = PathsOf(Buffer)[Current.frame]
    BY <1>2
  <2> QED BY <1>1, <1>2, <1>3, <1>4, <2>1, <2>2, <2>3 DEF Inv, WalkOK
<1>7. Frames' = Frames
  BY <1>1, SameProgram
<1>8. LinesOK'
  BY <1>1, <1>2, <1>7 DEF Inv, LinesOK
<1>9. InfoOK'
  <2>1. InfoFits(info)'
    BY <1>1 DEF Inv, InfoOK, InfoFits
  <2>2. \A a \in DOMAIN info.symcache.symId : \E x \in Frames' : FrameAt(x)'.address = a
    BY <1>1, SameProgram DEF Inv, InfoOK
  <2> QED BY <1>1, <1>2, <2>1, <2>2 DEF Inv, InfoOK, Defs
<1>10. StreamOK'
  BY <1>1, <1>2 DEF Inv, StreamOK
<1>11. PICK L, D, d, i : L = lines /\ D = Dumped /\ d = dump /\ i = info
  OBVIOUS
<1>12. Dumped' = D
  <2>1. CountersOf(lines)' = CountersOf(L)
    <3>1. CountersOf(lines)' = CountersOf(L)'
      BY <1>1, <1>11
    <3> QED BY <1>1, <3>1, SameProgram
  <2> QED BY <1>1, <1>2, <1>11, <2>1 DEF Dumped, Here
<1>13. IsFiniteSet(Dumped)'
  BY <1>11, <1>12 DEF Inv
<1>14. ReadOK'
  <2> SUFFICES ASSUME Good'
               PROVE  /\ IsReader(reader)'
                      /\ (Walking \/ Loaded)' => Follows(Follower)'
                      /\ phase' \in {"begin", "done"} =>
                           /\ reader'.cost = Costs(lines, CountersOf(lines), reader.key)'
                           /\ reader'.key = "" => Unused(CountersOf(lines))'
    BY Zenon DEF ReadOK
  <2>1. Good
    BY <1>1, StillGood
  <2>2. IsReader(reader)'
    BY <1>1, <2>1 DEF Inv, ReadOK, IsReader
  <2>3. ASSUME (Walking \/ Loaded)' PROVE Follows(Follower)'
    <3>1. PICK r : r = Follower
      OBVIOUS
    <3>2. Follower' = r
      BY <1>1, <3>1 DEF Follower
    <3>3. Follows(r)
      BY <1>2, <2>1, <2>3, <3>1 DEF Inv, ReadOK
    <3>4. /\ IsReader(r) /\ r.cost = Costs(L, D, r.key) /\ (Walking => SymbolsFit(r, i))
          /\ KeysFit(r, i, D, d) /\ StackFits(r)
      BY <1>11, <3>3 DEF Follows
    <3>5. StackFits(r)'
      <4>1. OnStack(Buffer, ToEnter, r.nodestack)' <=> OnStack(tree, w, r.nodestack)
        BY <1>2, <1>3, <1>4 DEF OnStack
      <4>2. PathsOf(Buffer)[Current.frame]' = PathsOf(Buffer)[Current.frame]
        BY <1>2
      <4> QED BY <1>1, <1>2, <1>3, <1>4, <3>4, <4>1, <4>2 DEF StackFits
    <3>6. Follows(r)'
      BY <1>1, <1>2, <1>11, <1>12, <3>4, <3>5, FollowsNext
    <3> QED BY <3>2, <3>6
  <2>4. ASSUME phase' \in {"begin", "done"}
        PROVE  /\ reader'.cost = Costs(lines, CountersOf(lines), reader.key)'
               /\ reader'.key = "" => Unused(CountersOf(lines))'
    <3>1. PICK C, k : C = CountersOf(L) /\ k = reader.key
      OBVIOUS
    <3>2. /\ reader.cost = Costs(L, C, k)
          /\ k = "" => Unused(C)
      BY <1>1, <1>11, <2>1, <2>4, <3>1 DEF Inv, ReadOK
    <3>3. /\ Costs(L, C, k)' = Costs(L, C, k) /\ Unused(C)' = Unused(C) /\ CountersOf(L)' = C
      BY <1>1, <3>1, SameProgram
    <3>4. Costs(lines, CountersOf(lines), reader.key)' = Costs(L, C, k)'
      BY <1>1, <1>11, <3>1, <3>3
    <3>5. Unused(CountersOf(lines))' = Unused(C)'
      BY <1>1, <1>11, <3>3
    <3> QED BY <1>1, <3>1, <3>2, <3>3, <3>4, <3>5
  <2> QED BY <2>2, <2>3, <2>4
<1> QED BY <1>5, <1>6, <1>8, <1>9, <1>10, <1>13, <1>14 DEF Inv

(* Every step preserves the invariant. *)
LEMMA StepInv == Inv /\ [Next]_vars => Inv'
<1> SUFFICES ASSUME Inv, [Next]_vars PROVE Inv'
  OBVIOUS
<1>1. CASE Begin
  BY <1>1, StepBegin
<1>2. CASE EnterRoot
  BY <1>2, StepEnterRoot
<1>3. CASE EnterFrame
  BY <1>3, StepEnterFrame
<1>4. CASE NextCounter
  BY <1>4, StepNextCounter
<1>5. CASE LeaveLine
  BY <1>5, StepLeaveLine
<1>6. CASE EndBuffer
  BY <1>6, StepEndBuffer
<1>7. CASE PutToken
  BY <1>7, StepPutToken
<1>8. ASSUME NEW n \in 1..SIZE, Write(n) PROVE Inv'
  BY <1>8, StepWrite
<1>9. ASSUME NEW cut \in BOOLEAN, WriteFails(cut) PROVE Inv'
  BY <1>9, StepWriteFails
<1>10. CASE Read
  BY <1>10, StepRead
<1>11. CASE UNCHANGED vars
  BY <1>11, StepNothing
<1> QED BY <1>1, <1>2, <1>3, <1>4, <1>5, <1>6, <1>7, <1>8, <1>9, <1>10, <1>11 DEF Next

(* The reader follows the writer, from the first dump to the last. *)
THEOREM Following == Spec => []Inv
<1>1. Init => Inv
  BY InitInv
<1>2. Inv /\ [Next]_vars => Inv'
  BY StepInv
<1> QED BY <1>1, <1>2, PTL DEF Spec

(* When all dumps have been read, all frames have lines. *)
LEMMA AllLines ==
  ASSUME Inv, phase = "done"
  PROVE  lines = Frames
<1> SUFFICES ASSUME NEW x \in Frames PROVE x \in lines
  BY DEF Inv, LinesOK
<1>1. program \in Programs /\ dump = Len(program.dumps) /\ ~ Walking
  BY DEF Inv, PhaseOK, Walking
<1>2. program.dumps \in Seq(Seq(Trees))
  BY <1>1, TreesOf
<1>3. x[1] \in 1..dump /\ dump \in Nat
  <2>1. x[1] \in DOMAIN program.dumps
    BY <1>1, FrameIsPlace
  <2> QED BY <1>1, <1>2, <2>1
<1>4. x[1] < dump \/ x[1] = dump
  BY <1>3
<1> QED BY <1>1, <1>4 DEF Inv, LinesOK

(* Whatever the program counts, however it is cut into dumps, FastIO buffers and
   write()s, and whatever is unloaded between the dumps: when nothing failed, the
   analyser has found every call path, with the sum of its counters. *)
THEOREM RoundTrip == Spec => []ReadsBack
<1>1. Inv => ReadsBack
  <2> SUFFICES ASSUME Inv, phase = "done", failures = 0, Counting, ~ SharedFile
               PROVE  /\ ~ info.crashed
                      /\ reader.status = "reading"
                      /\ reader.cost = [p \in {PathTo(x) : x \in Frames} |->
                                          Counted(CountersOf(Frames), p, reader.key)]
    BY DEF ReadsBack
  <2>1. lines = Frames
    BY AllLines
  <2>2. IsReader(reader) /\ reader.cost = Costs(lines, CountersOf(lines), reader.key)
    BY DEF Inv, ReadOK, Good
  <2>3. reader.status = "reading"
    BY <2>2 DEF IsReader
  <2>4. ~ info.crashed
    <3>1. PICK i : i = info
      OBVIOUS
    <3>2. InfoFits(i)
      BY <3>1 DEF Inv, InfoOK
    <3>3. i.crashed = FALSE
      BY <3>2, NotCrashed
    <3> QED BY <3>1, <3>3
  <2>5. reader.cost = Costs(Frames, CountersOf(Frames), reader.key)
    BY <2>1, <2>2
  <2> QED BY <2>3, <2>4, <2>5, Zenon DEF Costs
<1> QED BY <1>1, Following, PTL

-----------------------------------------------------------------------------
(* What a sequence of tokens counts, whoever reads it *)

Ticks(t, key) == IF t.k = "V" /\ t.name = key THEN t.ticks ELSE 0

WeightTo(s, key, n) == SumFunctionOnSet([i \in DOMAIN s |-> Ticks(s[i], key)], 1..n)
Weight(s, key) == WeightTo(s, key, Len(s))

(* The ticks of a token are a number. *)
LEMMA TicksNat ==
  ASSUME NEW t \in Token, NEW key
  PROVE  /\ Ticks(t, key) \in Nat
         /\ t.k = "V" => t \in CounterToken /\ t.id \in Nat /\ t.name \in CounterDefs
                         /\ t.ticks \in Nat /\ t.value \in Nat /\ t.defines \in BOOLEAN
<1>1. t \in FrameToken => t.k = "C"
  BY DEF FrameToken
<1>2. t \in CounterToken => t.id \in Nat /\ t.name \in CounterDefs
                            /\ t.ticks \in Nat /\ t.value \in Nat /\ t.defines \in BOOLEAN
  BY DEF CounterToken
<1>3. t = [k |-> "P"] => t.k = "P"
  OBVIOUS
<1>4. t = [k |-> "EOL"] => t.k = "EOL"
  OBVIOUS
<1>5. t \in FrameToken \/ t \in CounterToken \/ t = [k |-> "P"] \/ t = [k |-> "EOL"]
  BY DEF Token
<1>6. t.k = "V" => t \in CounterToken
  BY <1>1, <1>3, <1>4, <1>5
<1> QED BY <1>2, <1>6 DEF Ticks

(* The first tokens count as much as those before the last, and the last. *)
LEMMA WeightStep ==
  ASSUME NEW s \in Seq(Token), NEW key
  PROVE  /\ WeightTo(s, key, 0) = 0
         /\ \A n \in 0..Len(s) : WeightTo(s, key, n) \in Nat
         /\ \A n \in 1..Len(s) : WeightTo(s, key, n) = Ticks(s[n], key) + WeightTo(s, key, n - 1)
<1> DEFINE f == [i \in DOMAIN s |-> Ticks(s[i], key)]
           W(n) == SumFunctionOnSet(f, 1..n)
<1>0. Len(s) \in Nat /\ DOMAIN s = 1..Len(s) /\ \A i \in 1..Len(s) : s[i] \in Token
  OBVIOUS
<1>1. \A i \in 1..Len(s) : f[i] = Ticks(s[i], key) /\ f[i] \in Nat /\ f[i] \in Int
  <2> SUFFICES ASSUME NEW i \in 1..Len(s) PROVE f[i] = Ticks(s[i], key) /\ f[i] \in Nat
    OBVIOUS
  <2>1. Ticks(s[i], key) \in Nat
    BY <1>0, TicksNat
  <2> QED BY <1>0, <2>1
<1> HIDE DEF f
<1>2. W(0) = 0
  <2>1. 1..0 = {}
    OBVIOUS
  <2> QED BY <2>1, SumEmpty
<1>3. ASSUME NEW n \in 1..Len(s) PROVE W(n) = f[n] + W(n - 1)
  <2>1. /\ n \in 1..n /\ (1..n) \ {n} = 1..(n - 1)
        /\ \A y \in 1..n : y \in 1..Len(s)
    BY <1>0
  <2>2. IsFiniteSet(1..n)
    BY FS_Interval
  <2>3. \A y \in 1..n : f[y] \in Int
    BY <1>1, <2>1
  <2>4. SumFunctionOnSet(f, 1..n) = f[n] + SumFunctionOnSet(f, (1..n) \ {n})
    BY <2>1, <2>2, <2>3, SumRemove
  <2> QED BY <2>1, <2>4
<1>4. \A n \in 0..Len(s) : W(n) \in Nat
  <2> DEFINE Q == {n \in Nat : n <= Len(s) => W(n) \in Nat}
  <2>1. 0 \in Q
    BY <1>2
  <2>2. ASSUME NEW n \in Nat, n \in Q PROVE n + 1 \in Q
    <3> SUFFICES ASSUME n + 1 <= Len(s) PROVE W(n + 1) \in Nat
      OBVIOUS
    <3>1. n + 1 \in 1..Len(s) /\ (n + 1) - 1 = n /\ n <= Len(s)
      BY <1>0
    <3>2. W(n + 1) = f[n + 1] + W(n)
      BY <1>3, <3>1
    <3>3. W(n) \in Nat /\ f[n + 1] \in Nat
      BY <1>1, <2>2, <3>1
    <3> HIDE DEF W
    <3> QED BY <3>2, <3>3
  <2> HIDE DEF W
  <2>3. Nat \subseteq Q
    <3> HIDE DEF Q
    <3> QED BY <2>1, <2>2, NumberInduction
  <2> QED BY <1>0, <2>3
<1> QED BY <1>1, <1>2, <1>3, <1>4 DEF WeightTo, f

(* Two sequences that begin alike count alike. *)
LEMMA WeightAlike ==
  ASSUME NEW s \in Seq(Token), NEW t \in Seq(Token), NEW key, NEW n \in Nat,
         n <= Len(s), n <= Len(t), \A i \in 1..n : s[i] = t[i]
  PROVE  WeightTo(s, key, n) = WeightTo(t, key, n)
<1> DEFINE f == [i \in DOMAIN s |-> Ticks(s[i], key)]
           g == [i \in DOMAIN t |-> Ticks(t[i], key)]
<1>1. IsFiniteSet(1..n)
  BY FS_Interval
<1>2. \A i \in 1..n : i \in DOMAIN s /\ i \in DOMAIN t
  OBVIOUS
<1>3. \A i \in 1..n : f[i] = g[i]
  BY <1>2
<1> HIDE DEF f, g
<1>4. SumFunctionOnSet(f, 1..n) = SumFunctionOnSet(g, 1..n)
  BY <1>1, <1>3, SumSame
<1> QED BY <1>4 DEF WeightTo, f, g

(* What sequences count that are built from others *)
LEMMA WeightAppend ==
  ASSUME NEW s \in Seq(Token), NEW t \in Token, NEW key
  PROVE  /\ Weight(<<>>, key) = 0
         /\ Weight(s, key) \in Nat
         /\ Weight(Append(s, t), key) = Weight(s, key) + Ticks(t, key)
<1>1. PICK u : u = Append(s, t)
  OBVIOUS
<1>2. PICK n : n = Len(s)
  OBVIOUS
<1>3. /\ u \in Seq(Token) /\ n \in Nat /\ Len(u) = n + 1 /\ n <= Len(u) /\ n + 1 \in 1..Len(u)
      /\ u[n + 1] = t /\ (n + 1) - 1 = n /\ n \in 0..Len(s)
      /\ \A i \in 1..n : u[i] = s[i]
  BY <1>1, <1>2, AppendProperties
<1>4. WeightTo(u, key, n + 1) = Ticks(t, key) + WeightTo(u, key, n)
  BY <1>3, WeightStep
<1>5. WeightTo(u, key, n) = WeightTo(s, key, n)
  BY <1>2, <1>3, WeightAlike
<1>6. WeightTo(s, key, n) \in Nat /\ Ticks(t, key) \in Nat
  BY <1>3, <1>2, WeightStep, TicksNat
<1>7. Weight(<<>>, key) = 0
  <2>1. <<>> \in Seq(Token) /\ Len(<<>>) = 0
    OBVIOUS
  <2>2. WeightTo(<<>>, key, 0) = 0
    BY <2>1, WeightStep, Zenon
  <2> QED BY <2>1, <2>2 DEF Weight
<1> QED BY <1>1, <1>2, <1>3, <1>4, <1>5, <1>6, <1>7 DEF Weight

(* What is put together counts together. *)
LEMMA WeightConcat ==
  ASSUME NEW s \in Seq(Token), NEW t \in Seq(Token), NEW key
  PROVE  Weight(s \o t, key) = Weight(s, key) + Weight(t, key)
<1> DEFINE n == Len(s)
           u == s \o t
           Q == {m \in Nat : m <= Len(t) =>
                   WeightTo(u, key, n + m) = WeightTo(s, key, n) + WeightTo(t, key, m)}
<1>1. /\ n \in Nat /\ Len(t) \in Nat /\ u \in Seq(Token) /\ Len(u) = n + Len(t)
      /\ \A i \in 1..n : u[i] = s[i]
      /\ \A m \in 1..Len(t) : u[n + m] = t[m]
  <2>1. /\ u \in Seq(Token) /\ Len(u) = Len(s) + Len(t)
        /\ \A i \in 1..(Len(s) + Len(t)) : u[i] = IF i <= Len(s) THEN s[i] ELSE t[i - Len(s)]
    BY ConcatProperties
  <2> HIDE DEF u
  <2>2. n \in Nat /\ Len(t) \in Nat
    OBVIOUS
  <2>3. \A i \in 1..n : u[i] = s[i]
    BY <2>1, <2>2
  <2>4. ASSUME NEW m \in 1..Len(t) PROVE u[n + m] = t[m]
    <3>1. n + m \in 1..(n + Len(t)) /\ ~ (n + m <= n) /\ (n + m) - n = m
      BY <2>2
    <3> QED BY <2>1, <3>1
  <2> QED BY <2>1, <2>2, <2>3, <2>4
<1> HIDE DEF u
<1>2. WeightTo(s, key, n) \in Nat /\ \A m \in 0..Len(t) : WeightTo(t, key, m) \in Nat
  <2>1. n \in 0..Len(s)
    BY <1>1
  <2> QED BY <2>1, WeightStep
<1>3. 0 \in Q
  <2>1. n <= Len(s) /\ n <= Len(u) /\ n + 0 = n
    BY <1>1
  <2>2. WeightTo(s, key, n) = WeightTo(u, key, n)
    BY <1>1, <2>1, WeightAlike
  <2>3. WeightTo(t, key, 0) = 0
    BY WeightStep
  <2> QED BY <1>2, <2>1, <2>2, <2>3
<1>4. ASSUME NEW m \in Nat, m \in Q PROVE m + 1 \in Q
  <2> SUFFICES ASSUME m + 1 <= Len(t)
               PROVE  WeightTo(u, key, n + (m + 1)) = WeightTo(s, key, n) + WeightTo(t, key, m + 1)
    OBVIOUS
  <2>1. /\ m + 1 \in 1..Len(t) /\ n + (m + 1) \in 1..Len(u) /\ (n + (m + 1)) - 1 = n + m
        /\ (m + 1) - 1 = m /\ m \in 0..Len(t) /\ m <= Len(t)
    BY <1>1
  <2>2. WeightTo(u, key, n + (m + 1)) = Ticks(u[n + (m + 1)], key) + WeightTo(u, key, n + m)
    BY <1>1, <2>1, WeightStep
  <2>3. WeightTo(t, key, m + 1) = Ticks(t[m + 1], key) + WeightTo(t, key, m)
    BY <2>1, WeightStep
  <2>4. u[n + (m + 1)] = t[m + 1]
    BY <1>1, <2>1
  <2>5. WeightTo(u, key, n + m) = WeightTo(s, key, n) + WeightTo(t, key, m)
    BY <1>4, <2>1
  <2>6. Ticks(t[m + 1], key) \in Nat
    BY <2>1, TicksNat
  <2>7. WeightTo(s, key, n) \in Nat /\ WeightTo(t, key, m) \in Nat
    BY <1>2, <2>1
  <2> HIDE DEF n
  <2> QED BY <2>2, <2>3, <2>4, <2>5, <2>6, <2>7
<1>5. Nat \subseteq Q
  <2> HIDE DEF Q
  <2> QED BY <1>3, <1>4, NumberInduction
<1>6. WeightTo(u, key, n + Len(t)) = WeightTo(s, key, n) + WeightTo(t, key, Len(t))
  BY <1>1, <1>5
<1> QED BY <1>1, <1>6 DEF Weight, u

-----------------------------------------------------------------------------
(* What a reader has counted in all *)

CostOK(cost) ==
  /\ IsFiniteSet(DOMAIN cost)
  /\ cost = [p \in DOMAIN cost |-> cost[p]]
  /\ \A p \in DOMAIN cost : cost[p] \in [freq : Nat, cnt : Nat]

Total(cost) == SumFunctionOnSet([p \in DOMAIN cost |-> cost[p].freq], DOMAIN cost)

(* The total is a number. *)
LEMMA TotalNat ==
  ASSUME NEW cost, CostOK(cost)
  PROVE  Total(cost) \in Nat
<1> DEFINE S == DOMAIN cost
           f == [p \in S |-> cost[p].freq]
           z == [p \in S |-> 0]
<1>1. IsFiniteSet(S) /\ \A p \in S : cost[p] \in [freq : Nat, cnt : Nat]
  BY DEF CostOK
<1>2. \A p \in S : f[p] \in Nat /\ f[p] \in Int /\ z[p] = 0 /\ z[p] \in Int /\ z[p] <= f[p]
  BY <1>1
<1> HIDE DEF f, z, S
<1>3. SumFunctionOnSet(f, S) \in Int
  BY <1>1, <1>2, SumInt
<1>4. SumFunctionOnSet(z, S) <= SumFunctionOnSet(f, S)
  BY <1>1, <1>2, SumMonotone
<1>5. SumFunctionOnSet(z, S) = 0
  <2>1. {} \in SUBSET S /\ S \ {} = S
    OBVIOUS
  <2>2. \A p \in S \ {} : z[p] = 0
    BY <1>2
  <2>3. \A p \in S : z[p] \in Int
    BY <1>2
  <2>4. SumFunctionOnSet(z, S) = SumFunctionOnSet(z, {})
    BY <1>1, <2>1, <2>2, <2>3, SumZeros
  <2> QED BY <2>4, SumEmpty
<1> QED BY <1>3, <1>4, <1>5 DEF Total, f, S

(* A path that is visited adds nothing. *)
LEMMA VisitTotal ==
  ASSUME NEW cost, CostOK(cost), NEW path, NEW new, new = Visited(cost, path)
  PROVE  CostOK(new) /\ Total(new) = Total(cost)
<1> DEFINE S == DOMAIN cost
           R == S \cup {path}
           f == [p \in S |-> cost[p].freq]
           g == [p \in R |-> new[p].freq]
<1>1. /\ IsFiniteSet(S) /\ \A p \in S : cost[p] \in [freq : Nat, cnt : Nat]
      /\ S \in SUBSET R
  BY DEF CostOK
<1>2. IsFiniteSet(R)
  BY <1>1, FS_AddElement
<1>3. /\ new = [p \in R |-> IF p \in S THEN cost[p] ELSE Nothing] /\ DOMAIN new = R
  BY DEF Visited
<1>4. \A p \in R : new[p] = IF p \in S THEN cost[p] ELSE Nothing
  BY <1>3
<1>5. Nothing \in [freq : Nat, cnt : Nat] /\ Nothing.freq = 0
  BY DEF Nothing
<1>6. \A p \in R : new[p] \in [freq : Nat, cnt : Nat]
  BY <1>1, <1>4, <1>5
<1>7. CostOK(new)
  <2>1. new = [p \in DOMAIN new |-> new[p]]
    BY <1>3
  <2> QED BY <1>2, <1>3, <1>6, <2>1 DEF CostOK
<1>8. \A p \in R : g[p] \in Int
  BY <1>6
<1>9. \A p \in R \ S : g[p] = 0
  BY <1>4, <1>5
<1>10. \A p \in S : g[p] = f[p]
  BY <1>1, <1>4
<1>11. Total(new) = SumFunctionOnSet(g, R) /\ Total(cost) = SumFunctionOnSet(f, S)
  BY <1>3 DEF Total
<1> HIDE DEF f, g, R, S
<1>12. SumFunctionOnSet(g, R) = SumFunctionOnSet(g, S)
  BY <1>1, <1>2, <1>8, <1>9, SumZeros
<1>13. SumFunctionOnSet(g, S) = SumFunctionOnSet(f, S)
  BY <1>1, <1>10, SumSame
<1> QED BY <1>7, <1>11, <1>12, <1>13

(* A counter adds its ticks, or nothing where there is no such path. *)
LEMMA ChargeTotal ==
  ASSUME NEW cost, CostOK(cost), NEW path, NEW ct, ct.ticks \in Nat, ct.value \in Nat,
         NEW new, new = Charged(cost, path, ct)
  PROVE  CostOK(new) /\ Total(new) <= Total(cost) + ct.ticks
<1> DEFINE S == DOMAIN cost
           f == [p \in S |-> cost[p].freq]
           g == [p \in S |-> new[p].freq]
<1>1. /\ IsFiniteSet(S) /\ \A p \in S : cost[p] \in [freq : Nat, cnt : Nat]
      /\ cost = [p \in S |-> cost[p]]
  BY DEF CostOK
<1>2. PICK a, b : a = ct.ticks /\ b = ct.value
  OBVIOUS
<1>3. a \in Nat /\ b \in Nat
  BY <1>2
<1>4. PICK mid : mid = [cost EXCEPT ![path].freq = @ + a]
  OBVIOUS
<1>5. new = [mid EXCEPT ![path].cnt = @ + b]
  BY <1>2, <1>4 DEF Charged
<1>6. /\ DOMAIN mid = S
      /\ \A p \in S : mid[p] = IF p = path THEN [cost[p] EXCEPT !.freq = @ + a] ELSE cost[p]
  BY <1>1, <1>4
<1>7. \A p \in S : /\ mid[p] \in [freq : Nat, cnt : Nat]
                   /\ mid[p].freq = IF p = path THEN cost[p].freq + a ELSE cost[p].freq
  <2> SUFFICES ASSUME NEW p \in S
               PROVE /\ mid[p] \in [freq : Nat, cnt : Nat]
                     /\ mid[p].freq = IF p = path THEN cost[p].freq + a ELSE cost[p].freq
    OBVIOUS
  <2>1. PICK e : e = cost[p]
    OBVIOUS
  <2>2. e \in [freq : Nat, cnt : Nat]
    BY <1>1, <2>1
  <2>3. PICK h : h = [e EXCEPT !.freq = @ + a]
    OBVIOUS
  <2>4. h \in [freq : Nat, cnt : Nat] /\ h.freq = e.freq + a
    BY <1>3, <2>2, <2>3
  <2>5. mid[p] = IF p = path THEN h ELSE e
    BY <1>6, <2>1, <2>3
  <2> QED BY <2>1, <2>2, <2>4, <2>5
<1>8. /\ DOMAIN new = S /\ new = [p \in S |-> new[p]]
      /\ \A p \in S : new[p] = IF p = path THEN [mid[p] EXCEPT !.cnt = @ + b] ELSE mid[p]
  BY <1>4, <1>5, <1>6
<1>9. \A p \in S : /\ new[p] \in [freq : Nat, cnt : Nat]
                   /\ new[p].freq = mid[p].freq
  <2> SUFFICES ASSUME NEW p \in S
               PROVE new[p] \in [freq : Nat, cnt : Nat] /\ new[p].freq = mid[p].freq
    OBVIOUS
  <2>1. PICK e : e = mid[p]
    OBVIOUS
  <2>2. e \in [freq : Nat, cnt : Nat]
    BY <1>7, <2>1
  <2>3. PICK h : h = [e EXCEPT !.cnt = @ + b]
    OBVIOUS
  <2>4. h \in [freq : Nat, cnt : Nat] /\ h.freq = e.freq
    BY <1>3, <2>2, <2>3
  <2>5. new[p] = IF p = path THEN h ELSE e
    BY <1>8, <2>1, <2>3
  <2> QED BY <2>1, <2>2, <2>4, <2>5
<1>10. CostOK(new)
  BY <1>1, <1>8, <1>9 DEF CostOK
<1>11. \A p \in S : /\ f[p] \in Int /\ g[p] \in Int
                    /\ g[p] = IF p = path THEN f[p] + a ELSE f[p]
  BY <1>1, <1>3, <1>7, <1>9
<1>12. Total(new) = SumFunctionOnSet(g, S) /\ Total(cost) = SumFunctionOnSet(f, S)
  BY <1>8 DEF Total
<1> HIDE DEF f, g, S
<1>13. CASE path \in S
  <2>1. /\ \A p \in S : f[p] \in Int
        /\ g[path] = f[path] + a
        /\ \A p \in S \ {path} : g[p] = f[p]
        /\ a \in Int
    BY <1>3, <1>11, <1>13
  <2>2. SumFunctionOnSet(g, S) = SumFunctionOnSet(f, S) + a
    BY <1>1, <1>13, <2>1, SumChange
  <2>3. Total(new) \in Nat /\ Total(cost) \in Nat
    BY <1>10, TotalNat
  <2> QED BY <1>2, <1>3, <1>10, <1>12, <2>2, <2>3
<1>14. CASE path \notin S
  <2>1. \A p \in S : g[p] = f[p]
    BY <1>11, <1>14
  <2>2. SumFunctionOnSet(g, S) = SumFunctionOnSet(f, S)
    BY <1>1, <2>1, SumSame
  <2>3. Total(new) \in Nat /\ Total(cost) \in Nat
    BY <1>10, TotalNat
  <2> QED BY <1>2, <1>3, <1>10, <1>12, <2>2, <2>3
<1> QED BY <1>13, <1>14

-----------------------------------------------------------------------------
(* What any token does to a reader that goes on reading *)

(* All but the counts is as it was, or may differ where it does not count. *)
Alike(r, q) ==
  /\ IsReader(q) /\ q.cost = r.cost /\ q.key = r.key /\ q.keys = r.keys

(* A reader that stops does not go on. *)
LEMMA StoppedIs ==
  ASSUME NEW r, IsReader(r), NEW how
  PROVE  Stopped(r, how).status = how
<1>1. PICK key, known, cost, st, ns, sy, fi, nf, ke, ex :
        /\ key = r.key /\ known = r.known /\ cost = r.cost /\ st = "reading" /\ ns = r.nodestack
        /\ sy = r.symbols /\ fi = r.files /\ nf = r.namedFiles /\ ke = r.keys /\ ex = r.expects
  OBVIOUS
<1>2. r = ReaderOf(key, known, cost, st, ns, sy, fi, nf, ke, ex)
  BY <1>1, IsReaderOf
<1>3. PICK q : q = [r EXCEPT !.status = how]
  OBVIOUS
<1>4. q = ReaderOf(key, known, cost, how, ns, sy, fi, nf, ke, ex)
  BY <1>2, <1>3 DEF ReaderOf
<1>5. q.status = how
  BY <1>4 DEF ReaderOf
<1> QED BY <1>3, <1>5 DEF Stopped

(* The tables of symbols and of files, and what is expected, do not count. *)
LEMMA TablesAside ==
  ASSUME NEW r, IsReader(r), NEW v
  PROVE  /\ Alike(r, [r EXCEPT !.symbols = v])
         /\ Alike(r, [r EXCEPT !.known = v])
         /\ Alike(r, [r EXCEPT !.files = v])
         /\ Alike(r, [r EXCEPT !.namedFiles = v])
         /\ Alike(r, [r EXCEPT !.expects = v])
<1>1. PICK key, known, cost, st, ns, sy, fi, nf, ke, ex :
        /\ key = r.key /\ known = r.known /\ cost = r.cost /\ st = "reading" /\ ns = r.nodestack
        /\ sy = r.symbols /\ fi = r.files /\ nf = r.namedFiles /\ ke = r.keys /\ ex = r.expects
  OBVIOUS
<1>2. r = ReaderOf(key, known, cost, st, ns, sy, fi, nf, ke, ex)
  BY <1>1, IsReaderOf
<1>3. PICK a, b, c, d, e :
        /\ a = [r EXCEPT !.symbols = v] /\ b = [r EXCEPT !.known = v] /\ c = [r EXCEPT !.files = v]
        /\ d = [r EXCEPT !.namedFiles = v] /\ e = [r EXCEPT !.expects = v]
  OBVIOUS
<1>4. a = ReaderOf(key, known, cost, st, ns, v, fi, nf, ke, ex)
  BY <1>2, <1>3 DEF ReaderOf
<1>5. b = ReaderOf(key, v, cost, st, ns, sy, fi, nf, ke, ex)
  BY <1>2, <1>3 DEF ReaderOf
<1>6. c = ReaderOf(key, known, cost, st, ns, sy, v, nf, ke, ex)
  BY <1>2, <1>3 DEF ReaderOf
<1>7. d = ReaderOf(key, known, cost, st, ns, sy, fi, v, ke, ex)
  BY <1>2, <1>3 DEF ReaderOf
<1>8. e = ReaderOf(key, known, cost, st, ns, sy, fi, nf, ke, v)
  BY <1>2, <1>3 DEF ReaderOf
<1>9. Alike(r, a)
  <2>1. IsReader(a) /\ a.cost = cost /\ a.key = key /\ a.keys = ke
    BY <1>1, <1>4, ReaderIs
  <2> QED BY <1>1, <2>1 DEF Alike
<1>10. Alike(r, b)
  <2>1. IsReader(b) /\ b.cost = cost /\ b.key = key /\ b.keys = ke
    BY <1>1, <1>5, ReaderIs
  <2> QED BY <1>1, <2>1 DEF Alike
<1>11. Alike(r, c)
  <2>1. IsReader(c) /\ c.cost = cost /\ c.key = key /\ c.keys = ke
    BY <1>1, <1>6, ReaderIs
  <2> QED BY <1>1, <2>1 DEF Alike
<1>12. Alike(r, d)
  <2>1. IsReader(d) /\ d.cost = cost /\ d.key = key /\ d.keys = ke
    BY <1>1, <1>7, ReaderIs
  <2> QED BY <1>1, <2>1 DEF Alike
<1>13. Alike(r, e)
  <2>1. IsReader(e) /\ e.cost = cost /\ e.key = key /\ e.keys = ke
    BY <1>1, <1>8, ReaderIs
  <2> QED BY <1>1, <2>1 DEF Alike
<1> QED BY <1>3, <1>9, <1>10, <1>11, <1>12, <1>13, Zenon

(* What is alike to what is alike is alike. *)
LEMMA AlikeTwice ==
  ASSUME NEW r, NEW q, NEW u, Alike(r, q), Alike(q, u)
  PROVE  Alike(r, u)
BY DEF Alike

(* A file is entered without a count. *)
LEMMA FileAside ==
  ASSUME NEW r, IsReader(r), NEW f, NEW q, q = createFileInfo(r, f), q.status = "reading"
  PROVE  Alike(r, q)
<1>1. PICK path : path = RealPath[f.name]
  OBVIOUS
<1>2. Alike(r, r)
  BY DEF Alike
<1>3. CASE Lookup(r.files, f.id) = "missing"
  <2>1. q = Stopped(r, "died")
    BY <1>3 DEF createFileInfo
  <2>2. q.status = "died"
    BY <2>1, StoppedIs
  <2> QED BY <2>2
<1>4. CASE Lookup(r.files, f.id) # "missing" /\ path \in r.namedFiles
  <2>1. q = r
    BY <1>1, <1>4 DEF createFileInfo
  <2> QED BY <1>2, <2>1
<1>5. CASE Lookup(r.files, f.id) # "missing" /\ path \notin r.namedFiles
  <2>1. PICK v, w : v = r.namedFiles \cup {path} /\ w = Set(r.files, f.id, path, Missing)
    OBVIOUS
  <2>2. q = [r EXCEPT !.namedFiles = @ \cup {path}, !.files = Set(@, f.id, path, Missing)]
    BY <1>1, <1>5 DEF createFileInfo
  <2>3. PICK m : m = [r EXCEPT !.namedFiles = v]
    OBVIOUS
  <2>4. q = [m EXCEPT !.files = w]
    <3>1. IsReader(r)
      OBVIOUS
    <3>2. m.files = r.files
      BY <2>3, <3>1 DEF IsReader
    <3>3. q = [m EXCEPT !.files = Set(m.files, f.id, path, Missing)]
      BY <2>1, <2>2, <2>3, Zenon
    <3> QED BY <2>1, <3>2, <3>3, Zenon
  <2>5. Alike(r, m)
    BY <2>3, TablesAside
  <2>6. Alike(m, q)
    <3>1. IsReader(m)
      BY <2>5 DEF Alike
    <3>2. Alike(m, [m EXCEPT !.files = w])
      BY <3>1, TablesAside, Zenon
    <3> QED BY <2>4, <3>2, Zenon
  <2> QED BY <2>5, <2>6, AlikeTwice
<1> QED BY <1>3, <1>4, <1>5

(* So is a symbol. *)
LEMMA SymbolAside ==
  ASSUME NEW r, IsReader(r), NEW name, NEW id, NEW q, q = createSymbolInfo(r, name, id),
         q.status = "reading"
  PROVE  Alike(r, q)
<1>1. CASE name \notin r.known /\ id < Len(r.symbols)
  <2>1. q = Stopped(r, "aborted")
    BY <1>1 DEF createSymbolInfo
  <2>2. q.status = "aborted"
    BY <2>1, StoppedIs
  <2> QED BY <2>2
<1>2. CASE ~ (name \notin r.known /\ id < Len(r.symbols))
  <2>1. PICK v, w : v = Set(r.symbols, id, name, Missing) /\ w = r.known \cup {name}
    OBVIOUS
  <2>2. q = [r EXCEPT !.symbols = Set(@, id, name, Missing), !.known = @ \cup {name}]
    BY <1>2 DEF createSymbolInfo
  <2>3. PICK m : m = [r EXCEPT !.symbols = v]
    OBVIOUS
  <2>4. q = [m EXCEPT !.known = w]
    <3>1. IsReader(r)
      OBVIOUS
    <3>2. m.known = r.known
      BY <2>3, <3>1 DEF IsReader
    <3>3. q = [m EXCEPT !.known = m.known \cup {name}]
      BY <2>1, <2>2, <2>3, Zenon
    <3> QED BY <2>1, <3>2, <3>3, Zenon
  <2>5. Alike(r, m)
    BY <2>3, TablesAside
  <2>6. Alike(m, q)
    <3>1. IsReader(m)
      BY <2>5 DEF Alike
    <3>2. Alike(m, [m EXCEPT !.known = w])
      BY <3>1, TablesAside, Zenon
    <3> QED BY <2>4, <3>2, Zenon
  <2> QED BY <2>5, <2>6, AlikeTwice
<1> QED BY <1>1, <1>2

(* What a table says of a number *)
LEMMA LookupSays ==
  ASSUME NEW table, NEW id
  PROVE  Lookup(table, id) \in {"aborted", "undefined", "missing", "found"}
BY DEF Lookup

(* A symbol is defined, or referred to, without a count. *)
LEMMA NamedAside ==
  ASSUME NEW r, IsReader(r), NEW t, NEW q, q = Define(r, t) \/ q = Refer(r, t),
         q.status = "reading"
  PROVE  Alike(r, q)
<1>1. Alike(r, r)
  BY DEF Alike
<1>2. CASE q = Refer(r, t)
  <2>1. PICK found : found = Lookup(r.symbols, t.fn)
    OBVIOUS
  <2>2. q = CASE found = "found" -> r
              [] found = "missing" -> Stopped(r, "died")
              [] OTHER -> Stopped(r, found)
    BY <1>2, <2>1 DEF Refer
  <2>3. found \in {"aborted", "undefined", "missing", "found"}
    BY <2>1, LookupSays
  <2>4. CASE found = "found"
    BY <1>1, <2>2, <2>4
  <2>5. CASE found # "found"
    <3>1. PICK how : q = Stopped(r, how) /\ how # "reading"
      BY <2>2, <2>3, <2>5
    <3>2. q.status = how
      BY <3>1, StoppedIs
    <3> QED BY <3>1, <3>2
  <2> QED BY <2>4, <2>5
<1>3. CASE q = Define(r, t)
  <2>1. PICK filed, found, path :
          /\ filed = IF t.file.defines THEN createFileInfo(r, t.file) ELSE r
          /\ found = IF t.file.defines THEN "found" ELSE Lookup(r.files, t.file.id)
          /\ path = IF t.file.defines THEN RealPath[t.file.name] ELSE r.files[t.file.id + 1]
    OBVIOUS
  <2>2. q = IF filed.status # "reading" THEN filed
            ELSE CASE found = "found" -> createSymbolInfo(filed, symlookup(path, t), t.fn)
                   [] found = "missing" -> Stopped(r, "aborted")
                   [] OTHER -> Stopped(r, found)
    BY <1>3, <2>1 DEF Define
  <2>3. found \in {"aborted", "undefined", "missing", "found"}
    BY <2>1, LookupSays
  <2>4. filed.status = "reading"
    BY <2>2
  <2>5. Alike(r, filed)
    BY <1>1, <2>1, <2>4, FileAside
  <2>6. CASE found = "found"
    <3>1. q = createSymbolInfo(filed, symlookup(path, t), t.fn)
      BY <2>2, <2>4, <2>6
    <3>2. IsReader(filed)
      BY <2>5 DEF Alike
    <3>3. PICK nm, id : nm = symlookup(path, t) /\ id = t.fn
      OBVIOUS
    <3>4. Alike(filed, q)
      BY <3>1, <3>2, <3>3, SymbolAside
    <3> QED BY <2>5, <3>4, AlikeTwice
  <2>7. CASE found # "found"
    <3>1. PICK how : q = Stopped(r, how) /\ how # "reading"
      BY <2>2, <2>3, <2>4, <2>7
    <3>2. q.status = how
      BY <3>1, StoppedIs
    <3> QED BY <3>1, <3>2
  <2> QED BY <2>6, <2>7
<1> QED BY <1>2, <1>3

(* A reader at another path *)
AtPath(r, q, path) ==
  /\ IsReader(q) /\ q.cost = Visited(r.cost, path) /\ q.key = r.key /\ q.keys = r.keys

(* The line of a frame leads to a path, and counts nothing. *)
LEMMA FrameAside ==
  ASSUME NEW r, IsReader(r), NEW t, NEW q, q = ReadFrame(r, t), q.status = "reading"
  PROVE  \E path : AtPath(r, q, path)
<1>1. PICK named : named = IF t.defines THEN Define(r, t) ELSE Refer(r, t)
  OBVIOUS
<1>2. PICK path : path = Append(SubSeq(r.nodestack, 1, t.depth - 1), named.symbols[t.fn + 1])
  OBVIOUS
<1>3. q = IF t.depth - 1 > Len(r.nodestack) THEN Stopped(r, "died")
          ELSE IF named.status # "reading" THEN named ELSE Moved(named, path)
  BY <1>1, <1>2 DEF ReadFrame, Moved
<1>4. ~ (t.depth - 1 > Len(r.nodestack))
  <2> SUFFICES ASSUME t.depth - 1 > Len(r.nodestack) PROVE FALSE
    OBVIOUS
  <2>1. q = Stopped(r, "died")
    BY <1>3
  <2>2. q.status = "died"
    BY <2>1, StoppedIs
  <2> QED BY <2>2
<1>5. named.status = "reading" /\ q = Moved(named, path)
  BY <1>3, <1>4
<1>6. Alike(r, named)
  BY <1>1, <1>5, NamedAside
<1>7. /\ IsReader(named) /\ named.cost = r.cost /\ named.key = r.key /\ named.keys = r.keys
  BY <1>6 DEF Alike
<1>8. /\ IsReader(q) /\ q.cost = Visited(named.cost, path) /\ q.key = named.key
      /\ q.keys = named.keys
  BY <1>5, <1>7, MovedIs
<1> QED BY <1>7, <1>8 DEF AtPath

(* A counter that is read, and charged if its number is that of the key. *)
CounterTaken(r, q, t) ==
  /\ IsReader(q) /\ q.key = KeyRead(r, t) /\ q.keys = KeysRead(r, t)
  /\ ~ (t.id >= Len(q.keys))
  /\ q.cost = IF q.keys[t.id + 1] THEN Charged(r.cost, r.nodestack, t) ELSE r.cost

(* So a counter is read by a reader that goes on. *)
LEMMA CounterAside ==
  ASSUME NEW r, IsReader(r), NEW t, NEW q, q = ReadCounter(r, t), q.status = "reading"
  PROVE  CounterTaken(r, q, t)
<1>1. PICK key, keys : key = KeyRead(r, t) /\ keys = KeysRead(r, t)
  OBVIOUS
<1>2. ReadCounter(r, t) = ReadWith(r, t, KeyRead(r, t), KeysRead(r, t))
  BY Zenon DEF ReadCounter, ReadWith, KeyRead, KeysRead
<1>3. q = ReadWith(r, t, key, keys)
  BY <1>1, <1>2, Zenon
<1>4. PICK p, tt, vv, id : p = r.nodestack /\ tt = t.ticks /\ vv = t.value /\ id = t.id
  OBVIOUS
<1>5. PICK read : read = [r EXCEPT !.key = key, !.keys = keys]
  OBVIOUS
<1>6. q = IF id >= Len(keys) THEN Stopped(r, "undefined")
          ELSE IF ~ keys[id + 1] THEN read
          ELSE [read EXCEPT !.cost[p].freq = @ + tt, !.cost[p].cnt = @ + vv]
  BY <1>3, <1>4, <1>5, Zenon DEF ReadWith
<1>7. ~ (id >= Len(keys))
  <2> SUFFICES ASSUME id >= Len(keys) PROVE FALSE
    OBVIOUS
  <2>1. q = Stopped(r, "undefined")
    BY <1>6
  <2>2. q.status = "undefined"
    BY <2>1, StoppedIs
  <2> QED BY <2>2
<1>8. PICK cost : cost = Charged(r.cost, p, t)
  OBVIOUS
<1>9. PICK c : c = [read EXCEPT !.cost = cost]
  OBVIOUS
<1>10. /\ IsReader(read) /\ read.key = key /\ read.keys = keys /\ read.cost = r.cost
       /\ IsReader(c) /\ c.key = key /\ c.keys = keys /\ c.cost = cost
  <2>1. PICK kk, known, ct0, st, ns, sy, fi, nf, ke, ex :
          /\ kk = r.key /\ known = r.known /\ ct0 = r.cost /\ st = "reading" /\ ns = r.nodestack
          /\ sy = r.symbols /\ fi = r.files /\ nf = r.namedFiles /\ ke = r.keys /\ ex = r.expects
    OBVIOUS
  <2>2. r = ReaderOf(kk, known, ct0, st, ns, sy, fi, nf, ke, ex)
    BY <2>1, IsReaderOf
  <2>3. PICK q1 : q1 = [r EXCEPT !.key = key]
    OBVIOUS
  <2>4. q1 = ReaderOf(key, known, ct0, st, ns, sy, fi, nf, ke, ex)
    BY <2>2, <2>3 DEF ReaderOf
  <2>5. PICK q2 : q2 = [q1 EXCEPT !.keys = keys]
    OBVIOUS
  <2>6. q2 = ReaderOf(key, known, ct0, st, ns, sy, fi, nf, keys, ex)
    BY <2>4, <2>5 DEF ReaderOf
  <2>7. read = q2
    BY <1>5, <2>3, <2>5, Zenon
  <2>8. read = ReaderOf(key, known, ct0, st, ns, sy, fi, nf, keys, ex)
    BY <2>6, <2>7, Zenon
  <2>9. c = ReaderOf(key, known, cost, st, ns, sy, fi, nf, keys, ex)
    BY <1>9, <2>8 DEF ReaderOf
  <2>10. IsReader(read) /\ read.key = key /\ read.keys = keys /\ read.cost = ct0
    BY <2>1, <2>8, ReaderIs
  <2>11. IsReader(c) /\ c.key = key /\ c.keys = keys /\ c.cost = cost
    BY <2>1, <2>9, ReaderIs
  <2> QED BY <2>1, <2>10, <2>11, Zenon
<1>11. CASE ~ keys[id + 1]
  <2>1. q = read
    BY <1>6, <1>7, <1>11, Zenon
  <2> QED BY <1>1, <1>4, <1>7, <1>10, <1>11, <2>1, Zenon DEF CounterTaken
<1>12. CASE keys[id + 1]
  <2>1. q = [read EXCEPT !.cost[p].freq = @ + tt, !.cost[p].cnt = @ + vv]
    BY <1>6, <1>7, <1>12, Zenon
  <2>2. [read EXCEPT !.cost[p].freq = @ + tt, !.cost[p].cnt = @ + vv] =
          [read EXCEPT !.cost = [read.cost EXCEPT ![p].freq = @ + tt, ![p].cnt = @ + vv]]
    <3>1. IsReader(read)
      BY <1>10
    <3> QED BY <3>1 DEF IsReader
  <2>3. cost = [read.cost EXCEPT ![p].freq = @ + tt, ![p].cnt = @ + vv]
    BY <1>4, <1>8, <1>10, Zenon DEF Charged
  <2>4. q = c
    BY <1>9, <2>1, <2>2, <2>3, Zenon
  <2> QED BY <1>1, <1>4, <1>7, <1>8, <1>10, <1>12, <2>4, Zenon DEF CounterTaken
<1> QED BY <1>11, <1>12

(* A token leaves the counts alone, leads to a path, or is a counter. *)
LEMMA TokenTaken ==
  ASSUME NEW r, IsReader(r), NEW t, NEW q, q = ReadToken(r, t), q.status = "reading"
  PROVE  \/ Alike(r, q)
         \/ \E path : AtPath(r, q, path)
         \/ t.k = "V" /\ CounterTaken(r, q, t)
<1>1. r.status = "reading"
  <2>1. IsReader(r)
    OBVIOUS
  <2> QED BY <2>1 DEF IsReader
<1>2. PICK at, k : at = r.expects /\ k = t.k
  OBVIOUS
<1>3. q = CASE at = "P" /\ k = "P" -> [r EXCEPT !.expects = "line"]
            [] at = "line" /\ k = "C" -> ReadFrame(r, t)
            [] at = "counter" /\ k = "V" -> ReadCounter(r, t)
            [] at = "counter" /\ k = "EOL" -> [r EXCEPT !.expects = "line"]
            [] OTHER -> Stopped(r, "died")
  BY <1>1, <1>2, Zenon DEF ReadToken
<1>4. PICK line : line = "line"
  OBVIOUS
<1>5. PICK e, f, c, d : /\ e = [r EXCEPT !.expects = line] /\ f = ReadFrame(r, t)
                        /\ c = ReadCounter(r, t) /\ d = Stopped(r, "died")
  OBVIOUS
<1>6. q = e \/ q = f \/ (q = c /\ k = "V") \/ q = d
  <2>1. q = CASE at = "P" /\ k = "P" -> e
              [] at = "line" /\ k = "C" -> f
              [] at = "counter" /\ k = "V" -> c
              [] at = "counter" /\ k = "EOL" -> e
              [] OTHER -> d
    BY <1>3, <1>4, <1>5, Zenon
  <2> QED BY <2>1
<1>7. q = e => Alike(r, q)
  <2>1. Alike(r, e)
    BY <1>5, TablesAside
  <2> QED BY <2>1
<1>8. q = f => \E path : AtPath(r, q, path)
  BY <1>5, FrameAside
<1>9. q = c => CounterTaken(r, q, t)
  BY <1>5, CounterAside
<1>10. q # d
  <2>1. d.status = "died"
    BY <1>5, StoppedIs
  <2> QED BY <2>1
<1> QED BY <1>2, <1>6, <1>7, <1>8, <1>9, <1>10, Zenon

-----------------------------------------------------------------------------
(* Any file of tokens that come from a dump *)

(* A number stands for one name. *)
Coherent(s) ==
  \A i, j \in DOMAIN s :
    s[i].k = "V" /\ s[j].k = "V" /\ s[i].id = s[j].id => s[i].name = s[j].name

(* An entry of a table is set, and the table grows if it must. *)
CanSet(S, table, id, v, none) == table \in Seq(S) /\ id \in Nat /\ v \in S /\ none \in S

IsSet(S, new, table, id, v, none) ==
  /\ new \in Seq(S)
  /\ \A n \in 1..Len(new) :
       new[n] = IF n = id + 1 THEN v ELSE IF n <= Len(table) THEN table[n] ELSE none

(* The table after an entry has been set *)
LEMMA SetGrows ==
  ASSUME NEW S, NEW table, NEW id, NEW v, NEW none, CanSet(S, table, id, v, none)
  PROVE  IsSet(S, Set(table, id, v, none), table, id, v, none)
<1>0. PICK new : new = Set(table, id, v, none)
  OBVIOUS
<1>a. table \in Seq(S) /\ id \in Nat /\ v \in S /\ none \in S
  BY DEF CanSet
<1>1. PICK m : m = IF id + 1 > Len(table) THEN id + 1 ELSE Len(table)
  OBVIOUS
<1>2. m \in Nat /\ Len(table) \in Nat
  BY <1>1, <1>a
<1>3. new = [n \in 1..m |-> IF n = id + 1 THEN v
                            ELSE IF n <= Len(table) THEN table[n] ELSE none]
  BY <1>0, <1>1 DEF Set
<1>4. \A n \in 1..m : new[n] = IF n = id + 1 THEN v
                               ELSE IF n <= Len(table) THEN table[n] ELSE none
  BY <1>3
<1>5. \A n \in 1..m : new[n] \in S
  <2> SUFFICES ASSUME NEW n \in 1..m PROVE new[n] \in S
    OBVIOUS
  <2>1. n <= Len(table) => table[n] \in S
    BY <1>2, <1>a
  <2> QED BY <1>4, <1>a, <2>1
<1>6. new \in [1..m -> S]
  BY <1>3, <1>5
<1>7. new \in Seq(S)
  BY <1>2, <1>6, SeqDef
<1>8. Len(new) = m
  BY <1>2, <1>6, <1>7
<1> QED BY <1>0, <1>4, <1>7, <1>8 DEF IsSet

(* What the first k tokens of s have made of a reader *)
KeysSay(r, s, k) ==
  /\ r.keys \in Seq(BOOLEAN)
  /\ \A n \in 1..Len(r.keys) :
       r.keys[n] => r.key # "" /\ \E m \in 1..k : s[m].k = "V" /\ s[m].id = n - 1 /\ s[m].name = r.key

Gained(r, s, k) == IF r.key = "" THEN 0 ELSE WeightTo(s, r.key, k)

ReadTo(r, base, s, k) ==
  /\ IsReader(r) /\ CostOK(r.cost) /\ KeysSay(r, s, k)
  /\ base.key # "" => r.key = base.key
  /\ Total(r.cost) <= Total(base.cost) + Gained(r, s, k)

(* What a reader gains only grows. *)
LEMMA GainedMore ==
  ASSUME NEW s \in Seq(Token), NEW k \in 1..Len(s), NEW r
  PROVE  /\ Gained(r, s, k) \in Nat /\ Gained(r, s, k - 1) \in Nat
         /\ Gained(r, s, k - 1) <= Gained(r, s, k)
         /\ r.key # "" => Gained(r, s, k) = Ticks(s[k], r.key) + Gained(r, s, k - 1)
<1>1. Len(s) \in Nat /\ k \in 0..Len(s) /\ k - 1 \in 0..Len(s) /\ s[k] \in Token
  OBVIOUS
<1>2. PICK key : key = r.key
  OBVIOUS
<1>3. WeightTo(s, key, k) \in Nat /\ WeightTo(s, key, k - 1) \in Nat
  BY <1>1, WeightStep
<1>4. WeightTo(s, key, k) = Ticks(s[k], key) + WeightTo(s, key, k - 1)
  BY WeightStep
<1>5. Ticks(s[k], key) \in Nat
  BY <1>1, TicksNat
<1>6. PICK a, b, x : a = WeightTo(s, key, k) /\ b = WeightTo(s, key, k - 1) /\ x = Ticks(s[k], key)
  OBVIOUS
<1>7. /\ Gained(r, s, k) = IF key = "" THEN 0 ELSE a
      /\ Gained(r, s, k - 1) = IF key = "" THEN 0 ELSE b
  BY <1>2, <1>6, Zenon DEF Gained
<1>8. a \in Nat /\ b \in Nat /\ x \in Nat /\ a = x + b
  BY <1>3, <1>4, <1>5, <1>6
<1>9. PICK g, h : g = Gained(r, s, k) /\ h = Gained(r, s, k - 1)
  OBVIOUS
<1>10. g \in Nat /\ h \in Nat /\ h <= g /\ (key # "" => g = x + h)
  <2>1. g = (IF key = "" THEN 0 ELSE a) /\ h = (IF key = "" THEN 0 ELSE b)
    BY <1>7, <1>9, Zenon
  <2>2. CASE key = ""
    <3>1. g = 0 /\ h = 0
      BY <2>1, <2>2, Zenon
    <3>2. g \in Nat /\ h \in Nat /\ h <= g
      BY <3>1
    <3> QED BY <2>2, <3>2, Zenon
  <2>3. CASE key # ""
    <3>1. g = a /\ h = b
      BY <2>1, <2>3
    <3> QED BY <1>8, <3>1
  <2> QED BY <2>2, <2>3
<1> QED BY <1>2, <1>6, <1>9, <1>10, Zenon

(* The table of keys after a counter *)
CounterNow(r, q, s, k, t) ==
  /\ KeysSay(r, s, k - 1) /\ t = s[k] /\ t.k = "V"
  /\ q.key = KeyRead(r, t) /\ q.keys = KeysRead(r, t)

(* What the table of keys says after a counter is still borne out by the counters read. *)
LEMMA KeysAfter ==
  ASSUME NEW s \in Seq(Token), NEW k \in 1..Len(s), NEW r, NEW t, NEW q, CounterNow(r, q, s, k, t)
  PROVE  /\ KeysSay(q, s, k)
         /\ r.key # "" => q.key = r.key
<1>a. /\ KeysSay(r, s, k - 1) /\ t = s[k] /\ t.k = "V"
      /\ q.key = KeyRead(r, t) /\ q.keys = KeysRead(r, t)
  BY DEF CounterNow
<1>1. Len(s) \in Nat /\ t \in Token
  BY <1>a
<1>2. t.id \in Nat /\ t.name \in CounterDefs /\ t.defines \in BOOLEAN /\ t.name # ""
  BY <1>1, <1>a, TicksNat, DefsAssumption
<1>3. r.key # "" => q.key = r.key
  BY <1>a DEF KeyRead
<1>4. /\ r.keys \in Seq(BOOLEAN)
      /\ \A n \in 1..Len(r.keys) :
           r.keys[n] => /\ r.key # ""
                        /\ \E m \in 1..(k - 1) :
                             s[m].k = "V" /\ s[m].id = n - 1 /\ s[m].name = r.key
  BY <1>a DEF KeysSay
<1>5. \A n \in 1..Len(r.keys) :
        r.keys[n] => q.key # "" /\ \E m \in 1..k : s[m].k = "V" /\ s[m].id = n - 1 /\ s[m].name = q.key
  <2> SUFFICES ASSUME NEW n \in 1..Len(r.keys), r.keys[n]
               PROVE q.key # "" /\ \E m \in 1..k : s[m].k = "V" /\ s[m].id = n - 1 /\ s[m].name = q.key
    OBVIOUS
  <2>1. PICK m \in 1..(k - 1) : s[m].k = "V" /\ s[m].id = n - 1 /\ s[m].name = r.key
    BY <1>4
  <2>2. r.key # ""
    BY <1>4
  <2>3. m \in 1..k
    BY <1>1
  <2> QED BY <1>3, <2>1, <2>2, <2>3
<1>6. CASE ~ t.defines
  <2>1. q.keys = r.keys
    BY <1>6, <1>a DEF KeysRead
  <2> QED BY <1>3, <1>4, <1>5, <2>1 DEF KeysSay
<1>7. CASE t.defines
  <2>1. q.keys = Set(r.keys, t.id, t.name = q.key, FALSE)
    BY <1>7, <1>a, Zenon DEF KeysRead
  <2>2. PICK B, v, no, keys, id :
          B = BOOLEAN /\ v = (t.name = q.key) /\ no = FALSE /\ keys = r.keys /\ id = t.id
    OBVIOUS
  <2>3. v \in B /\ no \in B /\ keys \in Seq(B) /\ id \in Nat
    <3>1. (t.name = q.key) \in BOOLEAN /\ FALSE \in BOOLEAN
      OBVIOUS
    <3> QED BY <1>2, <1>4, <2>2, <3>1, Zenon
  <2>4. q.keys = Set(keys, id, v, no)
    BY <2>1, <2>2, Zenon
  <2>5. /\ q.keys \in Seq(B)
        /\ \A n \in 1..Len(q.keys) : q.keys[n] = IF n = id + 1 THEN v
                                                 ELSE IF n <= Len(keys) THEN keys[n] ELSE no
    <3>1. PICK new : new = Set(keys, id, v, no)
      OBVIOUS
    <3>2. /\ new \in Seq(B)
          /\ \A n \in 1..Len(new) : new[n] = IF n = id + 1 THEN v
                                             ELSE IF n <= Len(keys) THEN keys[n] ELSE no
      <4>1. CanSet(B, keys, id, v, no)
        BY <2>3, Zenon DEF CanSet
      <4>2. IsSet(B, Set(keys, id, v, no), keys, id, v, no)
        BY <4>1, SetGrows
      <4> QED BY <3>1, <4>2, Zenon DEF IsSet
    <3> QED BY <2>4, <3>1, <3>2, Zenon
  <2>6. ASSUME NEW n \in 1..Len(q.keys), q.keys[n]
        PROVE q.key # "" /\ \E m \in 1..k : s[m].k = "V" /\ s[m].id = n - 1 /\ s[m].name = q.key
    <3>0. n \in Nat /\ n >= 1
      BY <2>5, LenProperties
    <3>1. CASE n = id + 1
      <4>1. q.keys[n] = v
        BY <2>5, <3>1, Zenon
      <4>2. t.name = q.key
        BY <2>2, <2>6, <4>1, Zenon
      <4>3. k \in 1..k /\ s[k].k = "V" /\ s[k].id = n - 1
        BY <1>1, <1>a, <2>2, <2>3, <3>1
      <4> QED BY <1>2, <1>a, <4>2, <4>3
    <3>2. CASE n # id + 1 /\ n <= Len(keys)
      <4>1. q.keys[n] = keys[n]
        BY <2>5, <3>2, Zenon
      <4>2. n \in 1..Len(r.keys)
        BY <2>2, <2>3, <3>0, <3>2, LenProperties
      <4>3. r.keys[n]
        BY <2>2, <2>6, <4>1, Zenon
      <4> QED BY <1>5, <4>2, <4>3, Zenon
    <3>3. CASE n # id + 1 /\ ~ (n <= Len(keys))
      <4>1. q.keys[n] = no
        BY <2>5, <3>3, Zenon
      <4>2. FALSE
        BY <2>2, <2>6, <4>1, Zenon
      <4> QED BY <4>2
    <3> QED BY <3>1, <3>2, <3>3
  <2>7. q.keys \in Seq(BOOLEAN)
    BY <2>2, <2>5, Zenon
  <2> QED BY <1>3, <2>6, <2>7, Zenon DEF KeysSay
<1> QED BY <1>6, <1>7

(* One token more *)
LEMMA ReadToNext ==
  ASSUME NEW s \in Seq(Token), Coherent(s), NEW k \in 1..Len(s), NEW base, CostOK(base.cost),
         NEW r, ReadTo(r, base, s, k - 1), NEW q, q = ReadToken(r, s[k]), q.status = "reading"
  PROVE  ReadTo(q, base, s, k)
<1>1. PICK t : t = s[k]
  OBVIOUS
<1>2. Len(s) \in Nat /\ t \in Token /\ k \in 1..k /\ DOMAIN s = 1..Len(s)
  BY <1>1
<1>3. /\ IsReader(r) /\ CostOK(r.cost) /\ KeysSay(r, s, k - 1)
      /\ base.key # "" => r.key = base.key
      /\ Total(r.cost) <= Total(base.cost) + Gained(r, s, k - 1)
  BY DEF ReadTo
<1>4. Total(r.cost) \in Nat /\ Total(base.cost) \in Nat
  BY <1>3, TotalNat
<1>5. /\ Gained(r, s, k) \in Nat /\ Gained(r, s, k - 1) \in Nat
      /\ Gained(r, s, k - 1) <= Gained(r, s, k)
  BY GainedMore
<1>6. \/ Alike(r, q)
      \/ \E path : AtPath(r, q, path)
      \/ t.k = "V" /\ CounterTaken(r, q, t)
  BY <1>1, <1>3, TokenTaken
<1>7. KeysSay(r, s, k)
  <2>1. ASSUME NEW n \in 1..Len(r.keys), r.keys[n]
        PROVE r.key # "" /\ \E m \in 1..k : s[m].k = "V" /\ s[m].id = n - 1 /\ s[m].name = r.key
    <3>1. /\ r.key # ""
          /\ \E m \in 1..(k - 1) : s[m].k = "V" /\ s[m].id = n - 1 /\ s[m].name = r.key
      BY <1>3, <2>1 DEF KeysSay
    <3>2. PICK m \in 1..(k - 1) : s[m].k = "V" /\ s[m].id = n - 1 /\ s[m].name = r.key
      BY <3>1
    <3>3. m \in 1..k
      BY <1>2
    <3> QED BY <3>1, <3>2, <3>3
  <2>2. r.keys \in Seq(BOOLEAN)
    BY <1>3 DEF KeysSay
  <2> QED BY <2>1, <2>2, Zenon DEF KeysSay
<1>8. ASSUME IsReader(q), q.key = r.key, q.keys = r.keys, CostOK(q.cost),
             Total(q.cost) = Total(r.cost)
      PROVE  ReadTo(q, base, s, k)
  <2>1. KeysSay(q, s, k)
    BY <1>7, <1>8, Zenon DEF KeysSay
  <2>2. Gained(q, s, k) = Gained(r, s, k)
    BY <1>8 DEF Gained
  <2>3. Total(q.cost) <= Total(base.cost) + Gained(q, s, k)
    <3>1. PICK a, b, g, h :
            a = Total(r.cost) /\ b = Total(base.cost) /\ g = Gained(r, s, k) /\ h = Gained(r, s, k - 1)
      OBVIOUS
    <3>2. a \in Nat /\ b \in Nat /\ g \in Nat /\ h \in Nat /\ h <= g /\ a <= b + h
      BY <1>3, <1>4, <1>5, <3>1, Zenon
    <3>3. a <= b + g
      BY <3>2
    <3> QED BY <1>8, <2>2, <3>1, <3>3, Zenon
  <2> QED BY <1>3, <1>8, <2>1, <2>3 DEF ReadTo
<1>9. CASE Alike(r, q)
  BY <1>3, <1>8, <1>9 DEF Alike
<1>10. CASE \E path : AtPath(r, q, path)
  <2>1. PICK path : AtPath(r, q, path)
    BY <1>10
  <2>2. IsReader(q) /\ q.key = r.key /\ q.keys = r.keys /\ q.cost = Visited(r.cost, path)
    BY <2>1 DEF AtPath
  <2>3. CostOK(q.cost) /\ Total(q.cost) = Total(r.cost)
    BY <1>3, <2>2, VisitTotal
  <2> QED BY <1>8, <2>2, <2>3
<1>11. CASE t.k = "V" /\ CounterTaken(r, q, t)
  <2>1. /\ IsReader(q) /\ q.key = KeyRead(r, t) /\ q.keys = KeysRead(r, t)
        /\ ~ (t.id >= Len(q.keys))
        /\ q.cost = IF q.keys[t.id + 1] THEN Charged(r.cost, r.nodestack, t) ELSE r.cost
    BY <1>11 DEF CounterTaken
  <2>2. KeysSay(q, s, k) /\ (r.key # "" => q.key = r.key)
    <3>1. CounterNow(r, q, s, k, t)
      BY <1>1, <1>3, <1>11, <2>1, Zenon DEF CounterNow
    <3> QED BY <3>1, KeysAfter
  <2>3. t.id \in Nat /\ t.ticks \in Nat /\ t.value \in Nat
    BY <1>2, <1>11, TicksNat
  <2>4. base.key # "" => q.key = base.key
    BY <1>3, <2>2
  <2>5. PICK key : key = q.key
    OBVIOUS
  <2>6. /\ Gained(q, s, k) \in Nat /\ Gained(q, s, k - 1) \in Nat
        /\ Gained(q, s, k - 1) <= Gained(q, s, k)
        /\ q.key # "" => Gained(q, s, k) = Ticks(t, q.key) + Gained(q, s, k - 1)
    BY <1>1, GainedMore
  <2>7. Gained(r, s, k - 1) <= Gained(q, s, k - 1)
    <3>1. CASE r.key = ""
      <4>1. Gained(r, s, k - 1) = 0
        BY <3>1, Zenon DEF Gained
      <4>2. PICK e : e = Gained(q, s, k - 1)
        OBVIOUS
      <4>3. e \in Nat
        BY <2>6, <4>2, Zenon
      <4>4. 0 <= e
        BY <4>3
      <4> QED BY <4>1, <4>2, <4>4, Zenon
    <3>2. CASE r.key # ""
      <4>1. Gained(r, s, k - 1) = Gained(q, s, k - 1)
        BY <2>2, <3>2, Zenon DEF Gained
      <4>2. PICK e : e = Gained(q, s, k - 1)
        OBVIOUS
      <4>3. e \in Nat
        BY <2>6, <4>2, Zenon
      <4>4. e <= e
        BY <4>3
      <4> QED BY <4>1, <4>2, <4>4, Zenon
    <3> QED BY <3>1, <3>2
  <2>8. CASE ~ q.keys[t.id + 1]
    <3>1. q.cost = r.cost
      BY <2>1, <2>8, Zenon
    <3>2. Total(q.cost) <= Total(base.cost) + Gained(q, s, k)
      <4>1. PICK a, b, g, h :
              a = Total(r.cost) /\ b = Total(base.cost) /\ g = Gained(q, s, k) /\ h = Gained(r, s, k - 1)
        OBVIOUS
      <4>2. h <= g
        <5>1. PICK e : e = Gained(q, s, k - 1)
          OBVIOUS
        <5>2. e \in Nat /\ g \in Nat /\ h \in Nat /\ h <= e /\ e <= g
          BY <1>5, <2>6, <2>7, <4>1, <5>1, Zenon
        <5> QED BY <5>2
      <4>3. a \in Nat /\ b \in Nat /\ g \in Nat /\ h \in Nat /\ a <= b + h
        BY <1>3, <1>4, <1>5, <2>6, <4>1, Zenon
      <4>4. a <= b + g
        BY <4>2, <4>3
      <4> QED BY <3>1, <4>1, <4>4, Zenon
    <3> QED BY <1>3, <2>1, <2>2, <2>4, <3>1, <3>2 DEF ReadTo
  <2>9. CASE q.keys[t.id + 1]
    <3>1. q.cost = Charged(r.cost, r.nodestack, t)
      BY <2>1, <2>9, Zenon
    <3>2. CostOK(q.cost) /\ Total(q.cost) <= Total(r.cost) + t.ticks
      BY <1>3, <2>3, <3>1, ChargeTotal
    <3>3. PICK keys, id : keys = q.keys /\ id = t.id
      OBVIOUS
    <3>4. keys \in Seq(BOOLEAN) /\ ~ (id >= Len(keys)) /\ id \in Nat
      BY <2>1, <2>2, <2>3, <3>3 DEF KeysSay
    <3>5. id + 1 \in 1..Len(keys) /\ (id + 1) - 1 = id
      BY <3>4, LenProperties
    <3>6. q.key # "" /\ \E m \in 1..k : s[m].k = "V" /\ s[m].id = (id + 1) - 1 /\ s[m].name = q.key
      BY <2>2, <2>9, <3>3, <3>5, Zenon DEF KeysSay
    <3>7. PICK m \in 1..k : s[m].k = "V" /\ s[m].id = id /\ s[m].name = q.key
      BY <3>5, <3>6
    <3>8. m \in DOMAIN s /\ k \in DOMAIN s
      BY <1>2
    <3>9. t.name = q.key
      BY <1>1, <1>11, <3>3, <3>7, <3>8 DEF Coherent
    <3>10. Ticks(t, q.key) = t.ticks
      BY <1>11, <3>9 DEF Ticks
    <3>11. Total(q.cost) \in Nat
      BY <3>2, TotalNat
    <3>12. Total(q.cost) <= Total(base.cost) + Gained(q, s, k)
      <4>1. PICK a, b, c, x, e, g, h :
              /\ a = Total(r.cost) /\ b = Total(base.cost) /\ c = Total(q.cost) /\ x = t.ticks
              /\ e = Gained(q, s, k - 1) /\ g = Gained(q, s, k) /\ h = Gained(r, s, k - 1)
        OBVIOUS
      <4>2. /\ a \in Nat /\ b \in Nat /\ c \in Nat /\ x \in Nat /\ e \in Nat /\ g \in Nat /\ h \in Nat
        BY <1>4, <1>5, <2>3, <2>6, <3>11, <4>1, Zenon
      <4>3. a <= b + h /\ c <= a + x /\ h <= e /\ g = x + e
        BY <1>3, <2>6, <2>7, <3>2, <3>6, <3>10, <4>1, Zenon
      <4>4. c <= b + g
        BY <4>2, <4>3
      <4> QED BY <4>1, <4>4, Zenon
    <3> QED BY <2>1, <2>2, <2>4, <3>2, <3>12 DEF ReadTo
  <2> QED BY <2>8, <2>9
<1> QED BY <1>6, <1>9, <1>10, <1>11

(* What any file of them adds is no more than it holds. *)
FileTaken(r, q, s) ==
  /\ IsReader(q) /\ CostOK(q.cost)
  /\ r.key # "" => q.key = r.key
  /\ Total(q.cost) <= Total(r.cost) + (IF q.key = "" THEN 0 ELSE Weight(s, q.key))

(* Reading a whole file adds no more than what it says of the key. *)
LEMMA FileRead ==
  ASSUME NEW s \in Seq(Token), Coherent(s), NEW r, IsReader(r), CostOK(r.cost),
         NEW q, q = readDump(r, s), q.status = "reading"
  PROVE  FileTaken(r, q, s)
<1>1. PICK b : b = Reader(r)
  OBVIOUS
<1>2. IsReader(b) /\ b.cost = r.cost /\ b.key = r.key /\ b.keys = <<>>
  <2>1. PICK key, known, cost, st, ns, sy, fi, nf, ke, ex :
          /\ key = r.key /\ known = r.known /\ cost = r.cost /\ st = "reading" /\ ns = r.nodestack
          /\ sy = r.symbols /\ fi = r.files /\ nf = r.namedFiles /\ ke = r.keys /\ ex = r.expects
    OBVIOUS
  <2>2. r = ReaderOf(key, known, cost, st, ns, sy, fi, nf, ke, ex)
    BY <2>1, IsReaderOf
  <2>3. PICK no, nobody, p : no = <<>> /\ nobody = {} /\ p = "P"
    OBVIOUS
  <2>4. b = ReaderOf(key, known, cost, st, no, no, no, nobody, no, p)
    BY <1>1, <2>2, <2>3 DEF Reader, ReaderOf
  <2>5. IsReader(b) /\ b.cost = cost /\ b.key = key /\ b.keys = no
    BY <2>1, <2>4, ReaderIs
  <2> QED BY <2>1, <2>3, <2>5
<1>3. PICK read : read = Reading(b, s)
  OBVIOUS
<1>4. r.status = "reading"
  BY DEF IsReader
<1>5. /\ q = IF read.status = "reading" /\ (read.expects # "line" \/ read.keys = <<>>)
             THEN Stopped(read, "died") ELSE read
  BY <1>1, <1>3, <1>4 DEF readDump, Reading
<1>6. PICK T : T = Token
  OBVIOUS
<1>7. PICK h : IsRun(h, b, s) /\ Reading(b, s) = h[Len(s)]
  BY <1>6, FoldRun
<1>8. h[0] = b /\ \A k \in 1..Len(s) : h[k] = ReadToken(h[k - 1], s[k])
  BY <1>7 DEF IsRun
<1>9. ReadTo(b, b, s, 0)
  <2>1. KeysSay(b, s, 0)
    <3>1. PICK keys : keys = <<>>
      OBVIOUS
    <3>2. b.keys = keys /\ Len(keys) = 0 /\ 1..0 = {} /\ keys \in Seq(BOOLEAN)
      BY <1>2, <3>1
    <3> QED BY <3>2 DEF KeysSay
  <2>2. Gained(b, s, 0) = 0
    <3>1. PICK key : key = b.key
      OBVIOUS
    <3>2. WeightTo(s, key, 0) = 0
      BY WeightStep
    <3> QED BY <3>1, <3>2 DEF Gained
  <2>3. Total(b.cost) \in Nat
    BY <1>2, TotalNat
  <2> QED BY <1>2, <2>1, <2>2, <2>3 DEF ReadTo
<1>10. ASSUME NEW k \in 0..Len(s), h[k].status = "reading"
       PROVE  ReadTo(h[k], b, s, k)
  <2> DEFINE Q == {n \in Nat : n <= Len(s) /\ h[n].status = "reading" => ReadTo(h[n], b, s, n)}
  <2>1. 0 \in Q
    BY <1>8, <1>9
  <2>2. ASSUME NEW n \in Nat, n \in Q PROVE n + 1 \in Q
    <3> SUFFICES ASSUME n + 1 <= Len(s), h[n + 1].status = "reading"
                 PROVE  ReadTo(h[n + 1], b, s, n + 1)
      OBVIOUS
    <3>1. n + 1 \in 1..Len(s) /\ (n + 1) - 1 = n /\ n <= Len(s)
      BY LenProperties
    <3>2. PICK u, v, m : u = h[n] /\ v = h[n + 1] /\ m = n + 1
      OBVIOUS
    <3>3. v = ReadToken(u, s[m]) /\ v.status = "reading" /\ m \in 1..Len(s) /\ m - 1 = n
      BY <1>8, <3>1, <3>2
    <3>4. u.status = "reading"
      <4> SUFFICES ASSUME u.status # "reading" PROVE FALSE
        OBVIOUS
      <4>1. v = u
        BY <3>3 DEF ReadToken
      <4> QED BY <3>3, <4>1
    <3>5. ReadTo(u, b, s, n)
      BY <2>2, <3>1, <3>2, <3>4
    <3>6. CostOK(b.cost)
      BY <1>2
    <3>7. ReadTo(v, b, s, m)
      BY <3>3, <3>5, <3>6, ReadToNext
    <3> QED BY <3>2, <3>7
  <2> HIDE DEF Q
  <2>3. Nat \subseteq Q
    BY <2>1, <2>2, NumberInduction
  <2>4. k \in Q /\ k <= Len(s)
    BY <2>3, LenProperties
  <2> QED BY <1>10, <2>4 DEF Q
<1>11. read.status = "reading" /\ q = read
  <2>1. CASE read.status = "reading" /\ (read.expects # "line" \/ read.keys = <<>>)
    <3>1. Len(s) \in 0..Len(s)
      BY LenProperties
    <3>2. IsReader(read)
      BY <1>3, <1>7, <1>10, <2>1, <3>1 DEF ReadTo
    <3>3. q = Stopped(read, "died")
      BY <1>5, <2>1
    <3>4. q.status = "died"
      BY <3>2, <3>3, StoppedIs
    <3> QED BY <3>4
  <2>2. CASE ~ (read.status = "reading" /\ (read.expects # "line" \/ read.keys = <<>>))
    BY <1>5, <2>2
  <2> QED BY <2>1, <2>2
<1>12. ReadTo(q, b, s, Len(s))
  <2>1. Len(s) \in 0..Len(s)
    BY LenProperties
  <2> QED BY <1>3, <1>7, <1>10, <1>11, <2>1
<1>13. /\ IsReader(q) /\ CostOK(q.cost)
       /\ b.key # "" => q.key = b.key
       /\ Total(q.cost) <= Total(b.cost) + Gained(q, s, Len(s))
  BY <1>12 DEF ReadTo
<1> QED BY <1>2, <1>13 DEF FileTaken, Gained, Weight

-----------------------------------------------------------------------------
(* What holds whatever is lost *)

(* A number is used for one counter. *)
IdsOK(i) ==
  /\ Coherent(i.out)
  /\ \A m \in DOMAIN i.out :
       i.out[m].k = "V" => /\ i.out[m].id < i.nctrs
                           /\ \A c \in CounterDefs : i.ids[c] = i.out[m].id => i.out[m].name = c
  /\ \A c, e \in CounterDefs : i.ids[c] = i.ids[e] /\ i.ids[c] # -1 => c = e

FromOut(s, out) ==
  /\ s \in Seq(Token)
  /\ \A i \in DOMAIN s : \E m \in DOMAIN out : s[i] = out[m]
  /\ \A key : Weight(s, key) <= Weight(out, key)

PutOK == Loaded => FromOut(Stream, info.out)

(* What the reader has counted, and will count of the dump that is under way *)
Owed == IF Walking \/ Loaded THEN info.out ELSE <<>>

CountFits(r, out, D) ==
  /\ IsReader(r) /\ CostOK(r.cost)
  /\ r.key = "" => Total(r.cost) = 0
  /\ \A key : r.key = "" \/ r.key = key =>
       Total(r.cost) + Weight(out, key) <= Sum(Named(D, key), "ticks")

CountOK == reader.status = "reading" => CountFits(reader, Owed, Dumped)

Bound == IdsOK(info) /\ PutOK /\ CountOK

(* Another token that is no counter *)
LEMMA IdsAppend ==
  ASSUME NEW i, InfoFits(i), IdsOK(i), NEW t \in Token, t.k # "V", NEW j,
         j.out = Append(i.out, t), j.ids = i.ids, j.nctrs = i.nctrs
  PROVE  /\ IdsOK(j)
         /\ \A key : Weight(j.out, key) = Weight(i.out, key)
<1>1. PICK s, u, n : s = i.out /\ u = j.out /\ n = Len(i.out)
  OBVIOUS
<1>2. s \in Seq(Token) /\ n \in Nat /\ DOMAIN s = 1..n
  BY <1>1 DEF InfoFits
<1>3. /\ Len(u) = n + 1 /\ DOMAIN u = 1..(n + 1) /\ u[n + 1] = t
      /\ \A m \in 1..n : u[m] = s[m]
  BY <1>1, <1>2, AppendProperties
<1>4. \A m \in DOMAIN u : u[m].k = "V" => m \in DOMAIN s /\ u[m] = s[m]
  <2> SUFFICES ASSUME NEW m \in 1..(n + 1), u[m].k = "V" PROVE m \in 1..n
    BY <1>2, <1>3
  <2>1. m # n + 1
    BY <1>3
  <2> QED BY <1>2, <2>1
<1>5. Coherent(u)
  BY <1>1, <1>4 DEF IdsOK, Coherent
<1>6. \A m \in DOMAIN u :
        u[m].k = "V" => /\ u[m].id < j.nctrs
                        /\ \A c \in CounterDefs : j.ids[c] = u[m].id => u[m].name = c
  BY <1>1, <1>4 DEF IdsOK
<1>7. IdsOK(j)
  BY <1>1, <1>5, <1>6 DEF IdsOK
<1>8. ASSUME NEW key PROVE Weight(j.out, key) = Weight(i.out, key)
  <2>1. Weight(Append(s, t), key) = Weight(s, key) + Ticks(t, key) /\ Weight(s, key) \in Nat
    BY <1>2, WeightAppend
  <2>2. Ticks(t, key) = 0
    BY DEF Ticks
  <2>3. j.out = Append(s, t) /\ i.out = s
    BY <1>1
  <2>4. Weight(s, key) + 0 = Weight(s, key)
    BY <2>1
  <2> QED BY <2>1, <2>2, <2>3, <2>4, Zenon
<1> QED BY <1>7, <1>8

(* A counter is put with a number of its own. *)
LEMMA IdsCounter ==
  ASSUME NEW i, InfoFits(i), IdsOK(i), NEW ct \in Counter, NEW j, j = PutCounter(i, ct)
  PROVE  /\ IdsOK(j)
         /\ \A key : Weight(j.out, key) = Weight(i.out, key) + (IF ct.def = key THEN ct.ticks ELSE 0)
<1>a. ct.def \in CounterDefs /\ ct.ticks \in Nat
  BY DEF Counter
<1>b. i.out \in Seq(Token) /\ \A key : Weight(i.out, key) \in Nat
  <2>1. PICK s : s = i.out
    OBVIOUS
  <2>2. s \in Seq(Token)
    BY <2>1 DEF InfoFits
  <2>3. \A key : Weight(s, key) \in Nat
    <3> TAKE key
    <3>1. [k |-> "P"] \in Token
      BY Zenon DEF Token
    <3> QED BY <2>2, <3>1, WeightAppend
  <2> QED BY <2>1, <2>2, <2>3
<1>1. CASE ct.ticks = 0 /\ ct.peak = 0
  <2>1. j = i
    BY <1>1, CounterInfo
  <2>2. ASSUME NEW key PROVE Weight(i.out, key) = Weight(i.out, key) + (IF ct.def = key THEN ct.ticks ELSE 0)
    <3>1. PICK w, x : w = Weight(i.out, key) /\ x = (IF ct.def = key THEN ct.ticks ELSE 0)
      OBVIOUS
    <3>2. w \in Nat
      BY <1>b, <3>1
    <3>3. x = 0
      BY <1>1, <3>1
    <3>4. w = w + x
      BY <3>2, <3>3
    <3> QED BY <3>1, <3>4, Zenon
  <2> QED BY <2>1, <2>2, Zenon
<1>2. CASE ~ (ct.ticks = 0 /\ ct.peak = 0)
  <2>1. PICK t, id, c, n, nc, ids : /\ t = CounterOf(i, ct) /\ id = NumberOf(i, ct) /\ c = ct.def
                                    /\ n = Len(i.out) /\ nc = i.nctrs /\ ids = i.ids
    OBVIOUS
  <2>2. CounterPut(i, j, t, ct)
    BY <1>2, <2>1, PutCounterIs
  <2>3. /\ t \in Token /\ j.out = Append(i.out, t) /\ j.nctrs = NextNumber(i, ct)
        /\ j.ids = [ids EXCEPT ![c] = id]
    BY <2>1, <2>2 DEF CounterPut
  <2>4. t.k = "V" /\ t.id = id /\ t.name = c /\ t.ticks = ct.ticks
    BY <2>1 DEF CounterOf
  <2>5. /\ nc \in Nat /\ ids \in [CounterDefs -> Int]
        /\ \A x \in CounterDefs : ids[x] = -1 \/ ids[x] \in 0..(nc - 1)
    BY <2>1 DEF InfoFits
  <2>6. /\ id = (IF ids[c] = -1 THEN nc ELSE ids[c])
        /\ j.nctrs = (IF ids[c] = -1 THEN nc + 1 ELSE nc)
    BY <2>1, <2>3 DEF NumberOf, NextNumber
  <2>7. c \in CounterDefs /\ ids[c] \in Int /\ (ids[c] = -1 \/ ids[c] \in 0..(nc - 1))
    BY <1>a, <2>1, <2>5
  <2>8. id \in Nat /\ j.nctrs \in Nat /\ id < j.nctrs /\ nc <= j.nctrs
    BY <2>5, <2>6, <2>7
  <2>9. PICK s, u : s = i.out /\ u = j.out
    OBVIOUS
  <2>10. s \in Seq(Token) /\ n \in Nat /\ DOMAIN s = 1..n
    BY <1>b, <2>1, <2>9
  <2>11. /\ Len(u) = n + 1 /\ DOMAIN u = 1..(n + 1) /\ u[n + 1] = t
         /\ \A m \in 1..n : u[m] = s[m]
    BY <2>1, <2>3, <2>9, <2>10, AppendProperties
  <2>12. \A x \in CounterDefs : j.ids[x] = IF x = c THEN id ELSE ids[x]
    BY <2>3, <2>5
  (* Before it no token with this number has another name. *)
  <2>13. /\ Coherent(s)
         /\ \A m \in 1..n : s[m].k = "V" =>
              /\ s[m].id < nc
              /\ \A x \in CounterDefs : ids[x] = s[m].id => s[m].name = x
         /\ \A x, y \in CounterDefs : ids[x] = ids[y] /\ ids[x] # -1 => x = y
    BY <2>1, <2>9, <2>10 DEF IdsOK
  <2>14. \A m \in 1..n : s[m].k = "V" => s[m].id \in Nat
    <3> TAKE m \in 1..n
    <3>1. s[m] \in Token
      BY <2>10
    <3> QED BY <3>1, TicksNat
  <2>15. \A m \in 1..n : s[m].k = "V" /\ s[m].id = id => s[m].name = c
    <3> SUFFICES ASSUME NEW m \in 1..n, s[m].k = "V", s[m].id = id PROVE s[m].name = c
      OBVIOUS
    <3>1. s[m].id < nc /\ (ids[c] = s[m].id => s[m].name = c)
      BY <2>7, <2>13
    <3>2. id # nc
      BY <2>5, <2>8, <3>1
    <3>3. id = ids[c]
      BY <2>6, <3>2
    <3> QED BY <3>1, <3>3
  <2>16. ASSUME NEW m \in DOMAIN u, u[m].k = "V"
         PROVE  \/ m = n + 1 /\ u[m] = t
                \/ m \in 1..n /\ u[m] = s[m]
    <3>1. m \in 1..(n + 1)
      BY <2>11
    <3>2. m = n + 1 \/ m \in 1..n
      BY <2>10, <3>1
    <3> QED BY <2>11, <3>2
  <2>17. Coherent(u)
    <3> SUFFICES ASSUME NEW x \in DOMAIN u, NEW y \in DOMAIN u, u[x].k = "V", u[y].k = "V",
                        u[x].id = u[y].id
                 PROVE  u[x].name = u[y].name
      BY DEF Coherent
    <3>1. \/ x = n + 1 /\ u[x] = t
          \/ x \in 1..n /\ u[x] = s[x]
      BY <2>16
    <3>2. \/ y = n + 1 /\ u[y] = t
          \/ y \in 1..n /\ u[y] = s[y]
      BY <2>16
    <3>3. CASE u[x] = t /\ u[y] = t
      BY <3>3
    <3>4. CASE u[x] = t /\ y \in 1..n /\ u[y] = s[y]
      BY <2>4, <2>15, <3>4
    <3>5. CASE u[y] = t /\ x \in 1..n /\ u[x] = s[x]
      BY <2>4, <2>15, <3>5
    <3>6. CASE x \in 1..n /\ u[x] = s[x] /\ y \in 1..n /\ u[y] = s[y]
      BY <2>10, <2>13, <3>6 DEF Coherent
    <3> QED BY <3>1, <3>2, <3>3, <3>4, <3>5, <3>6
  <2>18. ASSUME NEW m \in DOMAIN u, u[m].k = "V"
         PROVE  u[m].id < j.nctrs /\ \A x \in CounterDefs : j.ids[x] = u[m].id => u[m].name = x
    <3>1. CASE u[m] = t
      <4>1. u[m].id = id /\ u[m].name = c
        BY <2>4, <3>1
      <4>2. ASSUME NEW x \in CounterDefs, j.ids[x] = id PROVE c = x
        <5>1. CASE x = c
          BY <5>1
        <5>2. CASE x # c
          <6>1. ids[x] = id /\ id # -1
            BY <2>8, <2>12, <4>2, <5>2
          <6>2. ids[x] \in 0..(nc - 1)
            BY <2>5, <6>1
          <6>3. id # nc
            BY <2>5, <6>1, <6>2
          <6>4. ids[c] = id
            BY <2>6, <6>3
          <6> QED BY <2>7, <2>13, <6>1, <6>4
        <5> QED BY <5>1, <5>2
      <4> QED BY <2>8, <4>1, <4>2
    <3>2. CASE m \in 1..n /\ u[m] = s[m]
      <4>1. /\ s[m].k = "V" /\ s[m].id < nc /\ s[m].id \in Nat
            /\ \A x \in CounterDefs : ids[x] = s[m].id => s[m].name = x
        BY <2>13, <2>14, <2>18, <3>2
      <4>2. s[m].id < j.nctrs
        <5>1. PICK a, b : a = s[m].id /\ b = j.nctrs
          OBVIOUS
        <5>2. a \in Nat /\ b \in Nat /\ a < nc /\ nc <= b
          BY <2>8, <4>1, <5>1
        <5>3. a < b
          BY <2>5, <5>2
        <5> QED BY <5>1, <5>3
      <4>3. ASSUME NEW x \in CounterDefs, j.ids[x] = s[m].id PROVE s[m].name = x
        <5>1. CASE x = c
          <6>1. s[m].id = id
            BY <2>12, <4>3, <5>1
          <6> QED BY <2>15, <3>2, <4>1, <5>1, <6>1
        <5>2. CASE x # c
          <6>1. ids[x] = s[m].id
            BY <2>12, <4>3, <5>2
          <6> QED BY <4>1, <6>1
        <5> QED BY <5>1, <5>2
      <4> QED BY <3>2, <4>2, <4>3
    <3> QED BY <2>16, <2>18, <3>1, <3>2
  <2>19. ASSUME NEW x \in CounterDefs, NEW y \in CounterDefs, j.ids[x] = j.ids[y], j.ids[x] # -1
         PROVE  x = y
    <3>1. \A z \in CounterDefs : z # c => ids[z] # nc
      <4> SUFFICES ASSUME NEW z \in CounterDefs PROVE ids[z] # nc
        OBVIOUS
      <4>1. ids[z] = -1 \/ ids[z] \in 0..(nc - 1)
        BY <2>5
      <4> QED BY <2>5, <4>1
    <3>2. CASE x # c /\ y # c
      BY <2>12, <2>13, <2>19, <3>2
    <3>3. CASE x = c /\ y # c
      <4>1. ids[y] = id /\ id # -1
        BY <2>8, <2>12, <2>19, <3>3
      <4>2. id # nc
        BY <3>1, <3>3, <4>1
      <4>3. ids[c] = id
        BY <2>6, <4>2
      <4> QED BY <2>7, <2>13, <3>3, <4>1, <4>3
    <3>4. CASE y = c /\ x # c
      <4>1. ids[x] = id /\ id # -1
        BY <2>8, <2>12, <2>19, <3>4
      <4>2. id # nc
        BY <3>1, <3>4, <4>1
      <4>3. ids[c] = id
        BY <2>6, <4>2
      <4> QED BY <2>7, <2>13, <3>4, <4>1, <4>3
    <3>5. CASE x = c /\ y = c
      BY <3>5
    <3> QED BY <3>2, <3>3, <3>4, <3>5
  <2>20. IdsOK(j)
    BY <2>9, <2>17, <2>18, <2>19 DEF IdsOK
  <2>21. ASSUME NEW key
         PROVE Weight(j.out, key) = Weight(i.out, key) + (IF ct.def = key THEN ct.ticks ELSE 0)
    <3>1. Weight(Append(s, t), key) = Weight(s, key) + Ticks(t, key)
      BY <2>3, <2>10, WeightAppend
    <3>2. Ticks(t, key) = IF ct.def = key THEN ct.ticks ELSE 0
      BY <2>1, <2>4 DEF Ticks
    <3>3. j.out = Append(s, t) /\ i.out = s
      BY <2>3, <2>9
    <3> QED BY <3>1, <3>2, <3>3, Zenon
  <2> QED BY <2>20, <2>21
<1> QED BY <1>1, <1>2

(* The numbers are forgotten at the end of a buffer, but not used again. *)
LEMMA IdsReset ==
  ASSUME NEW i, InfoFits(i), IdsOK(i), NEW j, j.out = i.out, j.nctrs = i.nctrs,
         \A c \in CounterDefs : j.ids[c] = -1
  PROVE  IdsOK(j)
<1>1. PICK s : s = i.out
  OBVIOUS
<1>2. s \in Seq(Token)
  BY <1>1 DEF InfoFits
<1>3. ASSUME NEW m \in DOMAIN s, s[m].k = "V" PROVE s[m].id \in Nat
  <2>1. s[m] \in Token
    BY <1>2
  <2> QED BY <1>3, <2>1, TicksNat
<1>4. ASSUME NEW m \in DOMAIN s, s[m].k = "V"
      PROVE  s[m].id < j.nctrs /\ \A c \in CounterDefs : j.ids[c] # s[m].id
  <2>1. s[m].id \in Nat
    BY <1>3, <1>4
  <2>2. s[m].id # -1
    BY <2>1
  <2>3. s[m].id < j.nctrs
    BY <1>1, <1>4 DEF IdsOK
  <2> QED BY <2>2, <2>3
<1>5. Coherent(j.out)
  BY DEF IdsOK
<1> QED BY <1>1, <1>4, <1>5 DEF IdsOK

(* A dump begins with a header. *)
LEMMA IdsStart ==
  ASSUME NEW i, i.out = <<[k |-> "P"]>>, \A c \in CounterDefs : i.ids[c] = -1
  PROVE  /\ IdsOK(i)
         /\ \A key : Weight(i.out, key) = 0
<1>1. PICK t, s : t = [k |-> "P"] /\ s = <<t>>
  OBVIOUS
<1>2. t.k = "P" /\ t \in Token /\ s \in Seq(Token) /\ i.out = s
  <2>1. t \in Token
    BY <1>1, Zenon DEF Token
  <2>2. s \in Seq(Token)
    BY <1>1, <2>1
  <2>3. t.k = "P"
    BY <1>1
  <2>4. i.out = s
    BY <1>1, Zenon
  <2> QED BY <2>1, <2>2, <2>3, <2>4
<1>3. DOMAIN s = {1} /\ s[1] = t
  BY <1>1
<1>4. Coherent(s)
  BY <1>2, <1>3 DEF Coherent
<1>5. IdsOK(i)
  BY <1>2, <1>3, <1>4 DEF IdsOK
<1>6. ASSUME NEW key PROVE Weight(i.out, key) = 0
  <2>1. <<>> \in Seq(Token) /\ s = Append(<<>>, t)
    BY <1>1
  <2>2. /\ Weight(<<>>, key) = 0 /\ Weight(Append(<<>>, t), key) = Weight(<<>>, key) + Ticks(t, key)
    BY <1>2, <2>1, WeightAppend
  <2>3. Ticks(t, key) = 0
    BY <1>2 DEF Ticks
  <2> QED BY <1>2, <2>1, <2>2, <2>3
<1> QED BY <1>5, <1>6

(* What is put of a frame is no counter. *)
LEMMA FrameIsNoCounter ==
  ASSUME NEW i, InfoFits(i), NEW d \in Nat, NEW a \in Addresses, NEW j, j = PutFrame(i, d, a),
         NEW t, j.out = Append(i.out, t)
  PROVE  t.k # "V"
<1>1. PICK c : c = roundAddressToSymbol(i.symcache, a)
  OBVIOUS
<1>2. Refers(i, c, d, a) \/ Defines(i, c, d, a) \/ DefinesFile(i, c, d, a)
  BY <1>1, PutFrameIs
<1>3. PICK ns, nl, nc, sc, ids, u, no, s :
        j = InfoOf(ns, nl, nc, sc, ids, Append(s, u), no) /\ u.k = "C" /\ s = i.out
  <2>1. CASE Refers(i, c, d, a)
    <3>1. PICK u : u = Frame(d, c.symId[a], FALSE, File(BinaryOf[a], -1, FALSE), a)
      OBVIOUS
    <3>2. u.k = "C"
      BY <3>1 DEF Frame
    <3>3. j = InfoOf(i.nsyms, i.nlibs, i.nctrs, c, i.ids, Append(i.out, u), FALSE)
      BY <2>1, <3>1, Zenon DEF Refers
    <3> QED BY <3>2, <3>3, Zenon
  <2>2. CASE Defines(i, c, d, a)
    <3>1. PICK u : u = Frame(d, i.nsyms, TRUE, File(BinaryOf[a], c.binId[BinaryOf[a]], FALSE), a)
      OBVIOUS
    <3>2. u.k = "C"
      BY <3>1 DEF Frame
    <3>3. j = InfoOf(i.nsyms + 1, i.nlibs, i.nctrs, Numbered(c, a, i.nsyms), i.ids,
                     Append(i.out, u), FALSE)
      BY <2>2, <3>1, Zenon DEF Defines
    <3> QED BY <3>2, <3>3, Zenon
  <2>3. CASE DefinesFile(i, c, d, a)
    <3>1. PICK u : u = Frame(d, i.nsyms, TRUE, File(BinaryOf[a], i.nlibs, TRUE), a)
      OBVIOUS
    <3>2. u.k = "C"
      BY <3>1 DEF Frame
    <3>3. j = InfoOf(i.nsyms + 1, i.nlibs + 1, i.nctrs,
                     NumberedFile(Numbered(c, a, i.nsyms), BinaryOf[a], i.nlibs), i.ids,
                     Append(i.out, u), FALSE)
      BY <2>3, <3>1, Zenon DEF DefinesFile
    <3> QED BY <3>2, <3>3, Zenon
  <2> QED BY <1>2, <2>1, <2>2, <2>3
<1>4. PICK v : v = Append(s, u)
  OBVIOUS
<1>5. j.out = v
  <2>1. j = InfoOf(ns, nl, nc, sc, ids, v, no)
    BY <1>3, <1>4, Zenon
  <2> QED BY <2>1, InfoFields
<1>6. s \in Seq(Token) /\ Len(s) \in Nat
  BY <1>3 DEF InfoFits
<1>7. Append(s, u) = Append(s, t)
  BY <1>3, <1>4, <1>5
<1>8. PICK T : T = Token \cup {t, u}
  OBVIOUS
<1>9. s \in Seq(T) /\ t \in T /\ u \in T
  <2>1. \A k \in 1..Len(s) : s[k] \in T
    BY <1>6, <1>8
  <2> QED BY <1>6, <1>8, <2>1, SeqIn
<1>10. Append(s, u)[Len(s) + 1] = u /\ Append(s, t)[Len(s) + 1] = t
  BY <1>9, AppendProperties
<1>11. t = u
  BY <1>7, <1>10, Zenon
<1> QED BY <1>3, <1>11

-----------------------------------------------------------------------------
(* What the reader has counted, step by step *)

(* The sums speak of the program, which does not change. *)
LEMMA CountStays ==
  ASSUME program' = program, NEW r, r = reader', NEW out, out = Owed', NEW D, D = Dumped',
         r.status = "reading" => CountFits(r, out, D)
  PROVE  CountOK'
<1>1. ASSUME NEW key PROVE Sum(Named(D, key), "ticks")' = Sum(Named(D, key), "ticks")
  BY DEF Sum, Named, CounterAt, FrameAt, BufferAt
<1>2. SUFFICES ASSUME reader'.status = "reading" PROVE CountFits(reader, Owed, Dumped)'
  BY DEF CountOK
<1>3. CountFits(r, out, D)
  BY <1>2
<1>4. /\ IsReader(r) /\ CostOK(r.cost)
      /\ r.key = "" => Total(r.cost) = 0
  BY <1>3 DEF CountFits
<1>5. ASSUME NEW key, r.key = "" \/ r.key = key
      PROVE  Total(r.cost) + Weight(out, key) <= Sum(Named(D, key), "ticks")'
  <2>1. Total(r.cost) + Weight(out, key) <= Sum(Named(D, key), "ticks")
    BY <1>3, <1>5, Zenon DEF CountFits
  <2> QED BY <1>1, <2>1, Zenon
<1>6. ASSUME NEW key, r.key = "" \/ r.key = key
      PROVE  Total(r.cost) + Weight(out, key) <= Sum(Named(Dumped, key), "ticks")'
  <2>1. Sum(Named(Dumped, key), "ticks")' = Sum(Named(D, key), "ticks")'
    OBVIOUS
  <2> QED BY <1>5, <1>6, <2>1, Zenon
<1>7. (IsReader(reader) /\ CostOK(reader.cost))' /\ (reader'.key = "" => Total(reader.cost)' = 0)
  BY <1>4, Zenon
<1>8. \A key : reader'.key = "" \/ reader'.key = key =>
        (Total(reader.cost) + Weight(Owed, key) <= Sum(Named(Dumped, key), "ticks"))'
  BY <1>6, Zenon
<1> QED BY <1>7, <1>8, Zenon DEF CountFits

(* As much is owed as before. *)
LEMMA CountSame ==
  ASSUME NEW r, NEW old, NEW new, NEW D, CountFits(r, old, D),
         \A key : Weight(new, key) = Weight(old, key)
  PROVE  CountFits(r, new, D)
<1>1. ASSUME NEW key, r.key = "" \/ r.key = key
      PROVE  Total(r.cost) + Weight(new, key) <= Sum(Named(D, key), "ticks")
  <2>1. Total(r.cost) + Weight(old, key) <= Sum(Named(D, key), "ticks")
    BY <1>1, Zenon DEF CountFits
  <2>2. Weight(new, key) = Weight(old, key)
    OBVIOUS
  <2> QED BY <2>1, <2>2, Zenon
<1> QED BY <1>1, Zenon DEF CountFits

(* What is owed of a counter is what it counts. *)
LEMMA CountMore ==
  ASSUME program \in Programs, NEW r, NEW old, NEW new, NEW D \in SUBSET CountersOf(Frames),
         IsFiniteSet(D), CountFits(r, old, D), NEW c \in CountersOf(Frames) \ D,
         NEW ct, ct = CounterAt(c), \A key : Weight(old, key) \in Nat,
         \A key : Weight(new, key) = Weight(old, key) + (IF ct.def = key THEN ct.ticks ELSE 0)
  PROVE  CountFits(r, new, D \cup {c})
<1>1. IsReader(r) /\ CostOK(r.cost) /\ (r.key = "" => Total(r.cost) = 0)
  BY DEF CountFits
<1>2. Total(r.cost) \in Nat
  BY <1>1, TotalNat
<1>3. ct.ticks \in Nat
  BY CounterFacts
<1>4. ASSUME NEW key, r.key = "" \/ r.key = key
      PROVE  Total(r.cost) + Weight(new, key) <= Sum(Named(D \cup {c}, key), "ticks")
  <2>1. PICK a, w, v, x, m, n, S, E :
          /\ a = Total(r.cost) /\ w = Weight(old, key) /\ v = Weight(new, key) /\ x = ct.ticks
          /\ S = Named(D, key) /\ E = Named(D \cup {c}, key)
          /\ m = Sum(S, "ticks") /\ n = Sum(E, "ticks")
    OBVIOUS
  <2>2. a + w <= m
    BY <1>4, <2>1, Zenon DEF CountFits
  <2>3. v = w + (IF ct.def = key THEN x ELSE 0)
    BY <2>1, Zenon
  <2>4. S \in SUBSET D /\ c \notin S
    BY <2>1 DEF Named
  <2>5. S \in SUBSET CountersOf(Frames) /\ IsFiniteSet(S)
    BY <2>4, FS_Subset
  <2>6. "ticks" \in Fields
    BY DEF Fields
  <2>7. m \in Int
    BY <2>1, <2>5, <2>6, SumTyped
  <2>8. CASE ct.def = key
    <3>1. E = S \cup {c}
      BY <2>1, <2>8 DEF Named
    <3>2. c \in CountersOf(Frames) \ S
      BY <2>4
    <3>3. Sum(S \cup {c}, "ticks") = Sum(S, "ticks") + CounterAt(c)["ticks"]
      BY <2>5, <2>6, <3>2, SumOne
    <3>4. n = m + x
      BY <2>1, <3>1, <3>3
    <3>5. v = w + x
      BY <2>3, <2>8
    <3>6. a \in Nat /\ w \in Nat /\ x \in Nat
      BY <1>2, <1>3, <2>1
    <3>7. a + v <= n
      BY <2>2, <2>7, <3>4, <3>5, <3>6
    <3> QED BY <2>1, <3>7
  <2>9. CASE ct.def # key
    <3>1. E = S
      BY <2>1, <2>9 DEF Named
    <3>2. v = w + 0 /\ w \in Nat
      BY <2>1, <2>3, <2>9
    <3>3. v = w
      BY <3>2
    <3>4. n = m
      BY <2>1, <3>1
    <3> QED BY <2>1, <2>2, <3>3, <3>4
  <2> QED BY <2>8, <2>9
<1> QED BY <1>1, <1>4, Zenon DEF CountFits

(* What is read of a dump is owed no more. *)
LEMMA CountRead ==
  ASSUME program \in Programs, NEW r, NEW q, NEW s, NEW out, NEW D, CountFits(r, out, D),
         FileTaken(r, q, s), \A key : Weight(s, key) \in Nat /\ Weight(out, key) \in Nat,
         \A key : Weight(s, key) <= Weight(out, key),
         D \in SUBSET CountersOf(Frames), IsFiniteSet(D)
  PROVE  CountFits(q, <<>>, D)
<1>1. /\ IsReader(r) /\ CostOK(r.cost) /\ (r.key = "" => Total(r.cost) = 0)
  BY DEF CountFits
<1>2. /\ IsReader(q) /\ CostOK(q.cost) /\ (r.key # "" => q.key = r.key)
      /\ Total(q.cost) <= Total(r.cost) + (IF q.key = "" THEN 0 ELSE Weight(s, q.key))
  BY DEF FileTaken
<1>3. PICK a, b, k : a = Total(r.cost) /\ b = Total(q.cost) /\ k = q.key
  OBVIOUS
<1>4. a \in Nat /\ b \in Nat
  BY <1>1, <1>2, <1>3, TotalNat
<1>a. b <= a + 0 /\ a = 0 => b = 0
  BY <1>4
<1>5. k = "" => r.key = "" /\ a = 0 /\ b = 0
  <2> SUFFICES ASSUME k = "" PROVE r.key = "" /\ a = 0 /\ b = 0
    OBVIOUS
  <2>1. r.key = ""
    BY <1>2, <1>3
  <2>2. a = 0
    BY <1>1, <1>3, <2>1
  <2>3. b <= a + 0
    BY <1>2, <1>3
  <2>4. b = 0
    BY <1>a, <2>2, <2>3, Zenon
  <2> QED BY <2>1, <2>2, <2>4, Zenon
<1>6. ASSUME NEW key, k = "" \/ k = key
      PROVE  Total(q.cost) + Weight(<<>>, key) <= Sum(Named(D, key), "ticks")
  <2>1. PICK w, v, n : w = Weight(s, key) /\ v = Weight(out, key) /\ n = Sum(Named(D, key), "ticks")
    OBVIOUS
  <2>2. w \in Nat /\ v \in Nat /\ w <= v
    BY <2>1
  <2>3. n \in Int
    <3>1. Named(D, key) \in SUBSET D
      BY DEF Named
    <3>2. Named(D, key) \in SUBSET CountersOf(Frames) /\ IsFiniteSet(Named(D, key))
      BY <3>1, FS_Subset
    <3>3. "ticks" \in Fields
      BY DEF Fields
    <3> QED BY <2>1, <3>2, <3>3, SumTyped
  <2>4. r.key = "" \/ r.key = key
    BY <1>2, <1>3, <1>5, <1>6
  <2>5. a + v <= n
    BY <1>3, <2>1, <2>4, Zenon DEF CountFits
  <2>6. Weight(<<>>, key) = 0
    <3>1. [k |-> "P"] \in Token
      BY Zenon DEF Token
    <3>2. <<>> \in Seq(Token)
      OBVIOUS
    <3> QED BY <3>1, <3>2, WeightAppend
  <2>7. b <= n
    <3>1. CASE k = ""
      <4>1. b = 0 /\ a = 0
        BY <1>5, <3>1
      <4> QED BY <2>2, <2>3, <2>5, <4>1
    <3>2. CASE k # ""
      <4>1. k = key
        BY <1>6, <3>2
      <4>2. b <= a + w
        BY <1>2, <1>3, <2>1, <3>2, <4>1
      <4> QED BY <1>4, <2>2, <2>3, <2>5, <4>2
    <3> QED BY <3>1, <3>2
  <2>8. b + 0 <= n
    BY <1>4, <2>3, <2>7
  <2> QED BY <1>3, <2>1, <2>6, <2>8
<1>7. q.key = "" => Total(q.cost) = 0
  BY <1>3, <1>5
<1> QED BY <1>2, <1>3, <1>6, <1>7, Zenon DEF CountFits

(* A dump comes from itself, *)
LEMMA OutFromOut ==
  ASSUME NEW out \in Seq(Token)
  PROVE  FromOut(out, out)
<1>1. ASSUME NEW key PROVE Weight(out, key) <= Weight(out, key)
  <2>1. [k |-> "P"] \in Token
    BY Zenon DEF Token
  <2>2. Weight(out, key) \in Nat
    BY <2>1, WeightAppend
  <2>3. PICK w : w = Weight(out, key)
    OBVIOUS
  <2>4. w <= w
    BY <2>2, <2>3
  <2> QED BY <2>3, <2>4
<1> QED BY <1>1, Zenon DEF FromOut

(* and so does what is left when something is cut out of the middle. *)
LEMMA LessFromOut ==
  ASSUME NEW f \in Seq(Token), NEW m \in Seq(Token), NEW t \in Seq(Token), NEW out \in Seq(Token),
         FromOut((f \o m) \o t, out)
  PROVE  FromOut(f \o t, out)
<1>1. PICK a, s, u, p : a = f \o m /\ s = a \o t /\ u = f \o t /\ p = [k |-> "P"]
  OBVIOUS
<1>2. /\ a \in Seq(Token) /\ Len(a) = Len(f) + Len(m)
      /\ \A i \in 1..Len(f) : a[i] = f[i]
  <2>1. /\ a \in Seq(Token) /\ Len(a) = Len(f) + Len(m)
        /\ \A i \in 1..(Len(f) + Len(m)) : a[i] = IF i <= Len(f) THEN f[i] ELSE m[i - Len(f)]
    BY <1>1, ConcatProperties
  <2>2. Len(f) \in Nat /\ Len(m) \in Nat
    BY LenProperties
  <2>3. \A i \in 1..Len(f) : i \in 1..(Len(f) + Len(m)) /\ i <= Len(f)
    BY <2>2
  <2> QED BY <2>1, <2>3
<1>3. Len(f) \in Nat /\ Len(m) \in Nat /\ Len(t) \in Nat
  BY LenProperties
<1>4. /\ s \in Seq(Token) /\ Len(s) = Len(a) + Len(t)
      /\ \A i \in 1..(Len(a) + Len(t)) : s[i] = IF i <= Len(a) THEN a[i] ELSE t[i - Len(a)]
  BY <1>1, <1>2, ConcatProperties
<1>5. /\ u \in Seq(Token) /\ Len(u) = Len(f) + Len(t)
      /\ \A i \in 1..(Len(f) + Len(t)) : u[i] = IF i <= Len(f) THEN f[i] ELSE t[i - Len(f)]
  BY <1>1, ConcatProperties
<1>6. /\ \A i \in DOMAIN s : \E n \in DOMAIN out : s[i] = out[n]
      /\ \A key : Weight(s, key) <= Weight(out, key)
  BY <1>1 DEF FromOut
<1>7. ASSUME NEW i \in DOMAIN u PROVE \E n \in DOMAIN out : u[i] = out[n]
  <2>1. PICK lf, lm, lt : lf = Len(f) /\ lm = Len(m) /\ lt = Len(t)
    OBVIOUS
  <2>2. lf \in Nat /\ lm \in Nat /\ lt \in Nat /\ Len(a) = lf + lm
    BY <1>2, <1>3, <2>1
  <2>3. i \in 1..(lf + lt)
    BY <1>5, <2>1, LenProperties
  <2>4. CASE i <= lf
    <3>1. i \in 1..lf /\ i <= Len(a) /\ i \in 1..(Len(a) + lt)
      BY <2>2, <2>3, <2>4
    <3>2. u[i] = f[i]
      BY <1>5, <2>1, <2>3, <2>4
    <3>3. s[i] = a[i] /\ a[i] = f[i]
      BY <1>2, <1>4, <2>1, <3>1
    <3>4. i \in DOMAIN s
      BY <1>4, <2>1, <3>1, LenProperties
    <3> QED BY <1>6, <3>2, <3>3, <3>4
  <2>5. CASE ~ (i <= lf)
    <3>1. PICK j : j = i + lm
      OBVIOUS
    <3>2. j \in 1..(Len(a) + lt) /\ ~ (j <= Len(a)) /\ j - Len(a) = i - lf
      BY <2>2, <2>3, <2>5, <3>1
    <3>3. u[i] = t[i - lf]
      BY <1>5, <2>1, <2>3, <2>5
    <3>4. s[j] = t[j - Len(a)]
      BY <1>4, <2>1, <3>2
    <3>5. j \in DOMAIN s
      BY <1>4, <2>1, <3>2, LenProperties
    <3> QED BY <1>6, <3>2, <3>3, <3>4, <3>5
  <2> QED BY <2>4, <2>5
<1>8. ASSUME NEW key PROVE Weight(u, key) <= Weight(out, key)
  <2>1. p \in Token
    BY <1>1, Zenon DEF Token
  <2>2. /\ Weight(f, key) \in Nat /\ Weight(m, key) \in Nat /\ Weight(t, key) \in Nat
        /\ Weight(out, key) \in Nat
    BY <2>1, WeightAppend
  <2>3. Weight(a, key) = Weight(f, key) + Weight(m, key)
    BY <1>1, WeightConcat
  <2>4. Weight(s, key) = Weight(a, key) + Weight(t, key)
    <3>1. Weight(a \o t, key) = Weight(a, key) + Weight(t, key)
      BY <1>2, WeightConcat
    <3>2. s = a \o t
      BY <1>1
    <3> QED BY <3>1, <3>2, Zenon
  <2>5. Weight(u, key) = Weight(f, key) + Weight(t, key)
    BY <1>1, WeightConcat
  <2>6. Weight(s, key) <= Weight(out, key)
    BY <1>6
  <2>7. PICK w, x, y, z, v, o, wa : /\ w = Weight(f, key) /\ x = Weight(m, key) /\ y = Weight(t, key)
                                    /\ z = Weight(s, key) /\ v = Weight(u, key) /\ o = Weight(out, key)
                                    /\ wa = Weight(a, key)
    OBVIOUS
  <2>8. /\ w \in Nat /\ x \in Nat /\ y \in Nat /\ o \in Nat /\ wa = w + x /\ z = wa + y
        /\ v = w + y /\ z <= o
    BY <2>2, <2>3, <2>4, <2>5, <2>6, <2>7, Zenon
  <2>9. v <= o
    BY <2>8
  <2> QED BY <2>7, <2>9
<1> QED BY <1>1, <1>5, <1>7, <1>8, Zenon DEF FromOut

(* What comes from a dump is as coherent as the dump. *)
LEMMA FromCoherent ==
  ASSUME NEW s, NEW out, FromOut(s, out), Coherent(out)
  PROVE  Coherent(s)
<1> SUFFICES ASSUME NEW i \in DOMAIN s, NEW j \in DOMAIN s, s[i].k = "V", s[j].k = "V",
                    s[i].id = s[j].id
             PROVE  s[i].name = s[j].name
  BY DEF Coherent
<1>1. PICK m \in DOMAIN out : s[i] = out[m]
  BY DEF FromOut
<1>2. PICK n \in DOMAIN out : s[j] = out[n]
  BY DEF FromOut
<1> QED BY <1>1, <1>2 DEF Coherent

-----------------------------------------------------------------------------
(* Bound is kept by every step *)

(* What is owed weighs something. *)
LEMMA WeightNat ==
  ASSUME NEW s \in Seq(Token)
  PROVE  \A key : Weight(s, key) \in Nat /\ Weight(<<>>, key) = 0
<1> TAKE key
<1>1. [k |-> "P"] \in Token
  BY Zenon DEF Token
<1> QED BY <1>1, WeightAppend

(* The reader waits, and as much is owed as before. *)
LEMMA BoundWaits ==
  ASSUME Bound, program' = program, reader' = reader, Dumped' = Dumped, NEW j, j = info',
         IdsOK(j), PutOK', NEW new, new = Owed', \A key : Weight(new, key) = Weight(Owed, key)
  PROVE  Bound'
<1>1. PICK r, old, D : r = reader /\ old = Owed /\ D = Dumped
  OBVIOUS
<1>2. r.status = "reading" => CountFits(r, new, D)
  <2>1. r.status = "reading" => CountFits(r, old, D)
    BY <1>1 DEF Bound, CountOK
  <2>2. \A key : Weight(new, key) = Weight(old, key)
    BY <1>1
  <2> QED BY <2>1, <2>2, CountSame
<1>3. CountOK'
  BY <1>1, <1>2, CountStays
<1>4. IdsOK(info)'
  BY DEF IdsOK
<1> QED BY <1>3, <1>4 DEF Bound

(* Something that is no counter is put. *)
LEMMA NoCounterPut ==
  ASSUME Inv, Bound, Walking, Walking', program' = program, reader' = reader, Dumped' = Dumped,
         NEW t \in Token, t.k # "V", NEW j, j = info',
         j.out = Append(info.out, t), j.ids = info.ids, j.nctrs = info.nctrs
  PROVE  Bound'
<1>1. PICK i : i = info
  OBVIOUS
<1>2. InfoFits(i) /\ IdsOK(i)
  BY <1>1 DEF Inv, InfoOK, Bound
<1>3. /\ IdsOK(j)
      /\ \A key : Weight(j.out, key) = Weight(i.out, key)
  BY <1>1, <1>2, IdsAppend
<1>4. ~ Loaded'
  BY DEF Walking, Loaded
<1>5. PutOK'
  BY <1>4 DEF PutOK
<1>6. PICK new, old : new = Owed' /\ old = Owed
  OBVIOUS
<1>7. new = j.out /\ old = i.out
  BY <1>1, <1>6 DEF Owed
<1>8. \A key : Weight(new, key) = Weight(Owed, key)
  BY <1>3, <1>6, <1>7, Zenon
<1> QED BY <1>3, <1>5, <1>6, <1>8, BoundWaits

(* Nothing is owed before the first dump. *)
LEMMA BoundInit == Init => Bound
<1> SUFFICES ASSUME Init PROVE Bound
  OBVIOUS
<1>1. /\ program \in Programs /\ phase = "begin" /\ lines = {}
      /\ info = IgProfDumpInfo(NoNumbers) /\ reader = FirstReader(program.key)
  BY DEF Init
<1>2. ~ Walking /\ ~ Loaded
  BY <1>1 DEF Walking, Loaded
<1>3. IdsOK(info)
  <2>1. NoNumbers \in [CounterDefs -> Int] /\ \A c \in CounterDefs : NoNumbers[c] = -1
    BY DEF NoNumbers
  <2>2. PICK i : i = info
    OBVIOUS
  <2>3. i.ids = NoNumbers /\ i.out = <<[k |-> "P"]>>
    BY <1>1, <2>1, <2>2, InfoStart
  <2> QED BY <2>1, <2>2, <2>3, IdsStart
<1>4. PICK r, out, D : r = reader /\ out = Owed /\ D = Dumped
  OBVIOUS
<1>5. out = <<>> /\ D = {}
  <2>1. CountersOf(lines) = {}
    BY <1>1 DEF CountersOf
  <2>2. Dumped = {}
    BY <2>1 DEF Dumped
  <2> QED BY <1>2, <1>4, <2>2 DEF Owed
<1>6. IsReader(r) /\ r.cost = << >>
  <2>1. PICK key, st, no, none, p : /\ key = program.key /\ st = "reading" /\ no = << >>
                                    /\ none = {} /\ p = "P"
    OBVIOUS
  <2>2. r = ReaderOf(key, none, no, st, no, no, no, none, no, p)
    BY <1>1, <1>4, <2>1, Zenon DEF FirstReader, ReaderOf
  <2> QED BY <2>1, <2>2, ReaderIs
<1>7. CostOK(r.cost) /\ Total(r.cost) = 0
  <2>1. PICK cost : cost = r.cost
    OBVIOUS
  <2>2. DOMAIN cost = {} /\ cost = [p \in DOMAIN cost |-> cost[p]]
    BY <1>6, <2>1
  <2>3. IsFiniteSet(DOMAIN cost)
    BY <2>2, FS_EmptySet
  <2>4. CostOK(cost)
    BY <2>2, <2>3 DEF CostOK
  <2>5. PICK f, S : f = [p \in DOMAIN cost |-> cost[p].freq] /\ S = DOMAIN cost
    OBVIOUS
  <2>6. SumFunctionOnSet(f, {}) = 0
    BY SumEmpty
  <2>7. Total(cost) = 0
    BY <2>2, <2>5, <2>6 DEF Total
  <2> QED BY <2>1, <2>4, <2>7
<1>8. ASSUME NEW key PROVE Total(r.cost) + Weight(out, key) <= Sum(Named(D, key), "ticks")
  <2>1. Named(D, key) = {}
    BY <1>5 DEF Named
  <2>2. PICK f : f = [c \in {} |-> CounterAt(c)["ticks"]]
    OBVIOUS
  <2>3. SumFunctionOnSet(f, {}) = 0
    BY SumEmpty
  <2>4. Sum(Named(D, key), "ticks") = 0
    BY <2>1, <2>2, <2>3 DEF Sum
  <2>5. <<>> \in Seq(Token)
    OBVIOUS
  <2>6. Weight(out, key) = 0
    BY <1>5, <2>5, WeightNat
  <2> QED BY <1>7, <2>4, <2>6
<1>9. CountFits(r, out, D)
  BY <1>6, <1>7, <1>8, Zenon DEF CountFits
<1>10. CountOK
  BY <1>4, <1>9 DEF CountOK
<1> QED BY <1>2, <1>3, <1>10 DEF Bound, PutOK

(* The header of a dump counts nothing. *)
LEMMA BoundBegin ==
  ASSUME Inv, Bound, Begin
  PROVE  Bound'
<1>1. /\ phase = "begin" /\ phase' = "frames" /\ info' = IgProfDumpInfo(info.ids)
      /\ program' = program /\ lines' = lines /\ reader' = reader
  BY DEF Begin
<1>2. ~ Walking /\ Walking' /\ ~ Loaded /\ ~ Loaded'
  BY <1>1 DEF Walking, Loaded
<1>3. PICK ids, j : ids = info.ids /\ j = info'
  OBVIOUS
<1>4. ids \in [CounterDefs -> Int] /\ \A c \in CounterDefs : ids[c] = -1
  BY <1>2, <1>3 DEF Inv, InfoOK, InfoFits
<1>5. j.ids = ids /\ j.out = <<[k |-> "P"]>>
  BY <1>1, <1>3, <1>4, InfoStart
<1>6. IdsOK(j) /\ \A key : Weight(j.out, key) = 0
  BY <1>4, <1>5, IdsStart
<1>7. PICK old, new, D, L : old = Owed /\ new = Owed' /\ D = Dumped /\ L = lines
  OBVIOUS
<1>8. old = <<>> /\ new = j.out
  BY <1>2, <1>3, <1>7 DEF Owed
<1>9. \A key : Weight(new, key) = Weight(old, key)
  <2> TAKE key
  <2>1. <<>> \in Seq(Token)
    OBVIOUS
  <2>2. Weight(old, key) = 0
    BY <1>8, <2>1, WeightNat
  <2> QED BY <1>6, <1>8, <2>2
<1>10. Dumped' = Dumped
  <2>1. D = CountersOf(L) /\ Dumped' = CountersOf(L)'
    BY <1>1, <1>7, AllDumped
  <2> QED BY <1>1, <1>7, <2>1, SameProgram
<1>11. PutOK'
  BY <1>2 DEF PutOK
<1> QED BY <1>1, <1>3, <1>6, <1>7, <1>9, <1>10, <1>11, BoundWaits

(* Nothing is put for the root. *)
LEMMA BoundEnterRoot ==
  ASSUME Inv, Bound, EnterRoot
  PROVE  Bound'
<1>1. /\ phase = "frames" /\ phase' = "frames"
      /\ info' = info /\ program' = program /\ lines' = lines /\ reader' = reader
  BY DEF EnterRoot
<1>2. Walking /\ Walking' /\ ~ Loaded'
  BY <1>1 DEF Walking, Loaded
<1>3. PICK j, new, D, L : j = info' /\ new = Owed' /\ D = Dumped /\ L = lines
  OBVIOUS
<1>4. IdsOK(j)
  BY <1>1, <1>3 DEF Bound
<1>5. new = Owed
  BY <1>1, <1>2, <1>3 DEF Owed
<1>6. Dumped' = Dumped
  <2>1. D = CountersOf(L) /\ Dumped' = CountersOf(L)'
    BY <1>1, <1>3, AllDumped
  <2> QED BY <1>1, <1>3, <2>1, SameProgram
<1>7. PutOK'
  BY <1>2 DEF PutOK
<1> QED BY <1>1, <1>3, <1>4, <1>5, <1>6, <1>7, BoundWaits

(* The line of a frame begins with no counter. *)
LEMMA BoundEnterFrame ==
  ASSUME Inv, Bound, EnterFrame
  PROVE  Bound'
<1>1. PICK tree, f, d, a, x, i, j :
        /\ tree = Buffer /\ f = Current.frame /\ d = Current.depth /\ a = tree[f].address
        /\ x = Here(f) /\ i = info /\ j = info'
  OBVIOUS
<1>2. /\ phase = "frames" /\ j = PutFrame(i, d, a) /\ program' = program /\ reader' = reader
  BY <1>1 DEF EnterFrame, ThisFrame
<1>3. /\ d \in Nat \ {0} /\ a \in Addresses /\ phase' = "counters"
      /\ \E t : FramePut(info, info', t, a)
  BY <1>1, EnterFrameWalk
<1>4. Walking /\ Walking'
  BY <1>2, <1>3 DEF Walking
<1>5. PICK t : FramePut(i, j, t, a)
  BY <1>1, <1>3
<1>6. t \in Token /\ j.out = Append(i.out, t) /\ j.ids = i.ids /\ j.nctrs = i.nctrs
  BY <1>5 DEF FramePut
<1>7. t.k # "V"
  <2>1. InfoFits(i)
    BY <1>1 DEF Inv, InfoOK
  <2> QED BY <1>2, <1>3, <1>6, <2>1, FrameIsNoCounter
<1>8. Dumped' = Dumped
  BY EnterFrameStep
<1> QED BY <1>1, <1>2, <1>4, <1>6, <1>7, <1>8, NoCounterPut

(* A counter is owed from now on, and it counts from now on as dumped. *)
LEMMA BoundNextCounter ==
  ASSUME Inv, Bound, NextCounter
  PROVE  Bound'
<1>1. PICK tree, f, ct, x, c : /\ tree = Buffer /\ f = Current.frame
                               /\ ct = ThisFrame.counters[ctr + 1] /\ x = Here(f)
                               /\ c = <<x, ctr + 1>>
  OBVIOUS
<1>2. /\ phase = "counters" /\ phase' = "counters" /\ info' = PutCounter(info, ct)
      /\ program' = program /\ reader' = reader
  BY <1>1 DEF NextCounter
<1>3. /\ ct \in Counter /\ c \in CountersOf(Frames) \ Dumped /\ CounterAt(c) = ct
      /\ Dumped' = Dumped \cup {c}
  BY <1>1, CounterWalk
<1>4. Walking /\ Walking' /\ ~ Loaded'
  BY <1>2 DEF Walking, Loaded
<1>5. PICK i, j, r, old, new, D, E : /\ i = info /\ j = info' /\ r = reader /\ old = Owed
                                     /\ new = Owed' /\ D = Dumped /\ E = Dumped'
  OBVIOUS
<1>6. InfoFits(i) /\ IdsOK(i) /\ j = PutCounter(i, ct) /\ i.out \in Seq(Token)
  BY <1>2, <1>5 DEF Inv, InfoOK, Bound, InfoFits
<1>7. /\ IdsOK(j)
      /\ \A key : Weight(j.out, key) = Weight(i.out, key) + (IF ct.def = key THEN ct.ticks ELSE 0)
  BY <1>3, <1>6, IdsCounter
<1>8. old = i.out /\ new = j.out
  BY <1>4, <1>5 DEF Owed
<1>9. \A key : Weight(old, key) \in Nat
  BY <1>6, <1>8, WeightNat
<1>10. \A key : Weight(new, key) = Weight(old, key) + (IF ct.def = key THEN ct.ticks ELSE 0)
  BY <1>7, <1>8, Zenon
<1>11. r.status = "reading" => CountFits(r, new, E)
  <2>1. r.status = "reading" => CountFits(r, old, D)
    BY <1>5 DEF Bound, CountOK
  <2>2. program \in Programs /\ IsFiniteSet(D)
    BY <1>5 DEF Inv, PhaseOK
  <2>3. D \in SUBSET CountersOf(Frames)
    BY <1>5, DumpedOnLines
  <2>4. c \in CountersOf(Frames) \ D /\ E = D \cup {c}
    BY <1>3, <1>5
  <2>5. CountFits(r, old, D) => CountFits(r, new, D \cup {c})
    BY <1>3, <1>9, <1>10, <2>2, <2>3, <2>4, CountMore
  <2> QED BY <2>1, <2>4, <2>5, Zenon
<1>12. CountOK'
  BY <1>2, <1>5, <1>11, CountStays
<1>13. IdsOK(info)'
  BY <1>5, <1>7 DEF IdsOK
<1> QED BY <1>4, <1>12, <1>13 DEF Bound, PutOK

(* The end of a line is no counter. *)
LEMMA BoundLeaveLine ==
  ASSUME Inv, Bound, LeaveLine
  PROVE  Bound'
<1>1. PICK i, j, t : i = info /\ j = info' /\ t = [k |-> "EOL"]
  OBVIOUS
<1>2. /\ phase = "counters" /\ phase' = "frames" /\ j = EndLine(i)
      /\ program' = program /\ reader' = reader
  BY <1>1 DEF LeaveLine
<1>3. Walking /\ Walking'
  BY <1>2 DEF Walking
<1>4. InfoFits(i)
  BY <1>1 DEF Inv, InfoOK
<1>5. t \in Token /\ j.out = Append(i.out, t) /\ j.nctrs = i.nctrs /\ j.ids = i.ids
  BY <1>1, <1>2, <1>4, EndOfLine
<1>6. t.k # "V"
  BY <1>1
<1>7. Dumped' = Dumped
  BY LineDumped
<1> QED BY <1>1, <1>2, <1>3, <1>5, <1>6, <1>7, NoCounterPut

(* What has been made of a dump is to be put as it is. *)
LEMMA BoundEndBuffer ==
  ASSUME Inv, Bound, EndBuffer
  PROVE  Bound'
<1>1. /\ phase = "frames" /\ phase' \in {"frames", "put"}
      /\ info' = [info EXCEPT !.ids = dumpResetIDs(@, Buffer)]
      /\ program' = program /\ lines' = lines /\ reader' = reader
      /\ buf' = buf /\ off' = off /\ file' = file
      /\ phase' = "put" => todo' = info.out
  BY DEF EndBuffer
<1>2. Walking /\ (Walking' \/ Loaded') /\ (Loaded' => phase' = "put")
  BY <1>1 DEF Walking, Loaded
<1>3. PICK i, j, new, D, L : /\ i = info /\ j = info' /\ new = Owed' /\ D = Dumped /\ L = lines
  OBVIOUS
<1>4. /\ j.nctrs = i.nctrs /\ j.out = i.out
      /\ \A c \in CounterDefs : j.ids[c] = -1
  <2>1. PICK ids : ids = dumpResetIDs(i.ids, Buffer)
    OBVIOUS
  <2>2. j = WithIds(i, ids)
    BY <1>1, <1>3, <2>1 DEF WithIds
  <2>3. InfoOK
    BY DEF Inv
  <2> QED BY <1>2, <1>3, <2>1, <2>2, <2>3, NumbersReset
<1>5. InfoFits(i) /\ IdsOK(i) /\ i.out \in Seq(Token)
  BY <1>3 DEF Inv, InfoOK, Bound, InfoFits
<1>6. IdsOK(j)
  BY <1>4, <1>5, IdsReset
<1>7. Owed = i.out /\ new = j.out
  BY <1>2, <1>3 DEF Owed
<1>8. Dumped' = Dumped
  <2>1. D = CountersOf(L) /\ Dumped' = CountersOf(L)'
    BY <1>1, <1>3, AllDumped
  <2> QED BY <1>1, <1>3, <2>1, SameProgram
<1>9. PutOK'
  <2> SUFFICES ASSUME Loaded' PROVE FromOut(Stream', info'.out)
    BY DEF PutOK, FromOut
  <2>1. PICK o, T : o = i.out /\ T = Token
    OBVIOUS
  <2>2. o \in Seq(T) /\ todo' = o /\ info'.out = o
    BY <1>1, <1>2, <1>3, <1>4, <1>5, <2>1
  <2>3. file = <<>> /\ buf = <<>> /\ off = 0
    BY <1>1 DEF Inv, StreamOK
  <2>4. Stream' = o
    <3>1. PICK e, z : e = <<>> /\ z = SubSeq(buf', off' + 1, Len(buf'))
      OBVIOUS
    <3>2. z = e
      BY <1>1, <2>3, <3>1, SubSeqEmpty
    <3>3. e \o e = e
      BY <3>1
    <3>4. e \o o = o
      BY <2>2, <3>1, ConcatEmptySeq
    <3> QED BY <1>1, <2>2, <2>3, <3>1, <3>2, <3>3, <3>4 DEF Stream
  <2>5. FromOut(o, o)
    BY <2>1, <2>2, OutFromOut
  <2> QED BY <2>2, <2>4, <2>5
<1>10. \A key : Weight(new, key) = Weight(Owed, key)
  BY <1>4, <1>7
<1> QED BY <1>1, <1>3, <1>6, <1>8, <1>9, <1>10, BoundWaits

(* What is on its way to the file, and what is lost of it *)
LEMMA BoundStream ==
  ASSUME Inv, Bound, UNCHANGED <<program, writer, reader>>, Loaded, Loaded',
         NEW s, s = Stream', FromOut(s, info.out)
  PROVE  Bound'
<1>1. program' = program /\ reader' = reader /\ info' = info
  BY DEF writer
<1>2. ~ Walking /\ ~ Walking'
  BY DEF Walking, Loaded
<1>3. PICK j, new, out : j = info' /\ new = Owed' /\ out = info.out
  OBVIOUS
<1>4. IdsOK(j)
  BY <1>1, <1>3 DEF Bound
<1>5. new = Owed
  BY <1>1, <1>3 DEF Owed
<1>6. Dumped' = Dumped
  BY <1>2, WriterRests
<1>7. PutOK'
  <2>1. FromOut(s, out)
    BY <1>3
  <2>2. out = info'.out
    BY <1>1, <1>3
  <2>3. FromOut(Stream', info'.out)
    BY <2>1, <2>2, Zenon
  <2> QED BY <2>3 DEF PutOK, FromOut
<1> QED BY <1>1, <1>3, <1>4, <1>5, <1>6, <1>7, BoundWaits

(* Putting a token loses nothing, *)
LEMMA BoundPutToken ==
  ASSUME Inv, Bound, PutToken
  PROVE  Bound'
<1>1. /\ phase = "put" /\ phase' \in {"put", "flush"}
      /\ UNCHANGED <<program, writer, reader>>
  BY DEF PutToken
<1>2. Loaded /\ Loaded'
  BY <1>1 DEF Loaded
<1>3. PICK s : s = Stream'
  OBVIOUS
<1>4. s = Stream
  BY <1>3, PutStays
<1>5. FromOut(s, info.out)
  BY <1>2, <1>4 DEF Bound, PutOK
<1> QED BY <1>1, <1>2, <1>3, <1>5, BoundStream

(* nor does writing. *)
LEMMA BoundWrite ==
  ASSUME Inv, Bound, NEW n \in 1..SIZE, Write(n)
  PROVE  Bound'
<1>1. /\ phase = "flush" /\ phase' \in {"flush", "put", "read"}
      /\ UNCHANGED <<program, writer, reader>>
  BY DEF Write, Flushed
<1>2. Loaded /\ Loaded'
  BY <1>1 DEF Loaded
<1>3. PICK s : s = Stream'
  OBVIOUS
<1>4. s = Stream
  BY <1>3, WriteStays
<1>5. FromOut(s, info.out)
  BY <1>2, <1>4 DEF Bound, PutOK
<1> QED BY <1>1, <1>2, <1>3, <1>5, BoundStream

(* A write that fails leaves a gap in what will be in the file. *)
LEMMA BoundWriteFails ==
  ASSUME Inv, Bound, NEW cut \in BOOLEAN, WriteFails(cut)
  PROVE  Bound'
<1>1. /\ phase = "flush" /\ phase' \in {"put", "read"}
      /\ UNCHANGED <<program, writer, todo, reader>>
      /\ buf' = <<>> /\ off' = 0 /\ file' = file
  BY DEF WriteFails, GiveUp, Flushed
<1>2. Loaded /\ Loaded'
  BY <1>1 DEF Loaded
<1>3. PICK f, m, t, out, s : /\ f = file /\ m = SubSeq(buf, off + 1, Len(buf)) /\ t = todo
                             /\ out = info.out /\ s = Stream'
  OBVIOUS
<1>4. /\ f \in Seq(Token) /\ buf \in Seq(Token) /\ t \in Seq(Token) /\ out \in Seq(Token)
      /\ off \in 0..(Len(buf) - 1)
  BY <1>1, <1>3 DEF Inv, StreamOK, InfoOK, InfoFits
<1>5. m \in Seq(Token)
  <2>1. PICK b, T, k : b = buf /\ T = Token /\ k = off
    OBVIOUS
  <2>2. b \in Seq(T) /\ Len(b) \in Nat /\ k \in 0..(Len(b) - 1)
    BY <1>4, <2>1, LenProperties
  <2>3. \A i \in (k + 1)..Len(b) : i \in 1..Len(b)
    BY <2>2
  <2>4. SubSeq(b, k + 1, Len(b)) \in Seq(T)
    BY <2>2, <2>3, SubSeqProperties
  <2> QED BY <1>3, <2>1, <2>4
<1>6. Stream = (f \o m) \o t
  BY <1>3 DEF Stream
<1>7. s = f \o t
  <2>1. SubSeq(buf', off' + 1, Len(buf')) = <<>>
    BY <1>1, SubSeqEmpty
  <2>2. f \o <<>> = f
    BY <1>4, ConcatEmptySeq
  <2> QED BY <1>1, <1>3, <2>1, <2>2 DEF Stream
<1>8. FromOut((f \o m) \o t, out)
  BY <1>2, <1>3, <1>6 DEF Bound, PutOK
<1>9. FromOut(f \o t, out)
  BY <1>3, <1>4, <1>5, <1>8, LessFromOut
<1>10. FromOut(s, info.out)
  BY <1>3, <1>7, <1>9
<1> QED BY <1>1, <1>2, <1>3, <1>10, BoundStream

(* The file is read: what it holds is owed no more. *)
LEMMA BoundRead ==
  ASSUME Inv, Bound, Read
  PROVE  Bound'
<1>1. /\ phase = "read" /\ phase' \in {"done", "begin"}
      /\ \/ reader.status = "reading" /\ reader' = Stopped(reader, "garbled")
         \/ reader' = readDump(reader, file)
      /\ program' = program /\ info' = info /\ UNCHANGED <<program, writer>>
  BY DEF Read, writer
<1>2. ~ Walking /\ Loaded /\ ~ Walking' /\ ~ Loaded'
  BY <1>1 DEF Walking, Loaded
<1>3. PICK r, q, s, out, D, new : /\ r = reader /\ q = reader' /\ s = file /\ out = info.out
                                  /\ D = Dumped /\ new = Owed'
  OBVIOUS
<1>4. new = <<>> /\ Owed = out
  BY <1>2, <1>3 DEF Owed
<1>5. Dumped' = D
  BY <1>1, <1>2, <1>3, WriterRests
<1>6. s \in Seq(Token) /\ out \in Seq(Token) /\ buf = <<>> /\ off = 0 /\ todo = <<>>
  BY <1>1, <1>3 DEF Inv, StreamOK, InfoOK, InfoFits
<1>7. FromOut(s, out)
  <2>1. SubSeq(buf, off + 1, Len(buf)) = <<>>
    BY <1>6, SubSeqEmpty
  <2>2. s \o <<>> = s
    BY <1>6, ConcatEmptySeq
  <2>3. Stream = s
    BY <1>3, <1>6, <2>1, <2>2 DEF Stream
  <2> QED BY <1>2, <1>3, <2>3 DEF Bound, PutOK
<1>8. q.status = "reading" => CountFits(q, new, D)
  <2> SUFFICES ASSUME q.status = "reading" PROVE CountFits(q, new, D)
    OBVIOUS
  <2>1. q = readDump(r, s)
    <3> SUFFICES ASSUME r.status = "reading", q = Stopped(r, "garbled") PROVE FALSE
      BY <1>1, <1>3
    <3>1. CountFits(r, out, D)
      BY <1>3, <1>4 DEF Bound, CountOK
    <3>2. IsReader(r)
      BY <3>1 DEF CountFits
    <3>3. q.status = "garbled"
      BY <3>2 DEF Stopped, IsReader
    <3> QED BY <3>3
  <2>2. r.status = "reading"
    <3>1. r.status # "reading" => q = r
      BY <2>1 DEF readDump
    <3> QED BY <3>1
  <2>3. CountFits(r, out, D)
    BY <1>3, <1>4, <2>2 DEF Bound, CountOK
  <2>4. IsReader(r) /\ CostOK(r.cost)
    BY <2>3 DEF CountFits
  <2>5. Coherent(s)
    <3>1. Coherent(out)
      BY <1>3 DEF Bound, IdsOK
    <3> QED BY <1>7, <3>1, FromCoherent
  <2>6. FileTaken(r, q, s)
    BY <1>6, <2>1, <2>4, <2>5, FileRead
  <2>7. /\ \A key : Weight(s, key) \in Nat /\ Weight(out, key) \in Nat
        /\ \A key : Weight(s, key) <= Weight(out, key)
    BY <1>6, <1>7, WeightNat DEF FromOut
  <2>8. program \in Programs /\ IsFiniteSet(D)
    BY <1>3 DEF Inv, PhaseOK
  <2>9. D \in SUBSET CountersOf(Frames)
    BY <1>3, DumpedOnLines
  <2>10. CountFits(q, <<>>, D)
    BY <2>3, <2>6, <2>7, <2>8, <2>9, CountRead
  <2> QED BY <1>4, <2>10
<1>9. CountOK'
  BY <1>1, <1>3, <1>5, <1>8, CountStays
<1>10. IdsOK(info)'
  BY <1>1 DEF Bound, IdsOK
<1> QED BY <1>2, <1>9, <1>10 DEF Bound, PutOK

(* Nothing changes. *)
LEMMA BoundNothing ==
  ASSUME Inv, Bound, UNCHANGED vars
  PROVE  Bound'
<1>1. /\ program' = program /\ phase' = phase /\ dump' = dump /\ buffer' = buffer
      /\ stack' = stack /\ ctr' = ctr /\ info' = info /\ lines' = lines /\ todo' = todo
      /\ buf' = buf /\ off' = off /\ file' = file /\ reader' = reader
  BY DEF vars
<1>2. Walking' = Walking /\ Loaded' = Loaded /\ Current' = Current /\ Stream' = Stream
  BY <1>1 DEF Walking, Loaded, Current, Stream
<1>3. PICK j, new, L, D : j = info' /\ new = Owed' /\ L = lines /\ D = Dumped
  OBVIOUS
<1>4. IdsOK(j)
  BY <1>1, <1>3 DEF Bound
<1>5. new = Owed
  BY <1>1, <1>2, <1>3 DEF Owed
<1>6. Dumped' = Dumped
  <2>1. CountersOf(lines)' = CountersOf(L)
    <3>1. CountersOf(lines)' = CountersOf(L)'
      BY <1>1, <1>3
    <3> QED BY <1>1, <3>1, SameProgram
  <2> QED BY <1>1, <1>2, <1>3, <2>1 DEF Dumped, Here
<1>7. PutOK'
  BY <1>1, <1>2 DEF Bound, PutOK, FromOut
<1> QED BY <1>1, <1>3, <1>4, <1>5, <1>6, <1>7, BoundWaits

(* Every step preserves the bound. *)
LEMMA StepBound == Inv /\ Bound /\ [Next]_vars => Bound'
<1> SUFFICES ASSUME Inv, Bound, [Next]_vars PROVE Bound'
  OBVIOUS
<1>1. CASE Begin
  BY <1>1, BoundBegin
<1>2. CASE EnterRoot
  BY <1>2, BoundEnterRoot
<1>3. CASE EnterFrame
  BY <1>3, BoundEnterFrame
<1>4. CASE NextCounter
  BY <1>4, BoundNextCounter
<1>5. CASE LeaveLine
  BY <1>5, BoundLeaveLine
<1>6. CASE EndBuffer
  BY <1>6, BoundEndBuffer
<1>7. CASE PutToken
  BY <1>7, BoundPutToken
<1>8. ASSUME NEW n \in 1..SIZE, Write(n) PROVE Bound'
  BY <1>8, BoundWrite
<1>9. ASSUME NEW cut \in BOOLEAN, WriteFails(cut) PROVE Bound'
  BY <1>9, BoundWriteFails
<1>10. CASE Read
  BY <1>10, BoundRead
<1>11. CASE UNCHANGED vars
  BY <1>11, BoundNothing
<1> QED BY <1>1, <1>2, <1>3, <1>4, <1>5, <1>6, <1>7, <1>8, <1>9, <1>10, <1>11 DEF Next

(* Whichever writes of FastIO fail, readDump() may get through what is left   *)
(* of the dumps: then, if no failure has cut a token in two, what it has      *)
(* counted of its key, over all call paths, is no more than the counters of   *)
(* that name have counted in what was dumped.                                 *)
THEOREM DamageBounded == Spec => []DamageOnlyLoses
<1>1. Init => Bound
  BY BoundInit
<1>2. Inv /\ Bound /\ [Next]_vars => Bound'
  BY StepBound
<1>3. Inv /\ Bound => DamageOnlyLoses
  <2> SUFFICES ASSUME Inv, Bound, phase = "done", reader.status = "reading"
               PROVE  SumFunction([p \in DOMAIN reader.cost |-> reader.cost[p].freq])
                        <= Sum(Named(CountersOf(Frames), reader.key), "ticks")
    BY DEF DamageOnlyLoses
  <2>1. ~ Walking /\ ~ Loaded /\ phase # "counters"
    BY DEF Walking, Loaded
  <2>2. lines = Frames
    BY AllLines
  <2>3. Dumped = CountersOf(Frames)
    BY <2>1, <2>2, AllDumped
  <2>4. Owed = <<>>
    BY <2>1 DEF Owed
  <2>5. PICK r, k, D : r = reader /\ k = r.key /\ D = CountersOf(Frames)
    OBVIOUS
  <2>6. CountFits(r, <<>>, D)
    BY <2>3, <2>4, <2>5 DEF Bound, CountOK
  <2>7. Total(r.cost) + Weight(<<>>, k) <= Sum(Named(D, k), "ticks") /\ CostOK(r.cost)
    BY <2>5, <2>6, Zenon DEF CountFits
  <2>8. Total(r.cost) \in Nat
    BY <2>7, TotalNat
  <2>9. Weight(<<>>, k) = 0
    <3>1. <<>> \in Seq(Token)
      OBVIOUS
    <3> QED BY <3>1, WeightNat
  <2>10. Total(r.cost) <= Sum(Named(D, k), "ticks")
    <3>1. PICK a, b : a = Total(r.cost) /\ b = Sum(Named(D, k), "ticks")
      OBVIOUS
    <3>2. a \in Nat /\ a + 0 <= b
      BY <2>7, <2>8, <2>9, <3>1
    <3>3. a + 0 = a
      BY <3>2
    <3> QED BY <3>1, <3>2, <3>3
  <2>11. Total(r.cost) = SumFunction([p \in DOMAIN r.cost |-> r.cost[p].freq])
    <3>1. PICK f, S : S = DOMAIN r.cost /\ f = [p \in S |-> r.cost[p].freq]
      OBVIOUS
    <3>2. DOMAIN f = S
      BY <3>1
    <3>3. SumFunction(f) = SumFunctionOnSet(f, S)
      BY <3>2 DEF SumFunction
    <3> QED BY <3>1, <3>3 DEF Total
  <2> QED BY <2>5, <2>10, <2>11, Zenon
<1> QED BY <1>1, <1>2, <1>3, Following, PTL DEF Spec
==================================================================================

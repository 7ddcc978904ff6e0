--------------------------- MODULE StackTreeProofs ---------------------------
(***************************************************************************)
(* Proofs about StackTree: the frames of a buffer are one tree with sorted *)
(* child lists, the call cache and the push in progress point into it, a   *)
(* frame has at most one counter of a kind, and what the samples cost is   *)
(* what the frames add up to, for any addresses, stacks, buffers,          *)
(* profilers and limits.                                                   *)
(*                                                                         *)
(* Costs move step by step: from the sample to the counters that wait to   *)
(* be ticked, from there to a frame, and in a merge from the frame of the  *)
(* source through the waiting counters to a frame of Master.  The ledger   *)
(* says that they add up at every step, for every set of paths that the    *)
(* call cache cannot confuse.                                              *)
(***************************************************************************)
EXTENDS StackTree, WellFoundedInduction, SequenceTheorems, SumTheorems, TLAPS

(* Every set of numbers but the empty one has a least element. *)
LEMMA LeastNat ==
  ASSUME NEW S \in SUBSET Nat, S # {}
  PROVE  \E x \in S : \A y \in S : x <= y
<1>1. PICK x \in S : \A y \in S : ~ (<<y, x>> \in OpToRel(<, Nat))
  BY WFMin, NatLessThanWellFounded
<1>2. \A y \in S : ~ (y < x)
  BY <1>1, Zenon DEF OpToRel
<1>3. \A y \in S : x <= y
  BY <1>2
<1> QED
  BY <1>3

(* The elements of a list of addresses are addresses, and so numbers. *)
LEMMA AddressList ==
  ASSUME NEW s \in Seq(Address)
  PROVE  /\ Len(s) \in Nat
         /\ \A i \in 1 .. Len(s) : s[i] \in Address
         /\ \A a \in Address : a \in Nat
         /\ \A i \in 1 .. Len(s) : s[i] \in Nat
<1>1. Len(s) \in Nat /\ \A i \in 1 .. Len(s) : s[i] \in Address
  OBVIOUS
<1>2. \A a \in Address : a \in Nat
  BY AddressAssumption
<1> QED
  BY <1>1, <1>2

(* The search of a child list stops at a place before which all addresses are
   smaller; the address at that place is not. *)
LEMMA PlaceFacts ==
  ASSUME NEW s \in Seq(Address), NEW a \in Address
  PROVE  /\ Place(s, a) \in 1 .. (Len(s) + 1)
         /\ \A i \in 1 .. Len(s) : i < Place(s, a) => s[i] < a
         /\ Place(s, a) <= Len(s) => s[Place(s, a)] >= a
<1> DEFINE stops == {i \in 1 .. Len(s) : s[i] >= a}
           p == Place(s, a)
<1>1. Len(s) \in Nat /\ a \in Nat /\ \A i \in 1 .. Len(s) : s[i] \in Nat
  BY AddressList
<1>2. p = IF stops = {} THEN Len(s) + 1
          ELSE CHOOSE i \in stops : \A j \in stops : i <= j
  BY DEF Place
<1>3. stops \in SUBSET (1 .. Len(s))
  OBVIOUS
<1>4. \A i \in 1 .. Len(s) : i \in stops <=> s[i] >= a
  OBVIOUS
<1> HIDE DEF stops, p
<1>5. CASE stops = {}
  <2>1. p = Len(s) + 1
    BY <1>2, <1>5
  <2>2. \A i \in 1 .. Len(s) : ~ (s[i] >= a)
    BY <1>4, <1>5
  <2> QED
    BY <1>1, <2>1, <2>2 DEF p
<1>6. CASE stops # {}
  <2>1. \E x \in stops : \A y \in stops : x <= y
    BY <1>3, <1>6, LeastNat
  <2>2. p = CHOOSE i \in stops : \A j \in stops : i <= j
    BY <1>2, <1>6
  <2>3. p \in stops /\ \A j \in stops : p <= j
    BY <2>1, <2>2
  <2>4. p \in 1 .. Len(s) /\ s[p] >= a
    BY <1>3, <1>4, <2>3
  <2>5. \A i \in 1 .. Len(s) : i < p => ~ (s[i] >= a)
    BY <1>3, <1>4, <2>3, <2>4
  <2>6. \A i \in 1 .. Len(s) : i < p => s[i] < a
    BY <1>1, <2>5
  <2> QED
    BY <1>1, <2>4, <2>6 DEF p
<1> QED
  BY <1>5, <1>6

(* In a sorted child list the search finds every address that is there. *)
LEMMA SearchFinds ==
  ASSUME NEW s \in Seq(Address), NEW a \in Elems(s), Ascending(s)
  PROVE  Known(s, a)
<1>1. PICK k \in 1 .. Len(s) : s[k] = a
  BY DEF Elems
<1>2. Len(s) \in Nat /\ a \in Nat /\ \A i \in 1 .. Len(s) : s[i] \in Nat
  BY <1>1, AddressList
<1>3. a \in Address
  BY <1>1
<1> DEFINE p == Place(s, a)
<1>4. /\ p \in 1 .. (Len(s) + 1)
      /\ \A i \in 1 .. Len(s) : i < p => s[i] < a
      /\ p <= Len(s) => s[p] >= a
  BY <1>3, PlaceFacts
<1> HIDE DEF p
<1>5. p <= k
  BY <1>1, <1>2, <1>4
<1>6. p \in 1 .. Len(s)
  BY <1>1, <1>2, <1>4, <1>5
<1>7. p < k => s[p] < s[k]
  BY <1>1, <1>6 DEF Ascending
<1>8. s[p] = a
  BY <1>1, <1>2, <1>4, <1>5, <1>6, <1>7
<1> QED
  BY <1>6, <1>8 DEF Known, p

(* A new child enters a sorted list so that it stays sorted, and nothing else
   enters or leaves the list. *)
LEMMA LinkedFacts ==
  ASSUME NEW s \in Seq(Address), NEW a \in Address, Ascending(s), ~ Known(s, a)
  PROVE  /\ Linked(s, a) \in Seq(Address)
         /\ Elems(Linked(s, a)) = Elems(s) \cup {a}
         /\ Ascending(Linked(s, a))
<1> DEFINE p == Place(s, a)
           t == Linked(s, a)
           n == Len(s)
<1>1. /\ n \in Nat /\ a \in Nat
      /\ \A i \in 1 .. n : s[i] \in Nat /\ s[i] \in Address
  BY AddressList
<1>2. /\ p \in 1 .. (n + 1)
      /\ \A i \in 1 .. n : i < p => s[i] < a
      /\ p <= n => s[p] >= a
  BY PlaceFacts
<1>3. p <= n => s[p] # a
  BY DEF Known
<1>4. t = [i \in 1 .. (n + 1) |->
             IF i < p THEN s[i] ELSE IF i = p THEN a ELSE s[i - 1]]
  BY DEF Linked
<1>5. \A i, j \in 1 .. n : i < j => s[i] < s[j]
  BY DEF Ascending
<1> HIDE DEF p, t, n
<1>6. \A i \in 1 .. n : i >= p => s[i] > a
  <2> SUFFICES ASSUME NEW i \in 1 .. n, i >= p PROVE s[i] > a
    OBVIOUS
  <2>1. p \in 1 .. n /\ s[p] > a
    BY <1>1, <1>2, <1>3
  <2>2. p < i => s[p] < s[i]
    BY <1>5, <2>1
  <2> QED
    BY <1>1, <2>1, <2>2
<1>7. t \in Seq(Address) /\ Len(t) = n + 1
  <2>1. t \in [1 .. (n + 1) -> Address]
    BY <1>1, <1>2, <1>4
  <2> QED
    BY <1>1, <1>4, <2>1
<1>8. \A i \in 1 .. (n + 1) : /\ i < p => i \in 1 .. n /\ t[i] = s[i]
                              /\ i = p => t[i] = a
                              /\ i > p => (i - 1) \in 1 .. n /\ t[i] = s[i - 1]
  BY <1>1, <1>2, <1>4
<1>9. Elems(t) \subseteq Elems(s) \cup {a}
  <2> SUFFICES ASSUME NEW i \in 1 .. (n + 1) PROVE t[i] \in Elems(s) \cup {a}
    BY <1>7 DEF Elems
  <2>1. \A j \in 1 .. n : s[j] \in Elems(s)
    BY DEF Elems, n
  <2>2. i < p \/ i = p \/ i > p
    BY <1>2
  <2> QED
    BY <1>8, <2>1, <2>2
<1>10. Elems(s) \cup {a} \subseteq Elems(t)
  <2>1. a \in Elems(t)
    BY <1>2, <1>7, <1>8 DEF Elems
  <2>2. ASSUME NEW i \in 1 .. n PROVE s[i] \in Elems(t)
    <3>1. CASE i < p
      <4>1. i \in 1 .. (n + 1) /\ t[i] = s[i]
        BY <1>1, <1>8, <3>1
      <4> QED
        BY <1>7, <4>1 DEF Elems
    <3>2. CASE i >= p
      <4>1. i + 1 \in 1 .. (n + 1) /\ i + 1 > p /\ (i + 1) - 1 = i
        BY <1>1, <1>2, <3>2
      <4>2. t[i + 1] = s[i]
        BY <1>8, <4>1
      <4> QED
        BY <1>7, <4>1, <4>2 DEF Elems
    <3> QED
      BY <1>1, <1>2, <3>1, <3>2
  <2> QED
    BY <2>1, <2>2 DEF Elems, n
<1>11. Ascending(t)
  <2> SUFFICES ASSUME NEW i \in 1 .. (n + 1), NEW j \in 1 .. (n + 1), i < j
               PROVE  t[i] < t[j]
    BY <1>7 DEF Ascending
  <2>1. CASE j < p
    BY <1>1, <1>2, <1>5, <1>8, <2>1
  <2>2. CASE j = p
    BY <1>1, <1>2, <1>8, <2>2
  <2>3. CASE j > p
    <3>1. (j - 1) \in 1 .. n /\ t[j] = s[j - 1]
      BY <1>8, <2>3
    <3>2. CASE i < p
      <4>1. i \in 1 .. n /\ t[i] = s[i] /\ i < j - 1
        BY <1>2, <1>8, <2>3, <3>2
      <4> QED
        BY <1>5, <3>1, <4>1
    <3>3. CASE i = p
      BY <1>1, <1>2, <1>6, <1>8, <2>3, <3>1, <3>3
    <3>4. CASE i > p
      <4>1. (i - 1) \in 1 .. n /\ t[i] = s[i - 1] /\ i - 1 < j - 1
        BY <1>8, <3>4
      <4> QED
        BY <1>5, <3>1, <4>1
    <3> QED
      BY <1>2, <3>2, <3>3, <3>4
  <2> QED
    BY <1>2, <2>1, <2>2, <2>3
<1> QED
  BY <1>7, <1>9, <1>10, <1>11 DEF t
-----------------------------------------------------------------------------
(* Nodes *)

(* A child's path determines its parent and its address. *)
LEMMA ChildPath ==
  ASSUME NEW f \in Seq(Address), NEW a \in Address
  PROVE  LET n == Append(f, a) IN
         /\ n \in Seq(Address)
         /\ Len(n) = Len(f) + 1
         /\ n[Len(n)] = a
         /\ Up(n) = f
         /\ n # Root
<1> DEFINE n == Append(f, a)
<1>1. /\ n \in Seq(Address) /\ Len(n) = Len(f) + 1 /\ Len(f) \in Nat
      /\ n[Len(f) + 1] = a
      /\ \A i \in 1 .. Len(f) : n[i] = f[i]
  BY AppendProperties
<1> HIDE DEF n
<1>2. n # Root
  BY <1>1 DEF Root
<1>3. Up(n) = f
  <2>1. Up(n) = SubSeq(n, 1, Len(f))
    BY <1>1 DEF Up
  <2>2. SubSeq(n, 1, Len(f)) = f
    BY <1>1, SubSeqProperties, SeqEqual
  <2> QED
    BY <2>1, <2>2
<1> QED
  BY <1>1, <1>2, <1>3 DEF n

(* A tree of child lists. *)
TreeOK(t) ==
  /\ DOMAIN t \subseteq Seq(Address)
  /\ \A n \in DOMAIN t : t[n] \in Seq(Address)
  /\ Rooted(t) /\ Closed(t) /\ Listed(t) /\ Sorted(t)

(* A known child exists. *)
LEMMA KnownChild ==
  ASSUME NEW t, TreeOK(t), NEW f \in DOMAIN t, NEW a \in Address, Known(t[f], a)
  PROVE  Append(f, a) \in DOMAIN t
<1>1. t[f] \in Seq(Address)
  BY DEF TreeOK
<1>2. Place(t[f], a) \in 1 .. Len(t[f]) /\ t[f][Place(t[f], a)] = a
  BY <1>1, PlaceFacts DEF Known
<1>3. a \in Elems(t[f])
  BY <1>2 DEF Elems
<1> QED
  BY <1>3 DEF TreeOK, Listed

(* Creating a child gives a tree again, with that one node added. *)
LEMMA GrownOK ==
  ASSUME NEW t, TreeOK(t), NEW f \in DOMAIN t, NEW a \in Address,
         ~ Known(t[f], a)
  PROVE  /\ TreeOK(Grown(t, f, a))
         /\ DOMAIN Grown(t, f, a) = DOMAIN t \cup {Append(f, a)}
<1> DEFINE new == Append(f, a)
           u == Grown(t, f, a)
           l == Linked(t[f], a)
<1>1. /\ DOMAIN t \subseteq Seq(Address) /\ f \in Seq(Address)
      /\ \A n \in DOMAIN t : t[n] \in Seq(Address) /\ Ascending(t[n])
  BY DEF TreeOK, Sorted
<1>2. /\ new \in Seq(Address) /\ new[Len(new)] = a /\ Up(new) = f
      /\ new # Root
  BY <1>1, ChildPath
<1>3. /\ l \in Seq(Address) /\ Elems(l) = Elems(t[f]) \cup {a} /\ Ascending(l)
  BY <1>1, LinkedFacts
<1>4. new \notin DOMAIN t
  <2> SUFFICES ASSUME new \in DOMAIN t PROVE FALSE
    OBVIOUS
  <2>1. a \in Elems(t[f])
    BY <1>2 DEF TreeOK, Closed
  <2> QED
    BY <1>1, <2>1, SearchFinds
<1>5. /\ DOMAIN u = DOMAIN t \cup {new}
      /\ u[f] = l
      /\ u[new] = <<>>
      /\ \A n \in DOMAIN t : n # f => u[n] = t[n]
  BY <1>4 DEF Grown
<1> HIDE DEF new, u, l
<1>6. Ascending(<<>>) /\ Elems(<<>>) = {} /\ <<>> \in Seq(Address)
  BY DEF Ascending, Elems
<1>7. /\ DOMAIN u \subseteq Seq(Address)
      /\ \A n \in DOMAIN u : u[n] \in Seq(Address) /\ Ascending(u[n])
  BY <1>1, <1>2, <1>3, <1>5, <1>6
<1>8. Rooted(u)
  BY <1>5 DEF TreeOK, Rooted
<1>9. \A n \in DOMAIN t : Elems(t[n]) \subseteq Elems(u[n])
  BY <1>3, <1>5
<1>10. Closed(u)
  <2> SUFFICES ASSUME NEW n \in DOMAIN u \ {Root}
               PROVE  Up(n) \in DOMAIN u /\ n[Len(n)] \in Elems(u[Up(n)])
    BY DEF Closed
  <2>1. CASE n = new
    BY <1>2, <1>3, <1>5, <2>1
  <2>2. CASE n \in DOMAIN t
    <3>1. Up(n) \in DOMAIN t /\ n[Len(n)] \in Elems(t[Up(n)])
      BY <2>2 DEF TreeOK, Closed
    <3> QED
      BY <1>5, <1>9, <3>1
  <2> QED
    BY <1>5, <2>1, <2>2
<1>11. Listed(u)
  <2> SUFFICES ASSUME NEW n \in DOMAIN u, NEW c \in Elems(u[n])
               PROVE  Append(n, c) \in DOMAIN u
    BY DEF Listed
  <2>1. CASE n = new
    BY <1>5, <1>6, <2>1
  <2>2. CASE n = f
    <3>1. CASE c = a
      BY <1>5, <2>2, <3>1 DEF new
    <3>2. CASE c \in Elems(t[f])
      BY <1>5, <2>2, <3>2 DEF TreeOK, Listed
    <3> QED
      BY <1>3, <1>5, <2>2, <3>1, <3>2
  <2>3. CASE n \in DOMAIN t /\ n # f
    BY <1>5, <2>3 DEF TreeOK, Listed
  <2> QED
    BY <1>5, <2>1, <2>2, <2>3
<1> QED
  BY <1>5, <1>7, <1>8, <1>10, <1>11 DEF TreeOK, Sorted, u, new

(* A fresh buffer is a tree with nothing but its root. *)
LEMMA EmptyTreeOK ==
  TreeOK(EmptyKids) /\ DOMAIN EmptyKids = {Root}
<1>1. DOMAIN EmptyKids = {Root} /\ EmptyKids[Root] = <<>>
  BY DEF EmptyKids
<1>2. Ascending(<<>>) /\ Elems(<<>>) = {} /\ <<>> \in Seq(Address)
  BY DEF Ascending, Elems
<1>3. Root \in Seq(Address)
  BY DEF Root
<1> HIDE DEF EmptyKids
<1> QED
  BY <1>1, <1>2, <1>3 DEF TreeOK, Rooted, Closed, Listed, Sorted
-----------------------------------------------------------------------------
(* The inductive invariant *)

Slot == 0 .. (MaxDepth - 1)
Entry == [address : Address \cup {0}, frame : Seq(Address)]

TreesOK == DOMAIN kids = Buffer /\ \A b \in Buffer : TreeOK(kids[b])
CachesOK == /\ cache \in [Buffer -> [Slot -> Entry]]
            /\ \A b \in Buffer : CacheGood(b)
CallType(c) == /\ c = [active |-> c.active, buf |-> c.buf, stack |-> c.stack,
                       i |-> c.i, valid |-> c.valid, frame |-> c.frame,
                       ticks |-> c.ticks]
               /\ c.buf \in Buffer
               /\ c.stack \in Seq(Address \cup {0})
               /\ c.i \in Nat
               /\ c.frame \in Seq(Address)
TodoOK == src # NoBuffer => src \in Buffer /\ todo \in Seq(Nodes(src))

IInv == TreesOK /\ CachesOK /\ CallType(call) /\ CallGood /\ TodoOK

(* The invariant holds in a fresh process. *)
LEMMA InitOK == Init => IInv
<1> SUFFICES ASSUME Init PROVE IInv
  OBVIOUS
<1>1. TreesOK
  <2>1. DOMAIN kids = Buffer /\ \A b \in Buffer : kids[b] = EmptyKids
    BY DEF Init
  <2> QED
    BY <2>1, EmptyTreeOK DEF TreesOK
<1>2. CachesOK
  <2>1. NoEntry \in Entry /\ NoEntry.address = 0
    BY DEF NoEntry, Entry, Root
  <2>2. EmptyCache \in [Slot -> Entry] /\ \A i \in Slot : EmptyCache[i] = NoEntry
    BY <2>1 DEF EmptyCache, Slot
  <2>3. cache \in [Buffer -> [Slot -> Entry]]
    BY <2>2 DEF Init
  <2>4. \A b \in Buffer : cache[b] = EmptyCache
    BY DEF Init
  <2> QED
    BY <2>1, <2>2, <2>3, <2>4 DEF CachesOK, CacheGood, Slot
<1>3. CallType(call) /\ ~ call.active
  BY MasterAssumption DEF Init, NoCall, CallType, Root
<1> QED
  BY <1>1, <1>2, <1>3 DEF IInv, CallGood, TodoOK, Init

(* Steps that leave trees and caches alone keep what is said of them. *)
LEMMA SameTrees ==
  ASSUME IInv, UNCHANGED <<kids, cache>>
  PROVE  TreesOK' /\ CachesOK'
<1>1. TreesOK'
  BY DEF IInv, TreesOK
<1>2. CachesOK'
  BY DEF IInv, CachesOK, CacheGood, Nodes
<1> QED
  BY <1>1, <1>2

(* A push starts at the root of an existing tree. *)
LEMMA BeginOK ==
  ASSUME IInv, NEW b \in Buffer, NEW stack \in Seq(Address \cup {0}), NEW ticks,
         Begin(b, stack, ticks), UNCHANGED <<kids, cache>>
  PROVE  CallType(call)' /\ CallGood'
<1>1. call' = [active |-> TRUE, buf |-> b, stack |-> stack, i |-> 0,
               valid |-> TRUE, frame |-> Root, ticks |-> ticks]
  BY DEF Begin
<1>2. /\ call'.active = TRUE /\ call'.buf = b /\ call'.stack = stack
      /\ call'.i = 0 /\ call'.frame = Root /\ call'.ticks = ticks
      /\ call'.valid = TRUE
  BY <1>1
<1>3. Root \in Seq(Address) /\ Len(Root) = 0
  BY DEF Root
<1>4. CallType(call')
  BY <1>1, <1>2, <1>3 DEF CallType
<1>5. Root \in DOMAIN kids[b]
  BY DEF IInv, TreesOK, TreeOK, Rooted
<1>6. 0 <= MaxDepth
  BY LimitAssumption
<1> QED
  BY <1>2, <1>3, <1>4, <1>5, <1>6 DEF CallGood, CallType, Nodes

(* Sampling a stack begins a push. *)
LEMMA SampleOK ==
  ASSUME IInv, NEW b \in Buffer, NEW s \in Stacks, NEW v \in profiler.amounts,
         Sample(b, s, v)
  PROVE  IInv'
<1>1. Begin(b, s, SampleTicks(v)) /\ UNCHANGED <<tree, merge>>
  BY DEF Sample
<1>2. UNCHANGED <<kids, cache>> /\ UNCHANGED <<src, todo>>
  BY <1>1 DEF tree, merge
<1>3. s \in Seq(Address \cup {0})
  BY StackAssumption
<1>4. CallType(call)' /\ CallGood'
  BY <1>1, <1>2, <1>3, BeginOK
<1>5. TodoOK'
  BY <1>2 DEF IInv, TodoOK, Nodes
<1> QED
  BY <1>2, <1>4, <1>5, SameTrees DEF IInv

(* The address a push looks at is a real one. *)
LEMMA WalkFacts ==
  ASSUME IInv, Walking
  PROVE  /\ call.i \in Slot
         /\ call.stack[call.i + 1] \in Address
         /\ call.buf \in Buffer
         /\ call.frame \in DOMAIN kids[call.buf]
         /\ Len(call.frame) = call.i
         /\ call.i + 1 <= MaxDepth
<1>1. /\ call.active /\ call.i < Len(call.stack) /\ call.i < MaxDepth
      /\ call.stack[call.i + 1] # 0
  BY DEF Walking
<1>2. /\ call.stack \in Seq(Address \cup {0}) /\ call.i \in Nat
      /\ call.buf \in Buffer
  BY DEF IInv, CallType
<1>3. call.i + 1 \in 1 .. Len(call.stack)
  BY <1>1, <1>2
<1>4. call.stack[call.i + 1] \in Address \cup {0}
  BY <1>2, <1>3
<1>5. call.i \in Slot /\ call.i + 1 <= MaxDepth
  BY <1>1, <1>2, LimitAssumption DEF Slot
<1> QED
  BY <1>1, <1>2, <1>4, <1>5 DEF IInv, CallGood, Nodes

(* A hit in the call cache leads to a node one level down. *)
LEMMA PushHitOK ==
  ASSUME IInv, PushHit
  PROVE  IInv'
<1> DEFINE e == cache[call.buf][call.i]
<1>1. /\ Walking /\ e.address = call.stack[call.i + 1]
      /\ call' = [call EXCEPT !.frame = e.frame, !.i = call.i + 1]
      /\ UNCHANGED <<tree, merge>>
  BY DEF PushHit, Cached
<1>2. UNCHANGED <<kids, cache>> /\ UNCHANGED <<src, todo>>
  BY <1>1 DEF tree, merge
<1>3. e.address # 0
  BY <1>1 DEF Walking
<1>4. /\ e.frame \in DOMAIN kids[call.buf] /\ Len(e.frame) = call.i + 1
      /\ call.i \in Nat /\ call.buf \in Buffer /\ call.i + 1 <= MaxDepth
  BY <1>1, <1>3, WalkFacts DEF IInv, CachesOK, CacheGood, Slot, Nodes
<1>5. e.frame \in Seq(Address)
  BY <1>4 DEF IInv, TreesOK, TreeOK
<1> HIDE DEF e
<1>6. call' = [active |-> call.active, buf |-> call.buf, stack |-> call.stack,
               i |-> call.i + 1, valid |-> call.valid, frame |-> e.frame,
               ticks |-> call.ticks]
  BY <1>1 DEF IInv, CallType
<1>7. /\ call'.active = call.active /\ call'.buf = call.buf
      /\ call'.stack = call.stack /\ call'.i = call.i + 1
      /\ call'.valid = call.valid /\ call'.frame = e.frame
      /\ call'.ticks = call.ticks
  BY <1>6
<1>8. call.stack \in Seq(Address \cup {0})
  BY DEF IInv, CallType
<1>9. CallType(call')
  BY <1>4, <1>5, <1>6, <1>7, <1>8 DEF CallType
<1>10. CallGood'
  BY <1>2, <1>4, <1>7 DEF CallGood, Nodes
<1>11. TodoOK'
  BY <1>2 DEF IInv, TodoOK, Nodes
<1> QED
  BY <1>2, <1>9, <1>10, <1>11, SameTrees DEF IInv, CallType
(* childStackNode leaves a tree behind in which the child exists, and which
   has every node it had before. *)
LEMMA ChildOK ==
  ASSUME IInv, NEW b \in Buffer, NEW f \in DOMAIN kids[b], NEW a \in Address,
         ChildStackNode(b, f, a)
  PROVE  /\ TreesOK'
         /\ Append(f, a) \in DOMAIN kids'[b]
         /\ \A c \in Buffer : DOMAIN kids[c] \subseteq DOMAIN kids'[c]
<1>1. TreeOK(kids[b]) /\ DOMAIN kids = Buffer
  BY DEF IInv, TreesOK
<1>2. CASE Known(kids[b][f], a)
  <2>1. kids' = kids
    BY <1>2 DEF ChildStackNode
  <2>2. Append(f, a) \in DOMAIN kids[b]
    BY <1>1, <1>2, KnownChild
  <2> QED
    BY <2>1, <2>2 DEF IInv, TreesOK
<1>3. CASE ~ Known(kids[b][f], a)
  <2> DEFINE u == Grown(kids[b], f, a)
  <2>1. kids' = [kids EXCEPT ![b] = u]
    BY <1>3 DEF ChildStackNode
  <2>2. TreeOK(u) /\ DOMAIN u = DOMAIN kids[b] \cup {Append(f, a)}
    BY <1>1, <1>3, GrownOK
  <2> HIDE DEF u
  <2>3. DOMAIN kids' = Buffer
    BY <1>1, <2>1
  <2>4. kids'[b] = u /\ \A c \in Buffer : c # b => kids'[c] = kids[c]
    BY <1>1, <2>1
  <2>5. \A c \in Buffer : TreeOK(kids[c])
    BY DEF IInv, TreesOK
  <2>6. TreesOK'
    BY <2>2, <2>3, <2>4, <2>5 DEF TreesOK
  <2>7. \A c \in Buffer : DOMAIN kids[c] \subseteq DOMAIN kids'[c]
    BY <2>2, <2>4
  <2> QED
    BY <2>2, <2>4, <2>6, <2>7
<1> QED
  BY <1>2, <1>3

(* A miss in the call cache ends in a node one level down, and the cache slot
   describes that node. *)
LEMMA PushMissOK ==
  ASSUME IInv, PushMiss
  PROVE  IInv'
<1> DEFINE a == call.stack[call.i + 1]
           new == Append(call.frame, a)
           e == [address |-> a, frame |-> new]
           b == call.buf
           j == call.i
<1>1. /\ Walking
      /\ ChildStackNode(b, call.frame, a)
      /\ cache' = [cache EXCEPT ![b][j] = e]
      /\ call' = [call EXCEPT !.frame = new, !.i = j + 1, !.valid = FALSE]
      /\ UNCHANGED merge
  BY DEF PushMiss
<1>2. /\ j \in Slot /\ a \in Address /\ b \in Buffer
      /\ call.frame \in DOMAIN kids[b] /\ Len(call.frame) = j
      /\ j + 1 <= MaxDepth
  BY <1>1, WalkFacts
<1>3. j \in Nat /\ call.stack \in Seq(Address \cup {0})
      /\ call.frame \in Seq(Address)
  BY DEF IInv, CallType
<1>4. call' = [active |-> call.active, buf |-> b, stack |-> call.stack,
               i |-> j + 1, valid |-> FALSE, frame |-> new,
               ticks |-> call.ticks]
  BY <1>1 DEF IInv, CallType
<1>5. /\ TreesOK'
      /\ new \in DOMAIN kids'[b]
      /\ \A c \in Buffer : DOMAIN kids[c] \subseteq DOMAIN kids'[c]
  BY <1>1, <1>2, ChildOK
<1>6. /\ new \in Seq(Address) /\ Len(new) = j + 1 /\ new[j + 1] = a
  BY <1>2, <1>3, ChildPath
<1>7. e \in Entry /\ e.frame = new /\ e.address = a
  BY <1>2, <1>6 DEF Entry
<1> HIDE DEF a, new, e
<1>8. /\ cache' \in [Buffer -> [Slot -> Entry]]
      /\ cache'[b][j] = e
      /\ \A c \in Buffer : \A i \in Slot :
            (c # b \/ i # j) => cache'[c][i] = cache[c][i]
  <2>1. cache \in [Buffer -> [Slot -> Entry]]
    BY DEF IInv, CachesOK
  <2> DEFINE row == [cache[b] EXCEPT ![j] = e]
  <2>2. cache' = [cache EXCEPT ![b] = row]
    BY <1>1
  <2>3. /\ row \in [Slot -> Entry] /\ row[j] = e
        /\ \A i \in Slot : i # j => row[i] = cache[b][i]
    BY <1>2, <1>7, <2>1
  <2> HIDE DEF row
  <2>4. /\ cache' \in [Buffer -> [Slot -> Entry]] /\ cache'[b] = row
        /\ \A c \in Buffer : c # b => cache'[c] = cache[c]
    BY <1>2, <2>1, <2>2, <2>3
  <2> QED
    BY <1>2, <2>3, <2>4
<1>9. CachesOK'
  <2> SUFFICES ASSUME NEW c \in Buffer, NEW i \in Slot,
                      cache'[c][i].address # 0
               PROVE  /\ cache'[c][i].frame \in DOMAIN kids'[c]
                      /\ Len(cache'[c][i].frame) = i + 1
                      /\ cache'[c][i].frame[i + 1] = cache'[c][i].address
    BY <1>8 DEF CachesOK, CacheGood, Slot, Nodes
  <2>1. CASE c = b /\ i = j
    BY <1>5, <1>6, <1>7, <1>8, <2>1
  <2>2. CASE c # b \/ i # j
    <3>1. cache'[c][i] = cache[c][i]
      BY <1>8, <2>2
    <3>2. /\ cache[c][i].frame \in DOMAIN kids[c]
          /\ Len(cache[c][i].frame) = i + 1
          /\ cache[c][i].frame[i + 1] = cache[c][i].address
      BY <3>1 DEF IInv, CachesOK, CacheGood, Slot, Nodes
    <3> QED
      BY <1>5, <3>1, <3>2
  <2> QED
    BY <2>1, <2>2
<1>10. /\ call'.active = call.active /\ call'.buf = b
       /\ call'.stack = call.stack /\ call'.i = j + 1
       /\ call'.valid = FALSE /\ call'.frame = new
       /\ call'.ticks = call.ticks
  BY <1>4
<1>11. CallType(call')
  BY <1>2, <1>3, <1>4, <1>6, <1>10 DEF CallType
<1>12. CallGood'
  BY <1>2, <1>5, <1>6, <1>10 DEF CallGood, Nodes
<1>13. TodoOK'
  <2>1. src' = src /\ todo' = todo
    BY <1>1 DEF merge
  <2> SUFFICES ASSUME src # NoBuffer
               PROVE  src \in Buffer /\ todo \in Seq(DOMAIN kids'[src])
    BY <2>1 DEF TodoOK, Nodes
  <2>2. src \in Buffer /\ todo \in Seq(DOMAIN kids[src])
    BY DEF IInv, TodoOK, Nodes
  <2>3. DOMAIN kids[src] \subseteq DOMAIN kids'[src]
    BY <1>5, <2>2
  <2> QED
    BY <2>2, <2>3
<1> QED
  BY <1>5, <1>9, <1>11, <1>12, <1>13 DEF IInv, CallType

(* Ticking counters does not touch the tree. *)
LEMMA TickFrameOK ==
  ASSUME IInv, TickFrame
  PROVE  IInv'
<1> DEFINE ts == Tail(call.ticks)
<1>1. /\ call' = [call EXCEPT !.ticks = ts]
      /\ UNCHANGED <<kids, cache>> /\ UNCHANGED <<src, todo>>
  BY DEF TickFrame, merge
<1> HIDE DEF ts
<1>2. call' = [active |-> call.active, buf |-> call.buf, stack |-> call.stack,
               i |-> call.i, valid |-> call.valid, frame |-> call.frame,
               ticks |-> ts]
  BY <1>1 DEF IInv, CallType
<1>3. /\ call'.active = call.active /\ call'.buf = call.buf
      /\ call'.stack = call.stack /\ call'.i = call.i
      /\ call'.valid = call.valid /\ call'.frame = call.frame
      /\ call'.ticks = ts
  BY <1>2
<1>4. CallType(call')
  BY <1>2, <1>3 DEF IInv, CallType
<1>5. CallGood'
  BY <1>1, <1>3 DEF IInv, CallGood, Nodes
<1>6. TodoOK'
  BY <1>1 DEF IInv, TodoOK, Nodes
<1> QED
  BY <1>1, <1>4, <1>5, <1>6, SameTrees DEF IInv, CallType

(* Steps that change neither trees, caches, call nor merge keep it all. *)
LEMMA SameOK ==
  ASSUME IInv, UNCHANGED <<kids, cache, call, src, todo>>
  PROVE  IInv'
<1>1. TreesOK' /\ CachesOK'
  BY SameTrees
<1>2. CallType(call)' /\ CallGood' /\ TodoOK'
  BY DEF IInv, CallType, CallGood, TodoOK, Nodes
<1> QED
  BY <1>1, <1>2 DEF IInv

(* A call that returns is over. *)
LEMMA ReturnOK ==
  ASSUME IInv, Return
  PROVE  IInv'
<1>1. call' = NoCall /\ UNCHANGED <<kids, cache>> /\ UNCHANGED <<src, todo>>
  BY DEF Return, tree, merge
<1>2. CallType(call') /\ ~ call'.active
  BY <1>1, MasterAssumption DEF NoCall, CallType, Root
<1>3. TodoOK'
  BY <1>1 DEF IInv, TodoOK, Nodes
<1> QED
  BY <1>1, <1>2, <1>3, SameTrees DEF IInv, CallGood, CallType

(* A tuple of one element is a sequence. *)
LEMMA Singleton ==
  ASSUME NEW S, NEW x \in S
  PROVE  <<x>> \in Seq(S)
OBVIOUS

(* A function on 1 .. n is a sequence. *)
LEMMA SequenceOf ==
  ASSUME NEW S, NEW n \in Nat, NEW f \in [1 .. n -> S]
  PROVE  f \in Seq(S)
OBVIOUS

(* A merge begins with the root of its source. *)
LEMMA MergeBeginOK ==
  ASSUME IInv, NEW b \in Buffer, MergeBegin(b)
  PROVE  IInv'
<1>1. /\ src' = b /\ todo' = <<Root>> /\ UNCHANGED <<kids, cache>>
      /\ call' = call
  BY DEF MergeBegin, tree
<1>2. Root \in DOMAIN kids[b]
  BY DEF IInv, TreesOK, TreeOK, Rooted
<1>3. <<Root>> \in Seq(DOMAIN kids[b])
  BY <1>2, Singleton
<1>4. TodoOK'
  BY <1>1, <1>3 DEF TodoOK, Nodes
<1>5. CallType(call)' /\ CallGood'
  BY <1>1 DEF IInv, CallType, CallGood, Nodes
<1> QED
  BY <1>1, <1>4, <1>5, SameTrees DEF IInv

(* Merging a frame pushes its path and leaves its children to be merged. *)
LEMMA MergeFrameOK ==
  ASSUME IInv, MergeFrame
  PROVE  IInv'
<1> DEFINE n == Head(todo)
           ks == kids[src][n]
           below == [i \in 1 .. Len(ks) |-> Append(n, ks[i])]
<1>1. /\ src # NoBuffer /\ todo # <<>>
      /\ Begin(Master, n, ctrs[src][n])
      /\ todo' = below \o Tail(todo)
      /\ UNCHANGED <<kids, cache>> /\ src' = src
  BY DEF MergeFrame, tree
<1>2. src \in Buffer /\ todo \in Seq(DOMAIN kids[src])
  BY <1>1 DEF IInv, TodoOK, Nodes
<1>3. n \in DOMAIN kids[src] /\ Tail(todo) \in Seq(DOMAIN kids[src])
  BY <1>1, <1>2
<1>4. n \in Seq(Address) /\ ks \in Seq(Address)
  BY <1>2, <1>3 DEF IInv, TreesOK, TreeOK
<1>5. n \in Seq(Address \cup {0})
  BY <1>4
<1>6. CallType(call)' /\ CallGood'
  BY <1>1, <1>5, MasterAssumption, BeginOK
<1>7. below \in Seq(DOMAIN kids[src])
  <2>1. Len(ks) \in Nat
    BY <1>4
  <2>2. ASSUME NEW i \in 1 .. Len(ks) PROVE Append(n, ks[i]) \in DOMAIN kids[src]
    <3>1. ks[i] \in Elems(ks)
      BY DEF Elems
    <3> QED
      BY <1>2, <1>3, <3>1 DEF IInv, TreesOK, TreeOK, Listed
  <2>3. below \in [1 .. Len(ks) -> DOMAIN kids[src]]
    BY <2>2
  <2> HIDE DEF below
  <2> QED
    BY <2>1, <2>3, SequenceOf
<1> HIDE DEF below, n
<1>8. todo' \in Seq(DOMAIN kids[src])
  BY <1>1, <1>3, <1>7
<1>9. TodoOK'
  BY <1>1, <1>2, <1>8 DEF TodoOK, Nodes
<1> QED
  BY <1>1, <1>6, <1>9, SameTrees DEF IInv

(* An emptied buffer has a fresh tree and a fresh cache. *)
LEMMA EmptiedOK ==
  ASSUME IInv, NEW B \in SUBSET Buffer, Emptied(B)
  PROVE  TreesOK' /\ CachesOK'
<1>1. /\ kids' = [b \in Buffer |-> IF b \in B THEN EmptyKids ELSE kids[b]]
      /\ cache' = [b \in Buffer |-> IF b \in B THEN EmptyCache ELSE cache[b]]
  BY DEF Emptied
<1>2. TreesOK'
  <2>1. DOMAIN kids' = Buffer /\ \A b \in Buffer : TreeOK(kids'[b])
    BY <1>1, EmptyTreeOK DEF IInv, TreesOK
  <2> QED
    BY <2>1 DEF TreesOK
<1>3. NoEntry \in Entry /\ NoEntry.address = 0
  BY DEF NoEntry, Entry, Root
<1>4. EmptyCache \in [Slot -> Entry] /\ \A i \in Slot : EmptyCache[i] = NoEntry
  BY <1>3 DEF EmptyCache, Slot
<1>5. cache \in [Buffer -> [Slot -> Entry]]
  BY DEF IInv, CachesOK
<1>6. cache' \in [Buffer -> [Slot -> Entry]]
  BY <1>1, <1>4, <1>5
<1>7. ASSUME NEW b \in Buffer PROVE CacheGood(b)'
  <2>1. CASE b \in B
    <3>1. cache'[b] = EmptyCache
      BY <1>1, <2>1
    <3> QED
      BY <1>3, <1>4, <3>1 DEF CacheGood, Slot
  <2>2. CASE b \notin B
    <3>1. cache'[b] = cache[b] /\ kids'[b] = kids[b]
      BY <1>1, <2>2
    <3> QED
      BY <3>1 DEF IInv, CachesOK, CacheGood, Nodes
  <2> QED
    BY <2>1, <2>2
<1> QED
  BY <1>2, <1>6, <1>7 DEF CachesOK

(* The merged buffer is deleted while no push is in progress. *)
LEMMA MergeEndOK ==
  ASSUME IInv, MergeEnd
  PROVE  IInv'
<1>1. /\ Emptied({src}) /\ src # NoBuffer /\ ~ call.active
      /\ src' = NoBuffer /\ call' = call
  BY DEF MergeEnd
<1>2. {src} \in SUBSET Buffer
  BY <1>1 DEF IInv, TodoOK
<1>3. TreesOK' /\ CachesOK'
  BY <1>1, <1>2, EmptiedOK
<1>4. CallType(call)' /\ CallGood' /\ TodoOK'
  BY <1>1 DEF IInv, CallType, CallGood, TodoOK
<1> QED
  BY <1>3, <1>4 DEF IInv

(* A reset happens while no push and no merge is in progress. *)
LEMMA ResetOK ==
  ASSUME IInv, Reset
  PROVE  IInv'
<1>1. /\ Emptied(Buffer) /\ src = NoBuffer /\ ~ call.active
      /\ src' = src /\ call' = call
  BY DEF Reset, AtRest, merge
<1>2. TreesOK' /\ CachesOK'
  BY <1>1, EmptiedOK
<1>3. CallType(call)' /\ CallGood' /\ TodoOK'
  BY <1>1 DEF IInv, CallType, CallGood, TodoOK
<1> QED
  BY <1>2, <1>3 DEF IInv

(* Every step keeps the invariant. *)
LEMMA NextOK == IInv /\ [Next]_vars => IInv'
<1> SUFFICES ASSUME IInv, [Next]_vars PROVE IInv'
  OBVIOUS
<1>1. ASSUME NEW b \in Buffer, NEW s \in Stacks, NEW v \in profiler.amounts,
             Sample(b, s, v)
      PROVE  IInv'
  BY <1>1, SampleOK
<1>2. CASE PushHit
  BY <1>2, PushHitOK
<1>3. CASE PushMiss
  BY <1>3, PushMissOK
<1>4. CASE TickFrame
  BY <1>4, TickFrameOK
<1>5. CASE TickFails
  BY <1>5, SameOK DEF TickFails, tree, merge
<1>6. CASE Return
  BY <1>6, ReturnOK
<1>7. ASSUME NEW b \in Buffer, MergeBegin(b) PROVE IInv'
  BY <1>7, MergeBeginOK
<1>8. CASE MergeFrame
  BY <1>8, MergeFrameOK
<1>9. CASE MergeEnd
  BY <1>9, MergeEndOK
<1>10. CASE Reset
  BY <1>10, ResetOK
<1>11. CASE UNCHANGED vars
  BY <1>11, SameOK DEF vars
<1> QED
  BY <1>1, <1>2, <1>3, <1>4, <1>5, <1>6, <1>7, <1>8, <1>9, <1>10, <1>11 DEF Next

(* The call tree of every buffer is one tree with sorted child lists, and the
   call cache and the push in progress only ever point to nodes of it, at the
   depth and the address they stand for: for any addresses, stacks, buffers
   and limits, through samples, merges and resets. *)
THEOREM TreeCorrect == Spec => []TreeInv
<1>1. IInv => TreeInv
  BY DEF IInv, TreesOK, TreeOK, CachesOK, TreeInv
<1> QED
  BY <1>1, InitOK, NextOK, PTL DEF Spec
-----------------------------------------------------------------------------
(* Counters *)

Values(D) == [def : D, ticks : Nat, value : Nat, peak : Nat]
Distinct(cs) == \A i, j \in 1 .. Len(cs) : cs[i].def = cs[j].def => i = j

(* The counters of one node, of kinds in D. *)
CountersGood(cs, D) ==
  cs \in Seq(Values(D)) /\ Len(cs) <= MaxCounters /\ Distinct(cs)

(* Raising a counter gives one of the same kind. *)
LEMMA RaisedOK ==
  ASSUME NEW D, NEW c \in Values(D), NEW amount \in Nat, NEW ticks \in Nat
  PROVE  /\ Raised(c, amount, ticks) \in Values(D)
         /\ Raised(c, amount, ticks).def = c.def
<1>1. /\ c = [def |-> c.def, ticks |-> c.ticks, value |-> c.value, peak |-> c.peak]
      /\ c.def \in D /\ c.ticks \in Nat /\ c.value \in Nat /\ c.peak \in Nat
  BY DEF Values
<1>2. ASSUME NEW v \in Nat, NEW p \in Nat, NEW r,
             r = [c EXCEPT !.value = v, !.peak = p, !.ticks = c.ticks + ticks]
      PROVE  r \in Values(D) /\ r.def = c.def
  <2>1. r = [def |-> c.def, ticks |-> c.ticks + ticks, value |-> v, peak |-> p]
    BY <1>1, <1>2
  <2> QED
    BY <1>1, <2>1 DEF Values
<1>3. CASE c.def \in MaxDefs
  <2> DEFINE v == IF c.value < amount THEN amount ELSE c.value
  <2>1. v \in Nat
    BY <1>1
  <2>2. Raised(c, amount, ticks) =
          [c EXCEPT !.value = v, !.ticks = c.ticks + ticks]
    BY <1>3 DEF Raised
  <2>3. Raised(c, amount, ticks) =
          [c EXCEPT !.value = v, !.peak = c.peak, !.ticks = c.ticks + ticks]
    BY <1>1, <2>2
  <2> HIDE DEF v
  <2> QED
    BY <1>1, <1>2, <2>1, <2>3
<1>4. CASE c.def \notin MaxDefs
  <2> DEFINE v == c.value + amount
             p == IF v > c.peak THEN v ELSE c.peak
  <2>1. v \in Nat /\ p \in Nat
    BY <1>1
  <2>2. Raised(c, amount, ticks) =
          [c EXCEPT !.value = v, !.peak = p, !.ticks = c.ticks + ticks]
    BY <1>4 DEF Raised
  <2> HIDE DEF v, p
  <2> QED
    BY <1>2, <2>1, <2>2
<1> QED
  BY <1>3, <1>4

(* tick() adds a counter only if there is none of its kind, and never more
   than there is room for. *)
LEMMA TickOK ==
  ASSUME NEW D, NEW cs, CountersGood(cs, D), NEW d \in D, Roomy(cs, d),
         NEW amount \in Nat, NEW ticks \in Nat
  PROVE  /\ CountersGood(Tick(cs, d, amount, ticks), D)
         /\ Places(Tick(cs, d, amount, ticks), d) # {}
<1> DEFINE n == Len(cs)
           r == Tick(cs, d, amount, ticks)
<1>1. /\ cs \in Seq(Values(D)) /\ n \in Nat /\ n <= MaxCounters
      /\ MaxCounters \in Nat
      /\ \A i, j \in 1 .. n : cs[i].def = cs[j].def => i = j
      /\ \A i \in 1 .. n : cs[i] \in Values(D)
  BY LimitAssumption DEF CountersGood, Distinct
<1>2. CASE Places(cs, d) = {}
  <2> DEFINE c == Raised(NewCounter(d), amount, ticks)
  <2>1. NewCounter(d) \in Values(D) /\ NewCounter(d).def = d
    BY DEF NewCounter, Values
  <2>2. c \in Values(D) /\ c.def = d
    BY <2>1, RaisedOK
  <2>3. r = Append(cs, c)
    BY <1>2 DEF Tick
  <2> HIDE DEF c, r, n
  <2>4. /\ r \in Seq(Values(D)) /\ Len(r) = n + 1 /\ r[n + 1] = c
        /\ \A i \in 1 .. n : r[i] = cs[i]
    BY <1>1, <2>2, <2>3, AppendProperties DEF n
  <2>5. n < MaxCounters
    BY <1>2 DEF Roomy, n
  <2>6. \A i \in 1 .. n : cs[i].def # d
    BY <1>2 DEF Places, n
  <2>7. Distinct(r)
    <3> SUFFICES ASSUME NEW i \in 1 .. (n + 1), NEW j \in 1 .. (n + 1),
                        r[i].def = r[j].def
                 PROVE  i = j
      BY <2>4 DEF Distinct
    <3>1. (i \in 1 .. n \/ i = n + 1) /\ (j \in 1 .. n \/ j = n + 1)
      BY <1>1
    <3>2. CASE i \in 1 .. n /\ j \in 1 .. n
      BY <1>1, <2>4, <3>2
    <3>3. CASE i \in 1 .. n /\ j = n + 1
      BY <2>2, <2>4, <2>6, <3>3
    <3>4. CASE i = n + 1 /\ j \in 1 .. n
      BY <2>2, <2>4, <2>6, <3>4
    <3> QED
      BY <3>1, <3>2, <3>3, <3>4
  <2>8. Len(r) <= MaxCounters
    BY <1>1, <2>4, <2>5
  <2>9. n + 1 \in Places(r, d)
    BY <1>1, <2>2, <2>4 DEF Places
  <2> QED
    BY <2>4, <2>7, <2>8, <2>9 DEF CountersGood, r
<1>3. CASE Places(cs, d) # {}
  <2>1. r = [i \in 1 .. n |->
               IF cs[i].def = d THEN Raised(cs[i], amount, ticks) ELSE cs[i]]
    BY <1>3 DEF Tick
  <2> HIDE DEF r, n
  <2>2. \A i \in 1 .. n : r[i] \in Values(D) /\ r[i].def = cs[i].def
    <3> SUFFICES ASSUME NEW i \in 1 .. n
                 PROVE  r[i] \in Values(D) /\ r[i].def = cs[i].def
      OBVIOUS
    <3>1. r[i] = IF cs[i].def = d THEN Raised(cs[i], amount, ticks) ELSE cs[i]
      BY <2>1
    <3>2. cs[i] \in Values(D)
      BY <1>1
    <3>3. /\ Raised(cs[i], amount, ticks) \in Values(D)
          /\ Raised(cs[i], amount, ticks).def = cs[i].def
      BY <3>2, RaisedOK
    <3> QED
      BY <3>1, <3>2, <3>3
  <2>3. r \in [1 .. n -> Values(D)]
    BY <2>1, <2>2
  <2>4. r \in Seq(Values(D)) /\ Len(r) = n
    <3>1. r \in Seq(Values(D))
      BY <1>1, <2>3, SequenceOf
    <3>2. DOMAIN r = 1 .. n
      BY <2>1
    <3> QED
      BY <1>1, <3>1, <3>2
  <2>5. Distinct(r)
    BY <1>1, <2>2, <2>4 DEF Distinct
  <2>6. Places(r, d) # {}
    BY <1>3, <2>2, <2>4 DEF Places, n
  <2> QED
    BY <1>1, <2>4, <2>5, <2>6 DEF CountersGood, r
<1> QED
  BY <1>2, <1>3

(* A merged or sampled counter adds at most one counter to a frame, although
   tick() may be called twice for it. *)
LEMMA MergedOK ==
  ASSUME NEW D, NEW cs, CountersGood(cs, D), NEW c \in Values(D),
         Roomy(cs, c.def)
  PROVE  CountersGood(Merged(cs, c), D)
<1> DEFINE here == IF c.ticks = 0 THEN cs ELSE Tick(cs, c.def, c.value, c.ticks)
<1>1. c.def \in D /\ c.ticks \in Nat /\ c.value \in Nat /\ c.peak \in Nat
  BY DEF Values
<1>2. CountersGood(here, D) /\ Roomy(here, c.def)
  <2>1. CASE c.ticks = 0
    BY <2>1
  <2>2. CASE c.ticks # 0
    <3>1. /\ CountersGood(Tick(cs, c.def, c.value, c.ticks), D)
          /\ Places(Tick(cs, c.def, c.value, c.ticks), c.def) # {}
      BY <1>1, TickOK
    <3> QED
      BY <2>2, <3>1 DEF Roomy
  <2> QED
    BY <2>1, <2>2
<1>3. Merged(cs, c) = IF c.def \notin MaxDefs /\ c.peak > c.value
                      THEN Tick(here, c.def, c.peak - c.value, 0) ELSE here
  BY DEF Merged
<1> HIDE DEF here
<1>4. ASSUME c.peak > c.value
      PROVE  CountersGood(Tick(here, c.def, c.peak - c.value, 0), D)
  <2>1. c.peak - c.value \in Nat
    BY <1>1, <1>4
  <2> QED
    BY <1>1, <1>2, <2>1, TickOK
<1> QED
  BY <1>2, <1>3, <1>4
-----------------------------------------------------------------------------
(* The types *)

CtrsOK(D) ==
  /\ DOMAIN ctrs = Buffer
  /\ \A b \in Buffer : DOMAIN ctrs[b] = DOMAIN kids[b]
  /\ \A b \in Buffer : \A n \in DOMAIN ctrs[b] : CountersGood(ctrs[b][n], D)
FramesOK ==
  /\ \A b \in Buffer : \A i \in Slot : cache[b][i].frame \in DOMAIN kids[b]
  /\ call.frame \in DOMAIN kids[call.buf]
  /\ ~ call.active => call.frame = Root
TicksOK(D) == call.ticks \in Seq(Values(D))

(* The tree invariant, what the counters of a node are, and that the frames of
   the cache and of the call exist even where they are not in use. *)
TInv == /\ IInv
        /\ profiler \in Profilers /\ failed \in BOOLEAN
        /\ CtrsOK(Defs) /\ TicksOK(Defs) /\ FramesOK

(* Every tree has its root. *)
LEMMA RootThere ==
  ASSUME TreesOK, NEW b \in Buffer
  PROVE  Root \in DOMAIN kids[b]
BY DEF TreesOK, TreeOK, Rooted

(* A frame without counters is in order. *)
LEMMA NoCounters ==
  ASSUME NEW D
  PROVE  CountersGood(<<>>, D)
BY LimitAssumption DEF CountersGood, Distinct

(* The types hold in a fresh process. *)
LEMMA InitTypes == Init => TInv
<1> SUFFICES ASSUME Init PROVE TInv
  OBVIOUS
<1>1. IInv /\ profiler \in Profilers /\ failed \in BOOLEAN
  BY InitOK DEF Init
<1>2. /\ ctrs = [b \in Buffer |-> EmptyCtrs] /\ kids = [b \in Buffer |-> EmptyKids]
      /\ cache = [b \in Buffer |-> EmptyCache] /\ call = NoCall
  BY DEF Init
<1>3. /\ DOMAIN EmptyCtrs = {Root} /\ DOMAIN EmptyKids = {Root}
      /\ EmptyCtrs[Root] = <<>>
  BY DEF EmptyCtrs, EmptyKids
<1>4. CtrsOK(Defs)
  BY <1>2, <1>3, NoCounters DEF CtrsOK
<1>5. TicksOK(Defs)
  <2>1. call.ticks = <<>>
    BY <1>2 DEF NoCall
  <2> QED
    BY <2>1 DEF TicksOK
<1>6. FramesOK
  <2>1. call.frame = Root /\ call.buf \in Buffer
    BY <1>2, MasterAssumption DEF NoCall
  <2>2. \A i \in Slot : EmptyCache[i].frame = Root
    BY DEF EmptyCache, NoEntry, Slot
  <2> QED
    BY <1>1, <1>2, <2>1, <2>2, RootThere DEF FramesOK, IInv
<1> QED
  BY <1>1, <1>4, <1>5, <1>6 DEF TInv

(* Kinds of counters are those of the one profiler. *)
LEMMA SameDefs ==
  ASSUME UNCHANGED profiler
  PROVE  Defs' = Defs
BY DEF Defs, Elems

(* A step that leaves trees, counters and caches alone. *)
LEMMA SameCounters ==
  ASSUME TInv, UNCHANGED <<profiler, kids, ctrs, cache>>
  PROVE  /\ profiler' \in Profilers /\ CtrsOK(Defs)'
         /\ \A b \in Buffer : \A i \in Slot :
               cache'[b][i].frame \in DOMAIN kids'[b]
<1>1. Defs' = Defs
  BY SameDefs
<1>2. CtrsOK(Defs)'
  BY <1>1 DEF TInv, CtrsOK
<1> QED
  BY <1>2 DEF TInv, FramesOK

(* A push starts at the root, with the counters it was given. *)
LEMMA BeginTypes ==
  ASSUME TInv, IInv', NEW b \in Buffer, NEW stack, NEW ticks \in Seq(Values(Defs)),
         Begin(b, stack, ticks), UNCHANGED <<profiler, kids, ctrs, cache, failed>>
  PROVE  TInv'
<1>1. /\ call'.active = TRUE /\ call'.buf = b /\ call'.frame = Root
      /\ call'.ticks = ticks
  BY DEF Begin
<1>2. Defs' = Defs
  BY SameDefs
<1>3. TicksOK(Defs)'
  BY <1>1, <1>2 DEF TicksOK
<1>4. Root \in DOMAIN kids'[b]
  BY RootThere DEF TInv, IInv
<1>5. FramesOK'
  BY <1>1, <1>4, SameCounters DEF FramesOK
<1> QED
  BY <1>3, <1>5, SameCounters DEF TInv

(* A sample ticks the counters of the profiler. *)
LEMMA SampleTypes ==
  ASSUME TInv, IInv', NEW b \in Buffer, NEW s \in Stacks,
         NEW v \in profiler.amounts, Sample(b, s, v)
  PROVE  TInv'
<1>1. /\ Begin(b, s, SampleTicks(v))
      /\ UNCHANGED <<profiler, kids, ctrs, cache, failed>>
  BY DEF Sample, tree
<1>2. profiler \in Profilers
  BY DEF TInv
<1>3. /\ profiler.counters \in Seq({profiler.counters[i] : i \in DOMAIN profiler.counters})
      /\ profiler.amounts \subseteq Nat
  BY <1>2, ProfilerAssumption
<1> DEFINE cs == profiler.counters
           f == [i \in 1 .. Len(cs) |->
                   [def |-> cs[i], ticks |-> 1, value |-> v, peak |-> 0]]
<1>4. Len(cs) \in Nat /\ v \in Nat
  BY <1>3
<1>5. \A i \in 1 .. Len(cs) : cs[i] \in Defs
  BY DEF Defs, Elems
<1>6. f \in [1 .. Len(cs) -> Values(Defs)]
  BY <1>4, <1>5 DEF Values
<1>7. SampleTicks(v) = f
  BY DEF SampleTicks
<1> HIDE DEF f, cs
<1>8. SampleTicks(v) \in Seq(Values(Defs))
  BY <1>4, <1>6, <1>7, SequenceOf
<1> QED
  BY <1>1, <1>8, BeginTypes

(* A hit moves the call to the cached frame. *)
LEMMA PushHitTypes ==
  ASSUME TInv, IInv', PushHit
  PROVE  TInv'
<1>1. /\ Walking /\ call' = [call EXCEPT !.frame = cache[call.buf][call.i].frame,
                                         !.i = @ + 1]
      /\ UNCHANGED <<profiler, kids, ctrs, cache, failed>>
  BY DEF PushHit, tree
<1>2. call.i \in Slot /\ call.buf \in Buffer /\ call.active
  BY <1>1, WalkFacts DEF TInv, Walking
<1>3. /\ call'.frame = cache[call.buf][call.i].frame
      /\ call'.buf = call.buf /\ call'.ticks = call.ticks
      /\ call'.active = call.active
  BY <1>1 DEF TInv, IInv, CallType
<1>4. call'.frame \in DOMAIN kids'[call'.buf]
  BY <1>1, <1>2, <1>3 DEF TInv, FramesOK
<1>5. FramesOK'
  BY <1>1, <1>2, <1>3, <1>4, SameCounters DEF FramesOK
<1>6. TicksOK(Defs)'
  BY <1>1, <1>3, SameDefs DEF TicksOK, TInv
<1> QED
  BY <1>1, <1>5, <1>6, SameCounters DEF TInv

(* A new node has no counters yet. *)
LEMMA ChildTypes ==
  ASSUME TInv, NEW b \in Buffer, NEW f \in DOMAIN kids[b], NEW a \in Address,
         ChildStackNode(b, f, a), UNCHANGED profiler
  PROVE  CtrsOK(Defs)'
<1>1. Defs' = Defs
  BY SameDefs
<1>2. CASE Known(kids[b][f], a)
  BY <1>1, <1>2 DEF ChildStackNode, TInv, CtrsOK
<1>3. CASE ~ Known(kids[b][f], a)
  <2> DEFINE new == Append(f, a)
             u == Grown(kids[b], f, a)
             w == [n \in DOMAIN kids[b] \cup {new} |->
                     IF n = new THEN <<>> ELSE ctrs[b][n]]
  <2>1. kids' = [kids EXCEPT ![b] = u] /\ ctrs' = [ctrs EXCEPT ![b] = w]
    BY <1>3 DEF ChildStackNode, Nodes
  <2>2. TreeOK(kids[b]) /\ DOMAIN kids = Buffer
    BY DEF TInv, IInv, TreesOK
  <2>3. DOMAIN u = DOMAIN kids[b] \cup {new}
    BY <1>3, <2>2, GrownOK
  <2>4. DOMAIN w = DOMAIN kids[b] \cup {new}
    OBVIOUS
  <2>5. \A n \in DOMAIN w : CountersGood(w[n], Defs)
    <3> SUFFICES ASSUME NEW n \in DOMAIN w PROVE CountersGood(w[n], Defs)
      OBVIOUS
    <3>1. CASE n = new
      BY <2>4, <3>1, NoCounters
    <3>2. CASE n # new
      <4>1. w[n] = ctrs[b][n] /\ n \in DOMAIN kids[b]
        BY <3>2
      <4> HIDE DEF w
      <4> QED
        BY <4>1 DEF TInv, CtrsOK
    <3> QED
      BY <3>1, <3>2
  <2> HIDE DEF u, w, new
  <2>6. /\ DOMAIN kids' = Buffer /\ kids'[b] = u
        /\ \A c \in Buffer : c # b => kids'[c] = kids[c]
    BY <2>1, <2>2
  <2>7. /\ DOMAIN ctrs' = Buffer /\ ctrs'[b] = w
        /\ \A c \in Buffer : c # b => ctrs'[c] = ctrs[c]
    BY <2>1 DEF TInv, CtrsOK
  <2>8. \A c \in Buffer : DOMAIN ctrs'[c] = DOMAIN kids'[c]
    BY <2>3, <2>4, <2>6, <2>7 DEF TInv, CtrsOK
  <2>9. \A c \in Buffer : \A n \in DOMAIN ctrs'[c] : CountersGood(ctrs'[c][n], Defs)
    BY <2>5, <2>7 DEF TInv, CtrsOK
  <2> QED
    BY <1>1, <2>7, <2>8, <2>9 DEF CtrsOK
<1> QED
  BY <1>2, <1>3

(* A miss moves the call and its cache slot to a frame that exists by then. *)
LEMMA PushMissTypes ==
  ASSUME TInv, IInv', PushMiss
  PROVE  TInv'
<1> DEFINE a == call.stack[call.i + 1]
           new == Append(call.frame, a)
           e == [address |-> a, frame |-> new]
           b == call.buf
           j == call.i
<1>1. /\ Walking
      /\ ChildStackNode(b, call.frame, a)
      /\ cache' = [cache EXCEPT ![b][j] = e]
      /\ call' = [call EXCEPT !.frame = new, !.i = j + 1, !.valid = FALSE]
      /\ UNCHANGED <<profiler, failed>>
  BY DEF PushMiss
<1>2. /\ j \in Slot /\ a \in Address /\ b \in Buffer
      /\ call.frame \in DOMAIN kids[b] /\ IInv /\ call.active
  BY <1>1, WalkFacts DEF TInv, Walking
<1>3. /\ new \in DOMAIN kids'[b]
      /\ \A c \in Buffer : DOMAIN kids[c] \subseteq DOMAIN kids'[c]
  BY <1>1, <1>2, ChildOK
<1>4. CtrsOK(Defs)'
  BY <1>1, <1>2, ChildTypes
<1>5. /\ call'.active = call.active /\ call'.buf = b
      /\ call'.frame = new /\ call'.ticks = call.ticks
  BY <1>1, <1>2 DEF IInv, CallType
<1>6. TicksOK(Defs)'
  BY <1>1, <1>5, SameDefs DEF TicksOK, TInv
<1>7. e.frame = new
  OBVIOUS
<1>8. cache \in [Buffer -> [Slot -> Entry]]
  BY <1>2 DEF IInv, CachesOK
<1> HIDE DEF e, new, a, b, j
<1>9. \A c \in Buffer : \A i \in Slot :
         cache'[c][i] = IF c = b /\ i = j THEN e ELSE cache[c][i]
  <2> DEFINE row == [cache[b] EXCEPT ![j] = e]
  <2>1. cache' = [cache EXCEPT ![b] = row]
    BY <1>1
  <2>2. \A i \in Slot : row[i] = IF i = j THEN e ELSE cache[b][i]
    BY <1>2, <1>8
  <2> HIDE DEF row
  <2>3. \A c \in Buffer : cache'[c] = IF c = b THEN row ELSE cache[c]
    BY <1>2, <1>8, <2>1
  <2> QED
    BY <2>2, <2>3
<1>10. \A c \in Buffer : \A i \in Slot : cache'[c][i].frame \in DOMAIN kids'[c]
  BY <1>3, <1>7, <1>9 DEF TInv, FramesOK
<1>11. FramesOK'
  BY <1>2, <1>3, <1>5, <1>10 DEF FramesOK
<1> QED
  BY <1>1, <1>4, <1>6, <1>11 DEF TInv

(* A tick changes the counters of the frame the call has found. *)
LEMMA TickFrameTypes ==
  ASSUME TInv, IInv', TickFrame
  PROVE  TInv'
<1> DEFINE c == Head(call.ticks)
           ts == Tail(call.ticks)
           b == call.buf
           n == call.frame
           m == Merged(ctrs[b][n], c)
<1>1. /\ call.ticks # <<>> /\ Roomy(ctrs[b][n], c.def) /\ call.active
      /\ ctrs' = [ctrs EXCEPT ![b][n] = m]
      /\ call' = [call EXCEPT !.ticks = ts]
      /\ UNCHANGED <<profiler, kids, cache, failed>>
  BY DEF TickFrame, Here, Pushed
<1>2. c \in Values(Defs) /\ ts \in Seq(Values(Defs))
  BY <1>1 DEF TInv, TicksOK
<1>3. b \in Buffer /\ n \in DOMAIN kids[b]
  BY DEF TInv, IInv, CallType, FramesOK
<1>4. CountersGood(ctrs[b][n], Defs)
  BY <1>3 DEF TInv, CtrsOK
<1>5. CountersGood(m, Defs)
  BY <1>1, <1>2, <1>4, MergedOK
<1>6. Defs' = Defs
  BY <1>1, SameDefs
<1>7. /\ call'.active = call.active /\ call'.buf = b
      /\ call'.frame = n /\ call'.ticks = ts
  BY <1>1 DEF TInv, IInv, CallType
<1> HIDE DEF m, c, ts, b, n
<1>8. CtrsOK(Defs)'
  <2> DEFINE row == [ctrs[b] EXCEPT ![n] = m]
  <2>1. ctrs' = [ctrs EXCEPT ![b] = row]
    BY <1>1
  <2>2. DOMAIN row = DOMAIN ctrs[b] /\ \A k \in DOMAIN row : CountersGood(row[k], Defs)
    BY <1>3, <1>5 DEF TInv, CtrsOK
  <2> HIDE DEF row
  <2>3. /\ DOMAIN ctrs' = Buffer
        /\ \A d \in Buffer : ctrs'[d] = IF d = b THEN row ELSE ctrs[d]
    BY <1>3, <2>1 DEF TInv, CtrsOK
  <2> QED
    BY <1>1, <1>6, <2>2, <2>3 DEF TInv, CtrsOK
<1>9. TicksOK(Defs)'
  BY <1>2, <1>6, <1>7 DEF TicksOK
<1>10. FramesOK'
  BY <1>1, <1>3, <1>7 DEF FramesOK, TInv, b, n
<1> QED
  BY <1>1, <1>8, <1>9, <1>10 DEF TInv

(* Steps that change neither trees, counters, caches nor the call. *)
LEMMA SameTypes ==
  ASSUME TInv, IInv', UNCHANGED <<profiler, kids, ctrs, cache, call>>,
         failed' \in BOOLEAN
  PROVE  TInv'
<1>1. Defs' = Defs
  BY SameDefs
<1>2. TicksOK(Defs)'
  BY <1>1 DEF TInv, TicksOK
<1>3. FramesOK'
  BY DEF TInv, FramesOK
<1> QED
  BY <1>2, <1>3, SameCounters DEF TInv

(* A call that has returned stands at the root. *)
LEMMA ReturnTypes ==
  ASSUME TInv, IInv', Return
  PROVE  TInv'
<1>1. call' = NoCall /\ UNCHANGED <<profiler, kids, ctrs, cache, failed>>
  BY DEF Return, tree
<1>2. /\ call'.frame = Root /\ call'.buf = Master /\ call'.ticks = <<>>
      /\ call'.active = FALSE
  BY <1>1 DEF NoCall
<1>3. Root \in DOMAIN kids'[Master]
  BY <1>1, MasterAssumption, RootThere DEF TInv, IInv
<1>4. FramesOK'
  BY <1>1, <1>2, <1>3, SameCounters DEF FramesOK
<1>5. TicksOK(Defs)'
  BY <1>2 DEF TicksOK
<1> QED
  BY <1>1, <1>4, <1>5, SameCounters DEF TInv

(* Merging a frame ticks the counters of that frame. *)
LEMMA MergeFrameTypes ==
  ASSUME TInv, IInv', MergeFrame
  PROVE  TInv'
<1> DEFINE n == Head(todo)
<1>1. /\ src # NoBuffer /\ todo # <<>> /\ Begin(Master, n, ctrs[src][n])
      /\ UNCHANGED <<profiler, kids, ctrs, cache, failed>>
  BY DEF MergeFrame, tree
<1>2. src \in Buffer /\ n \in DOMAIN kids[src]
  BY <1>1 DEF TInv, IInv, TodoOK, Nodes
<1>3. ctrs[src][n] \in Seq(Values(Defs))
  BY <1>2 DEF TInv, CtrsOK, CountersGood
<1> QED
  BY <1>1, <1>3, MasterAssumption, BeginTypes

(* Emptied buffers have a root without counters. *)
LEMMA EmptiedTypes ==
  ASSUME TInv, IInv', NEW B \in SUBSET Buffer, Emptied(B), ~ call.active,
         UNCHANGED <<profiler, call, failed>>
  PROVE  TInv'
<1>1. /\ kids' = [b \in Buffer |-> IF b \in B THEN EmptyKids ELSE kids[b]]
      /\ ctrs' = [b \in Buffer |-> IF b \in B THEN EmptyCtrs ELSE ctrs[b]]
      /\ cache' = [b \in Buffer |-> IF b \in B THEN EmptyCache ELSE cache[b]]
  BY DEF Emptied
<1>2. /\ DOMAIN EmptyCtrs = {Root} /\ DOMAIN EmptyKids = {Root}
      /\ EmptyCtrs[Root] = <<>>
  BY DEF EmptyCtrs, EmptyKids
<1>3. Defs' = Defs
  BY SameDefs
<1>4. CtrsOK(Defs)'
  BY <1>1, <1>2, <1>3, NoCounters DEF CtrsOK, TInv
<1>5. \A i \in Slot : EmptyCache[i].frame = Root
  BY DEF EmptyCache, NoEntry, Slot
<1>6. \A b \in Buffer : \A i \in Slot : cache'[b][i].frame \in DOMAIN kids'[b]
  BY <1>1, <1>2, <1>5 DEF TInv, FramesOK
<1>7. call.frame = Root /\ call.buf \in Buffer
  BY DEF TInv, FramesOK, IInv, CallType
<1>8. Root \in DOMAIN kids'[call.buf]
  BY <1>1, <1>2, <1>7, RootThere DEF TInv, IInv
<1>9. FramesOK'
  BY <1>6, <1>7, <1>8 DEF FramesOK
<1>10. TicksOK(Defs)'
  BY <1>3 DEF TInv, TicksOK
<1> QED
  BY <1>4, <1>9, <1>10 DEF TInv

(* Every step keeps the types. *)
LEMMA NextTypes == TInv /\ [Next]_vars => TInv'
<1> SUFFICES ASSUME TInv, [Next]_vars PROVE TInv'
  OBVIOUS
<1>a. IInv /\ IInv' /\ failed \in BOOLEAN
  BY NextOK DEF TInv
<1>1. ASSUME NEW b \in Buffer, NEW s \in Stacks, NEW v \in profiler.amounts,
             Sample(b, s, v)
      PROVE  TInv'
  BY <1>a, <1>1, SampleTypes
<1>2. CASE PushHit
  BY <1>a, <1>2, PushHitTypes
<1>3. CASE PushMiss
  BY <1>a, <1>3, PushMissTypes
<1>4. CASE TickFrame
  BY <1>a, <1>4, TickFrameTypes
<1>5. CASE TickFails
  BY <1>a, <1>5, SameTypes DEF TickFails, tree
<1>6. CASE Return
  BY <1>a, <1>6, ReturnTypes
<1>7. ASSUME NEW b \in Buffer, MergeBegin(b) PROVE TInv'
  BY <1>a, <1>7, SameTypes DEF MergeBegin, tree
<1>8. CASE MergeFrame
  BY <1>a, <1>8, MergeFrameTypes
<1>9. CASE MergeEnd
  <2>1. /\ Emptied({src}) /\ src # NoBuffer /\ ~ call.active
        /\ UNCHANGED <<profiler, call, failed>>
    BY <1>9 DEF MergeEnd
  <2>2. {src} \in SUBSET Buffer
    BY <1>a, <2>1 DEF IInv, TodoOK
  <2> QED
    BY <1>a, <2>1, <2>2, EmptiedTypes
<1>10. CASE Reset
  <2>1. /\ Emptied(Buffer) /\ ~ call.active /\ UNCHANGED <<profiler, call, failed>>
    BY <1>10 DEF Reset, AtRest
  <2> QED
    BY <1>a, <2>1, EmptiedTypes
<1>11. CASE UNCHANGED vars
  BY <1>a, <1>11, SameTypes DEF vars
<1> QED
  BY <1>1, <1>2, <1>3, <1>4, <1>5, <1>6, <1>7, <1>8, <1>9, <1>10, <1>11 DEF Next

(* The nodes of a buffer have the counters of the active profiler, no two of a
   kind and never more than MAX_COUNTERS, which is why the search of tick() finds
   the one counter there is; the cache and the call only name nodes of their
   buffer: for any profiler, any limits, and through any samples, merges and
   resets. *)
THEOREM TreeTypes == Spec => []TypeOK
<1>1. TInv => TypeOK
  <2> SUFFICES ASSUME TInv PROVE TypeOK
    OBVIOUS
  <2>1. CounterValue = Values(Defs)
    BY DEF CounterValue, Values
  <2>2. ASSUME NEW b \in Buffer
        PROVE  /\ Nodes(b) \subseteq Seq(Address) /\ DOMAIN ctrs[b] = Nodes(b)
               /\ \A n \in Nodes(b) : /\ kids[b][n] \in Seq(Address)
                                      /\ ctrs[b][n] \in Seq(CounterValue)
    BY <2>1 DEF TInv, IInv, TreesOK, TreeOK, CtrsOK, CountersGood, Nodes
  <2>3. ASSUME NEW b \in Buffer
        PROVE  cache[b] \in [0 .. (MaxDepth - 1) ->
                               [address : Address \cup {0}, frame : Nodes(b)]]
    <3>1. cache[b] \in [Slot -> Entry]
      BY DEF TInv, IInv, CachesOK
    <3>2. \A i \in Slot : cache[b][i] \in [address : Address \cup {0}, frame : Nodes(b)]
      BY <3>1 DEF TInv, FramesOK, Nodes, Entry
    <3> QED
      BY <3>1, <3>2 DEF Slot
  <2>4. call.buf \in Buffer /\ call.frame \in Nodes(call.buf)
    BY DEF TInv, IInv, CallType, FramesOK, Nodes
  <2>5. src \in Buffer \cup {NoBuffer}
    BY DEF TInv, IInv, TodoOK
  <2>6. src # NoBuffer => Elems(todo) \subseteq Nodes(src)
    BY DEF TInv, IInv, TodoOK, Elems
  <2>7. CountersDistinct
    BY DEF TInv, CtrsOK, CountersGood, Distinct, CountersDistinct, Nodes
  <2> QED
    BY <2>2, <2>3, <2>4, <2>5, <2>6, <2>7 DEF TypeOK, TInv
<1> QED
  BY <1>1, InitTypes, NextTypes, PTL DEF Spec
-----------------------------------------------------------------------------
(* Stacks and counters *)

(* The walk of push() ends at the end of the stack, at the maximal depth or at
   the first null address; every address before is a real one. *)
LEMMA EffectiveFacts ==
  ASSUME NEW s \in Seq(Address \cup {0})
  PROVE  LET n == Effective(s) IN
         /\ n \in Seq(Address) /\ Len(n) \in Nat
         /\ Len(n) <= Len(s) /\ Len(n) <= MaxDepth
         /\ \A k \in 0 .. (Len(n) - 1) : /\ k < Len(s) /\ k < MaxDepth
                                         /\ s[k + 1] # 0
         /\ Len(n) = Len(s) \/ Len(n) = MaxDepth \/ s[Len(n) + 1] = 0
         /\ \A k \in 1 .. Len(n) : n[k] = s[k]
<1> DEFINE stops == {i \in 0 .. Len(s) : i = Len(s) \/ i = MaxDepth \/ s[i + 1] = 0}
           m == Min(stops)
<1>1. Len(s) \in Nat /\ MaxDepth \in Nat /\ \A k \in 1 .. Len(s) : s[k] \in Address \cup {0}
  BY LimitAssumption
<1>2. stops \in SUBSET Nat /\ Len(s) \in stops
  BY <1>1
<1>3. m \in stops /\ \A i \in stops : m <= i
  BY <1>2, LeastNat DEF Min
<1>4. m \in 0 .. Len(s) /\ (m = Len(s) \/ m = MaxDepth \/ s[m + 1] = 0)
  BY <1>3
<1>5. ASSUME NEW k \in 0 .. Len(s), k < m
      PROVE  k # Len(s) /\ k # MaxDepth /\ s[k + 1] # 0
  <2>1. k \notin stops
    BY <1>1, <1>3, <1>4, <1>5
  <2> QED BY <2>1
<1>6. m <= MaxDepth
  <2>1. CASE MaxDepth <= Len(s)
    <3>1. MaxDepth \in stops
      BY <1>1, <2>1
    <3> QED BY <1>3, <3>1
  <2> QED BY <1>1, <1>4, <2>1
<1>7. Effective(s) = SubSeq(s, 1, m)
  BY DEF Effective
<1> HIDE DEF m, stops
<1>8. Len(Effective(s)) = m /\ \A k \in 1 .. m : Effective(s)[k] = s[k]
  BY <1>1, <1>4, <1>7
<1>9. \A k \in 0 .. (m - 1) : k < Len(s) /\ k < MaxDepth /\ s[k + 1] # 0
  <2> SUFFICES ASSUME NEW k \in 0 .. (m - 1)
               PROVE  k < Len(s) /\ k < MaxDepth /\ s[k + 1] # 0
    OBVIOUS
  <2>1. k \in 0 .. Len(s) /\ k < m /\ k < Len(s) /\ k < MaxDepth
    BY <1>1, <1>4, <1>6
  <2> QED BY <1>5, <2>1
<1>10. \A k \in 1 .. m : s[k] \in Address
  <2> SUFFICES ASSUME NEW k \in 1 .. m PROVE s[k] \in Address
    OBVIOUS
  <2>1. k - 1 \in 0 .. (m - 1) /\ (k - 1) + 1 = k /\ k \in 1 .. Len(s)
    BY <1>1, <1>4
  <2>2. s[(k - 1) + 1] # 0
    BY <1>9, <2>1
  <2> QED BY <1>1, <2>1, <2>2
<1>11. Effective(s) \in Seq(Address)
  <2>1. Effective(s) = [k \in 1 .. m |-> s[k]]
    BY <1>1, <1>4, <1>7
  <2> QED BY <1>4, <1>10, <2>1, SequenceOf
<1> QED BY <1>4, <1>6, <1>8, <1>9, <1>11

(* Nothing of the path of a node is cut off when it is pushed again. *)
LEMMA EffectivePath ==
  ASSUME NEW n \in Seq(Address), Len(n) <= MaxDepth
  PROVE  Effective(n) = n
<1> DEFINE e == Effective(n)
<1>1. n \in Seq(Address \cup {0})
  OBVIOUS
<1>2. /\ e \in Seq(Address) /\ Len(e) \in Nat /\ Len(e) <= Len(n)
      /\ Len(e) = Len(n) \/ Len(e) = MaxDepth \/ n[Len(e) + 1] = 0
      /\ \A k \in 1 .. Len(e) : e[k] = n[k]
  BY <1>1, EffectiveFacts
<1>3. \A k \in 1 .. Len(n) : n[k] # 0
  BY AddressAssumption
<1> HIDE DEF e
<1>4. Len(e) = Len(n)
  <2> SUFFICES ASSUME Len(e) # Len(n) PROVE FALSE
    OBVIOUS
  <2>1. Len(e) < Len(n) /\ Len(n) \in Nat
    BY <1>2
  <2>2. Len(e) + 1 \in 1 .. Len(n)
    BY <1>2, <2>1
  <2> QED BY <1>2, <1>3, <2>1, <2>2, LimitAssumption
<1>5. e = n
  BY <1>2, <1>4, SeqEqual
<1> QED BY <1>5 DEF e

(* A counter in use was ticked, and its peak is not above its value unless it
   is of type MAX, whose peak is not kept. *)
Sound(cs) == \A i \in 1 .. Len(cs) :
               /\ cs[i].ticks >= 1
               /\ cs[i].def \notin MaxDefs => cs[i].peak <= cs[i].value

(* A counter is found by the one place its counter has. *)
LEMMA CounterAt ==
  ASSUME NEW cs, Distinct(cs), NEW d, NEW i \in Places(cs, d)
  PROVE  Counter(cs, d) = cs[i]
<1> DEFINE j == CHOOSE k \in Places(cs, d) : TRUE
<1>1. j \in Places(cs, d)
  OBVIOUS
<1>2. Counter(cs, d) = cs[j]
  BY DEF Counter
<1> HIDE DEF j
<1>3. i \in 1 .. Len(cs) /\ j \in 1 .. Len(cs) /\ cs[i].def = cs[j].def
  BY <1>1 DEF Places
<1>4. i = j
  BY <1>3 DEF Distinct
<1> QED BY <1>2, <1>4

(* The counter of a node is one, ticked or not. *)
LEMMA CounterType ==
  ASSUME NEW D, NEW cs \in Seq(Values(D)), NEW d
  PROVE  /\ Counter(cs, d) \in Values({d})
         /\ Counter(cs, d).ticks \in Nat /\ Counter(cs, d).value \in Nat
<1>1. CASE Places(cs, d) = {}
  BY <1>1 DEF Counter, NewCounter, Values
<1>2. CASE Places(cs, d) # {}
  <2> DEFINE j == CHOOSE k \in Places(cs, d) : TRUE
  <2>1. j \in Places(cs, d)
    BY <1>2
  <2>2. Counter(cs, d) = cs[j]
    BY <1>2 DEF Counter
  <2> HIDE DEF j
  <2>3. cs[j] \in Values(D) /\ cs[j].def = d
    BY <2>1 DEF Places
  <2> QED BY <2>2, <2>3 DEF Values
<1> QED BY <1>1, <1>2

(* An empty list has no counter that was ticked. *)
LEMMA CounterEmpty ==
  ASSUME NEW d
  PROVE  Counter(<<>>, d) = NewCounter(d)
<1>1. Places(<<>>, d) = {}
  BY DEF Places
<1> QED BY <1>1 DEF Counter

(* How a raised counter differs: by the ticks, and by the amount or, for a MAX
   counter, if the amount is larger. *)
LEMMA RaisedParts ==
  ASSUME NEW D, NEW c \in Values(D), NEW amount \in Nat, NEW ticks \in Nat
  PROVE  LET r == Raised(c, amount, ticks) IN
         /\ r.def = c.def /\ r.ticks = c.ticks + ticks
         /\ c.def \notin MaxDefs => r.value = c.value + amount
         /\ c.def \in MaxDefs =>
              r.value = IF c.value < amount THEN amount ELSE c.value
         /\ c.def \notin MaxDefs /\ c.peak <= c.value => r.peak <= r.value
<1>1. /\ c = [def |-> c.def, ticks |-> c.ticks, value |-> c.value, peak |-> c.peak]
      /\ c.ticks \in Nat /\ c.value \in Nat /\ c.peak \in Nat
  BY DEF Values
<1> DEFINE v == c.value + amount
           p == IF v > c.peak THEN v ELSE c.peak
           w == IF c.value < amount THEN amount ELSE c.value
<1>2. CASE c.def \in MaxDefs
  <2>1. Raised(c, amount, ticks) = [c EXCEPT !.value = w, !.ticks = c.ticks + ticks]
    BY <1>2 DEF Raised
  <2> HIDE DEF w
  <2>2. Raised(c, amount, ticks) =
          [def |-> c.def, ticks |-> c.ticks + ticks, value |-> w, peak |-> c.peak]
    BY <1>1, <2>1
  <2> QED BY <1>2, <2>2 DEF w
<1>3. CASE c.def \notin MaxDefs
  <2>1. Raised(c, amount, ticks) =
          [c EXCEPT !.value = v, !.peak = p, !.ticks = c.ticks + ticks]
    BY <1>3 DEF Raised
  <2>2. c.peak <= c.value => p <= v
    BY <1>1
  <2> HIDE DEF p
  <2>3. Raised(c, amount, ticks) =
          [def |-> c.def, ticks |-> c.ticks + ticks, value |-> v, peak |-> p]
    BY <1>1, <2>1
  <2> QED BY <1>3, <2>2, <2>3
<1> QED BY <1>2, <1>3

(* A counter that is ticked is one a tick dearer; the others stay. *)
LEMMA TickCounter ==
  ASSUME NEW D, NEW cs, CountersGood(cs, D), NEW d \in D, Roomy(cs, d),
         NEW amount \in Nat, NEW ticks \in Nat
  PROVE  LET r == Tick(cs, d, amount, ticks) IN
         /\ Counter(r, d) = Raised(Counter(cs, d), amount, ticks)
         /\ \A e : e # d => Counter(r, e) = Counter(cs, e)
         /\ Sound(cs) /\ ticks >= 1 => Sound(r)
<1> DEFINE n == Len(cs)
           r == Tick(cs, d, amount, ticks)
<1>1. /\ cs \in Seq(Values(D)) /\ n \in Nat /\ Distinct(cs)
      /\ \A i \in 1 .. n : cs[i] \in Values(D)
  BY DEF CountersGood
<1>2. CountersGood(r, D)
  BY TickOK
<1>3. Distinct(r) /\ r \in Seq(Values(D))
  BY <1>2 DEF CountersGood
<1>4. CASE Places(cs, d) = {}
  <2> DEFINE c == Raised(NewCounter(d), amount, ticks)
  <2>1. NewCounter(d) \in Values(D) /\ NewCounter(d).def = d
        /\ NewCounter(d).peak = 0 /\ NewCounter(d).value = 0
        /\ NewCounter(d).ticks = 0
    BY DEF NewCounter, Values
  <2>2. /\ c \in Values(D) /\ c.def = d /\ c.ticks = ticks
        /\ c.def \notin MaxDefs => c.peak <= c.value
    <3> DEFINE o == NewCounter(d)
    <3>1. o \in Values(D) /\ o.def = d /\ o.ticks = 0 /\ o.peak <= o.value
      BY <2>1
    <3> HIDE DEF o
    <3>2. /\ Raised(o, amount, ticks) \in Values(D)
          /\ Raised(o, amount, ticks).def = o.def
          /\ Raised(o, amount, ticks).ticks = o.ticks + ticks
          /\ o.def \notin MaxDefs /\ o.peak <= o.value =>
               Raised(o, amount, ticks).peak <= Raised(o, amount, ticks).value
      BY <3>1, RaisedOK, RaisedParts
    <3> QED BY <3>1, <3>2 DEF o
  <2>3. r = Append(cs, c)
    BY <1>4 DEF Tick
  <2>4. Counter(cs, d) = NewCounter(d)
    BY <1>4 DEF Counter
  <2> HIDE DEF c, r, n
  <2>5. /\ Len(r) = n + 1 /\ r[n + 1] = c /\ \A i \in 1 .. n : r[i] = cs[i]
    BY <1>1, <2>2, <2>3, AppendProperties DEF n
  <2>6. n + 1 \in Places(r, d)
    BY <1>1, <2>2, <2>5 DEF Places
  <2>7. Counter(r, d) = c
    BY <1>3, <2>5, <2>6, CounterAt
  <2>8. ASSUME NEW e, e # d PROVE Counter(r, e) = Counter(cs, e)
    <3>1. Places(r, e) = Places(cs, e)
      BY <1>1, <2>2, <2>5, <2>8 DEF Places, n
    <3>2. \A i \in Places(cs, e) : r[i] = cs[i]
      BY <2>5 DEF Places, n
    <3> QED BY <3>1, <3>2 DEF Counter
  <2>9. ASSUME Sound(cs), ticks >= 1 PROVE Sound(r)
    <3> SUFFICES ASSUME NEW i \in 1 .. (n + 1)
                 PROVE  /\ r[i].ticks >= 1
                        /\ r[i].def \notin MaxDefs => r[i].peak <= r[i].value
      BY <2>5 DEF Sound
    <3>1. CASE i = n + 1
      BY <2>2, <2>5, <2>9, <3>1
    <3>2. CASE i \in 1 .. n
      BY <2>5, <2>9, <3>2 DEF Sound, n
    <3> QED BY <1>1, <3>1, <3>2
  <2> QED BY <2>4, <2>7, <2>8, <2>9 DEF c, r
<1>5. CASE Places(cs, d) # {}
  <2>1. r = [i \in 1 .. n |->
               IF cs[i].def = d THEN Raised(cs[i], amount, ticks) ELSE cs[i]]
    BY <1>5 DEF Tick
  <2> HIDE DEF r, n
  <2>2. Len(r) = n
    BY <1>1, <2>1
  <2>3. ASSUME NEW i \in 1 .. n
        PROVE  /\ r[i].def = cs[i].def
               /\ cs[i].def = d => r[i] = Raised(cs[i], amount, ticks)
               /\ cs[i].def # d => r[i] = cs[i]
               /\ Sound(cs) /\ ticks >= 1 =>
                    /\ r[i].ticks >= 1
                    /\ r[i].def \notin MaxDefs => r[i].peak <= r[i].value
    <3>1. r[i] = IF cs[i].def = d THEN Raised(cs[i], amount, ticks) ELSE cs[i]
      BY <2>1
    <3>2. cs[i] \in Values(D) /\ cs[i].ticks \in Nat
      BY <1>1 DEF Values
    <3>3. LET q == Raised(cs[i], amount, ticks) IN
          /\ q.def = cs[i].def /\ q.ticks = cs[i].ticks + ticks
          /\ cs[i].def \notin MaxDefs /\ cs[i].peak <= cs[i].value => q.peak <= q.value
      BY <3>2, RaisedParts
    <3>4. Sound(cs) => /\ cs[i].ticks >= 1
                       /\ cs[i].def \notin MaxDefs => cs[i].peak <= cs[i].value
      BY DEF Sound, n
    <3> QED BY <3>1, <3>2, <3>3, <3>4
  <2>4. \A e : Places(r, e) = Places(cs, e)
    BY <2>2, <2>3 DEF Places, n
  <2>5. Counter(r, d) = Raised(Counter(cs, d), amount, ticks)
    <3>1. PICK i \in Places(cs, d) : TRUE
      BY <1>5
    <3>2. i \in 1 .. n /\ cs[i].def = d
      BY <3>1 DEF Places, n
    <3>3. Counter(cs, d) = cs[i] /\ Counter(r, d) = r[i]
      BY <1>1, <1>3, <2>4, <3>1, CounterAt
    <3> QED BY <2>3, <3>2, <3>3
  <2>6. ASSUME NEW e, e # d PROVE Counter(r, e) = Counter(cs, e)
    <3>1. \A i \in Places(cs, e) : r[i] = cs[i]
      BY <2>3, <2>6 DEF Places, n
    <3>2. Places(r, e) = Places(cs, e)
      BY <2>4
    <3> QED BY <3>1, <3>2 DEF Counter
  <2>7. Sound(cs) /\ ticks >= 1 => Sound(r)
    BY <2>2, <2>3 DEF Sound
  <2> QED BY <2>5, <2>6, <2>7 DEF r
<1> QED BY <1>4, <1>5

(* A counter merged into a frame is ticked once: its peak is not above its
   value, as only resources make it so. *)
LEMMA MergedCounter ==
  ASSUME NEW D, NEW cs, CountersGood(cs, D), NEW c \in Values(D), Roomy(cs, c.def),
         Sound(cs), c.ticks >= 1, c.def \notin MaxDefs => c.peak <= c.value
  PROVE  LET r == Merged(cs, c)
             o == Counter(cs, c.def) IN
         /\ \A e : e # c.def => Counter(r, e) = Counter(cs, e)
         /\ Counter(r, c.def).ticks = o.ticks + c.ticks
         /\ c.def \notin MaxDefs => Counter(r, c.def).value = o.value + c.value
         /\ c.def \in MaxDefs =>
              Counter(r, c.def).value = IF o.value < c.value THEN c.value ELSE o.value
         /\ Sound(r)
<1>1. c.def \in D /\ c.ticks \in Nat /\ c.value \in Nat /\ c.peak \in Nat
  BY DEF Values
<1>2. Merged(cs, c) = Tick(cs, c.def, c.value, c.ticks)
  BY <1>1 DEF Merged
<1>3. LET r == Tick(cs, c.def, c.value, c.ticks) IN
      /\ Counter(r, c.def) = Raised(Counter(cs, c.def), c.value, c.ticks)
      /\ \A e : e # c.def => Counter(r, e) = Counter(cs, e)
      /\ Sound(r)
  BY <1>1, TickCounter
<1>4. cs \in Seq(Values(D))
  BY DEF CountersGood
<1>5. Counter(cs, c.def) \in Values({c.def})
  BY <1>4, CounterType
<1>6. Counter(cs, c.def).def = c.def
  BY <1>5 DEF Values
<1>7. LET q == Raised(Counter(cs, c.def), c.value, c.ticks)
          o == Counter(cs, c.def) IN
      /\ q.ticks = o.ticks + c.ticks
      /\ o.def \notin MaxDefs => q.value = o.value + c.value
      /\ o.def \in MaxDefs =>
              q.value = IF o.value < c.value THEN c.value ELSE o.value
  <2> DEFINE o == Counter(cs, c.def)
  <2>1. o \in Values(D)
    BY <1>1, <1>5 DEF Values
  <2> HIDE DEF o
  <2>2. ASSUME NEW v \in Nat, NEW t \in Nat
        PROVE  LET q == Raised(o, v, t) IN
               /\ q.ticks = o.ticks + t
               /\ o.def \notin MaxDefs => q.value = o.value + v
               /\ o.def \in MaxDefs => q.value = IF o.value < v THEN v ELSE o.value
    BY <2>1, RaisedParts
  <2> QED BY <1>1, <2>2 DEF o
<1> QED BY <1>2, <1>3, <1>6, <1>7

(* Without its first counter a list has no counter of that kind. *)
LEMMA TailCounter ==
  ASSUME NEW D, NEW cs \in Seq(Values(D)), Distinct(cs), Sound(cs), cs # <<>>
  PROVE  /\ Counter(cs, Head(cs).def) = Head(cs)
         /\ Counter(Tail(cs), Head(cs).def) = NewCounter(Head(cs).def)
         /\ \A e : e # Head(cs).def => Counter(Tail(cs), e) = Counter(cs, e)
         /\ Head(cs).ticks >= 1
         /\ Head(cs).def \notin MaxDefs => Head(cs).peak <= Head(cs).value
         /\ Sound(Tail(cs)) /\ Distinct(Tail(cs))
<1> DEFINE n == Len(cs)
           t == Tail(cs)
           h == Head(cs)
<1>1. /\ n \in Nat /\ n >= 1 /\ h = cs[1] /\ Len(t) = n - 1
      /\ t \in Seq(Values(D))
      /\ \A i \in 1 .. (n - 1) : t[i] = cs[i + 1]
  OBVIOUS
<1>2. \A i, j \in 1 .. n : cs[i].def = cs[j].def => i = j
  BY DEF Distinct
<1>3. \A i \in 1 .. n : /\ cs[i].ticks >= 1
                        /\ cs[i].def \notin MaxDefs => cs[i].peak <= cs[i].value
  BY DEF Sound
<1> HIDE DEF n, t, h
<1>4. 1 \in 1 .. n
  BY <1>1
<1>5. 1 \in Places(cs, h.def)
  BY <1>1, <1>4 DEF Places, n
<1>6. Counter(cs, h.def) = h
  BY <1>1, <1>5, CounterAt
<1>7. Distinct(t)
  <2> SUFFICES ASSUME NEW i \in 1 .. (n - 1), NEW j \in 1 .. (n - 1), t[i].def = t[j].def
               PROVE  i = j
    BY <1>1 DEF Distinct
  <2>1. i + 1 \in 1 .. n /\ j + 1 \in 1 .. n /\ cs[i + 1].def = cs[j + 1].def
    BY <1>1
  <2>2. i + 1 = j + 1
    BY <1>2, <2>1
  <2> QED BY <2>2
<1>8. Sound(t)
  <2> SUFFICES ASSUME NEW i \in 1 .. (n - 1)
               PROVE  /\ t[i].ticks >= 1
                      /\ t[i].def \notin MaxDefs => t[i].peak <= t[i].value
    BY <1>1 DEF Sound
  <2>1. i + 1 \in 1 .. n /\ t[i] = cs[i + 1]
    BY <1>1
  <2> QED BY <1>3, <2>1
<1>9. Counter(t, h.def) = NewCounter(h.def)
  <2>1. \A i \in 1 .. (n - 1) : t[i].def # h.def
    <3> SUFFICES ASSUME NEW i \in 1 .. (n - 1), t[i].def = h.def PROVE FALSE
      OBVIOUS
    <3>1. i + 1 \in 1 .. n /\ cs[i + 1].def = cs[1].def
      BY <1>1
    <3>2. i + 1 = 1
      BY <1>2, <1>4, <3>1
    <3> QED BY <3>2
  <2>2. Places(t, h.def) = {}
    BY <1>1, <2>1 DEF Places
  <2> QED BY <2>2 DEF Counter
<1>10. ASSUME NEW e, e # h.def PROVE Counter(t, e) = Counter(cs, e)
  <2>1. CASE Places(t, e) = {}
    <3>1. Places(cs, e) = {}
      <4> SUFFICES ASSUME NEW i \in 1 .. n, cs[i].def = e PROVE FALSE
        BY DEF Places, n
      <4>1. i # 1
        BY <1>1, <1>10
      <4>2. i - 1 \in 1 .. (n - 1) /\ (i - 1) + 1 = i
        BY <1>1, <4>1
      <4>3. t[i - 1].def = e
        BY <1>1, <4>2
      <4>4. i - 1 \in Places(t, e)
        BY <1>1, <4>2, <4>3 DEF Places
      <4> QED BY <2>1, <4>4
    <3> QED BY <2>1, <3>1 DEF Counter
  <2>2. CASE Places(t, e) # {}
    <3>1. PICK i \in Places(t, e) : TRUE
      BY <2>2
    <3>2. i \in 1 .. (n - 1) /\ t[i].def = e
      BY <1>1, <3>1 DEF Places
    <3>3. i + 1 \in 1 .. n /\ cs[i + 1] = t[i]
      BY <1>1, <3>2
    <3>4. i + 1 \in Places(cs, e)
      BY <3>2, <3>3 DEF Places, n
    <3> QED BY <1>7, <3>1, <3>3, <3>4, CounterAt
  <2> QED BY <2>1, <2>2
<1> QED BY <1>1, <1>3, <1>4, <1>6, <1>7, <1>8, <1>9, <1>10 DEF t, h

(* The sum of a step: one value may change, values may come as 0 or go at 0. *)
LEMMA SumStep ==
  ASSUME NEW X, IsFiniteSet(X), NEW Y, IsFiniteSet(Y), NEW f, NEW g, NEW z,
         \A x \in X : f[x] \in Int, \A y \in Y : g[y] \in Int,
         \A x \in (X \cup Y) \ {z} : (IF x \in Y THEN g[x] ELSE 0) =
                                     (IF x \in X THEN f[x] ELSE 0)
  PROVE  SumFunctionOnSet(g, Y) = SumFunctionOnSet(f, X)
           + (IF z \in Y THEN g[z] ELSE 0) - (IF z \in X THEN f[z] ELSE 0)
<1> DEFINE Z == X \cup Y \cup {z}
           F == [x \in Z |-> IF x \in X THEN f[x] ELSE 0]
           G == [x \in Z |-> IF x \in Y THEN g[x] ELSE 0]
<1>1. IsFiniteSet(Z)
  BY FS_Union, FS_AddElement, Zenon
<1>2. \A x \in Z : F[x] \in Int /\ G[x] \in Int
  OBVIOUS
<1>3. /\ \A x \in X : F[x] = f[x]
      /\ \A x \in Z \ X : F[x] = 0
      /\ \A x \in Y : G[x] = g[x]
      /\ \A x \in Z \ Y : G[x] = 0
      /\ X \in SUBSET Z /\ Y \in SUBSET Z /\ z \in Z
  OBVIOUS
<1>4. \A x \in Z \ {z} : G[x] = F[x]
  OBVIOUS
<1>5. G[z] = (IF z \in Y THEN g[z] ELSE 0) /\ F[z] = (IF z \in X THEN f[z] ELSE 0)
  OBVIOUS
<1> HIDE DEF Z, F, G
<1>6. SumFunctionOnSet(F, Z) = SumFunctionOnSet(F, X) /\ SumFunctionOnSet(F, X) = SumFunctionOnSet(f, X)
  <2>1. SumFunctionOnSet(F, Z) = SumFunctionOnSet(F, X)
    <3>1. \A x \in Z : F[x] \in Int
      BY <1>2
    <3>2. \A x \in Z \ X : F[x] = 0
      BY <1>3
    <3>3. X \in SUBSET Z
      BY <1>3
    <3> QED BY ONLY <1>1, <3>1, <3>2, <3>3, SumZeros
  <2>2. SumFunctionOnSet(F, X) = SumFunctionOnSet(f, X)
    BY <1>3, SumSame
  <2> QED BY <2>1, <2>2
<1>7. SumFunctionOnSet(G, Z) = SumFunctionOnSet(G, Y) /\ SumFunctionOnSet(G, Y) = SumFunctionOnSet(g, Y)
  <2>1. SumFunctionOnSet(G, Z) = SumFunctionOnSet(G, Y)
    <3>1. \A x \in Z : G[x] \in Int
      BY <1>2
    <3>2. \A x \in Z \ Y : G[x] = 0
      BY <1>3
    <3>3. Y \in SUBSET Z
      BY <1>3
    <3> QED BY ONLY <1>1, <3>1, <3>2, <3>3, SumZeros
  <2>2. SumFunctionOnSet(G, Y) = SumFunctionOnSet(g, Y)
    BY <1>3, SumSame
  <2> QED BY <2>1, <2>2
<1>8. SumFunctionOnSet(G, Z) = SumFunctionOnSet(F, Z) + (G[z] - F[z])
  <2> DEFINE e == G[z] - F[z]
  <2>1. e \in Int /\ G[z] = F[z] + e /\ z \in Z
    BY <1>2, <1>3
  <2>2. \A x \in Z : F[x] \in Int
    BY <1>2
  <2> HIDE DEF e
  <2>3. SumFunctionOnSet(G, Z) = SumFunctionOnSet(F, Z) + e
    BY ONLY <1>1, <1>4, <2>1, <2>2, SumChange
  <2> QED BY <2>3 DEF e
<1>9. SumFunctionOnSet(F, Z) \in Int
  BY <1>1, <1>2, SumInt
<1> QED BY <1>2, <1>3, <1>5, <1>6, <1>7, <1>8, <1>9
-----------------------------------------------------------------------------
(* The walk of mergeFrom *)

(* t is the path of n or of a caller of n. *)
Below(t, n) == Len(t) <= Len(n) /\ \A k \in 1 .. Len(t) : n[k] = t[k]

(* Node n is still to be merged when the nodes of list l are. *)
Reached(l, n) == \E i \in 1 .. Len(l) : Below(l[i], n)
Apart(l) == \A i, j \in 1 .. Len(l) : Below(l[i], l[j]) => i = j

(* What is below a child is below its parent, and is not the parent. *)
LEMMA BelowChild ==
  ASSUME NEW n \in Seq(Address), NEW a \in Address, NEW m \in Seq(Address)
  PROVE  /\ Below(Append(n, a), m) => /\ Below(n, m) /\ m # n
                                      /\ Len(n) + 1 <= Len(m)
                                      /\ m[Len(n) + 1] = a
         /\ Below(m, Append(n, a)) => Below(m, n) \/ Below(n, m)
         /\ Below(n, n)
<1> DEFINE c == Append(n, a)
<1>1. /\ Len(n) \in Nat /\ Len(m) \in Nat
      /\ Len(c) = Len(n) + 1 /\ c[Len(n) + 1] = a
      /\ \A i \in 1 .. Len(n) : c[i] = n[i]
  BY AppendProperties
<1> HIDE DEF c
<1>2. ASSUME Below(c, m)
      PROVE  Below(n, m) /\ m # n /\ Len(n) + 1 <= Len(m) /\ m[Len(n) + 1] = a
  <2>1. Len(n) + 1 <= Len(m) /\ \A i \in 1 .. (Len(n) + 1) : m[i] = c[i]
    BY <1>1, <1>2 DEF Below
  <2>2. \A i \in 1 .. Len(n) : i \in 1 .. (Len(n) + 1)
    BY <1>1
  <2>3. m[Len(n) + 1] = a /\ m # n
    BY <1>1, <2>1
  <2> QED BY <1>1, <2>1, <2>2, <2>3 DEF Below
<1>3. ASSUME Below(m, c) PROVE Below(m, n) \/ Below(n, m)
  <2>1. Len(m) <= Len(n) + 1 /\ \A i \in 1 .. Len(m) : c[i] = m[i]
    BY <1>1, <1>3 DEF Below
  <2>2. CASE Len(m) <= Len(n)
    <3>1. \A i \in 1 .. Len(m) : i \in 1 .. Len(n)
      BY <1>1, <2>2
    <3> QED BY <1>1, <2>1, <2>2, <3>1 DEF Below
  <2>3. CASE Len(m) = Len(n) + 1
    <3>1. \A i \in 1 .. Len(n) : i \in 1 .. Len(m)
      BY <1>1, <2>3
    <3> QED BY <1>1, <2>1, <2>3, <3>1 DEF Below
  <2> QED BY <1>1, <2>1, <2>2, <2>3
<1>4. Below(n, n)
  BY <1>1 DEF Below
<1> QED BY <1>2, <1>3, <1>4 DEF c

(* Between a node and one below it stands a child of the former. *)
LEMMA ChildBetween ==
  ASSUME NEW t, TreeOK(t), NEW n \in DOMAIN t, NEW m \in DOMAIN t,
         Below(n, m), m # n
  PROVE  \E i \in 1 .. Len(t[n]) : Below(Append(n, t[n][i]), m)
<1> DEFINE Child(x) == \E a \in Elems(t[n]) : a \in Address /\ Below(Append(n, a), x)
           Q == {k \in Nat : \A x \in DOMAIN t :
                   Len(x) = Len(n) + 1 + k /\ Below(n, x) => Child(x)}
<1>1. /\ DOMAIN t \subseteq Seq(Address)
      /\ \A x \in DOMAIN t : t[x] \in Seq(Address)
      /\ \A x \in DOMAIN t \ {Root} : Up(x) \in DOMAIN t /\ x[Len(x)] \in Elems(t[Up(x)])
  BY DEF TreeOK, Closed
<1>2. n \in Seq(Address) /\ Len(n) \in Nat
  BY <1>1
<1>3. ASSUME NEW x \in DOMAIN t, Len(x) >= Len(n) + 1, Below(n, x)
      PROVE  /\ x \in Seq(Address) /\ Len(x) \in Nat
             /\ Up(x) \in DOMAIN t /\ Len(Up(x)) = Len(x) - 1
             /\ \A i \in 1 .. (Len(x) - 1) : Up(x)[i] = x[i]
             /\ Below(n, Up(x))
             /\ x[Len(x)] \in Elems(t[Up(x)]) /\ x[Len(x)] \in Address
  <2>1. x \in Seq(Address) /\ Len(x) \in Nat /\ x # Root
    BY <1>1, <1>2, <1>3 DEF Root
  <2>2. Up(x) \in DOMAIN t /\ x[Len(x)] \in Elems(t[Up(x)]) /\ x[Len(x)] \in Address
    BY <1>1, <1>2, <1>3, <2>1
  <2>3. Len(Up(x)) = Len(x) - 1 /\ \A i \in 1 .. (Len(x) - 1) : Up(x)[i] = x[i]
    <3> DEFINE k == Len(x) - 1
    <3>1. k \in Nat /\ k \in 0 .. Len(x) /\ Up(x) = SubSeq(x, 1, k)
      BY <1>2, <1>3, <2>1 DEF Up
    <3> HIDE DEF k
    <3>2. Len(Up(x)) = k /\ \A i \in 1 .. k : Up(x)[i] = x[i]
      BY <2>1, <3>1
    <3> QED BY <3>2 DEF k
  <2>4. Below(n, Up(x))
    <3>1. \A i \in 1 .. Len(n) : x[i] = n[i] /\ i \in 1 .. (Len(x) - 1)
      BY <1>2, <1>3, <2>1 DEF Below
    <3> QED BY <1>2, <1>3, <2>1, <2>3, <3>1 DEF Below
  <2> QED BY <2>1, <2>2, <2>3, <2>4
<1>4. 0 \in Q
  <2> SUFFICES ASSUME NEW x \in DOMAIN t, Len(x) = Len(n) + 1, Below(n, x)
               PROVE  Child(x)
    BY <1>2
  <2> DEFINE a == x[Len(x)]
             c == Append(n, a)
  <2>1. /\ x \in Seq(Address) /\ Up(x) \in DOMAIN t /\ Len(Up(x)) = Len(n)
        /\ Below(n, Up(x)) /\ a \in Elems(t[Up(x)]) /\ a \in Address
    BY <1>2, <1>3
  <2>2. Up(x) = n
    <3>1. Up(x) \in Seq(Address) /\ \A i \in 1 .. Len(n) : Up(x)[i] = n[i]
      BY <1>1, <2>1 DEF Below
    <3> QED BY <1>2, <2>1, <3>1, SeqEqual
  <2>3. Len(c) = Len(n) + 1 /\ c[Len(n) + 1] = a /\ \A i \in 1 .. Len(n) : c[i] = n[i]
    BY <1>2, <2>1, AppendProperties
  <2>4. \A i \in 1 .. (Len(n) + 1) : x[i] = c[i]
    <3> SUFFICES ASSUME NEW i \in 1 .. (Len(n) + 1) PROVE x[i] = c[i]
      OBVIOUS
    <3>1. CASE i = Len(n) + 1
      BY <2>3, <3>1
    <3>2. CASE i \in 1 .. Len(n)
      <4>1. x[i] = n[i]
        BY <3>2 DEF Below
      <4> QED BY <2>3, <3>2, <4>1
    <3> QED BY <1>2, <3>1, <3>2
  <2>5. Below(c, x)
    BY <2>3, <2>4 DEF Below
  <2> QED BY <2>1, <2>2, <2>5
<1>5. ASSUME NEW k \in Nat, k \in Q PROVE k + 1 \in Q
  <2> SUFFICES ASSUME NEW x \in DOMAIN t, Len(x) = Len(n) + 1 + (k + 1), Below(n, x)
               PROVE  Child(x)
    OBVIOUS
  <2>1. /\ x \in Seq(Address) /\ Up(x) \in DOMAIN t /\ Len(Up(x)) = Len(n) + 1 + k
        /\ Below(n, Up(x)) /\ Len(Up(x)) = Len(x) - 1
        /\ \A i \in 1 .. (Len(x) - 1) : Up(x)[i] = x[i]
    <3>1. Len(x) >= Len(n) + 1
      BY <1>2
    <3>2. /\ x \in Seq(Address) /\ Up(x) \in DOMAIN t /\ Len(Up(x)) = Len(x) - 1
          /\ Below(n, Up(x)) /\ \A i \in 1 .. (Len(x) - 1) : Up(x)[i] = x[i]
      BY <1>3, <3>1
    <3> QED BY <1>2, <3>2
  <2>2. PICK a \in Elems(t[n]) : a \in Address /\ Below(Append(n, a), Up(x))
    BY <1>5, <2>1
  <2> DEFINE c == Append(n, a)
  <2>3. Len(c) = Len(n) + 1
    BY <1>2, <2>2, AppendProperties
  <2> HIDE DEF c
  <2>4. Len(c) <= Len(x) /\ \A i \in 1 .. Len(c) : Up(x)[i] = c[i] /\ i \in 1 .. (Len(x) - 1)
    BY <1>2, <2>1, <2>2, <2>3 DEF Below, c
  <2>5. Below(c, x)
    BY <2>1, <2>4 DEF Below
  <2> QED BY <2>2, <2>5 DEF c
<1>6. Nat \subseteq Q
  <2> HIDE DEF Q
  <2> QED BY <1>4, <1>5, NumberInduction
<1>7. m \in Seq(Address) /\ Len(m) >= Len(n) + 1
  <2>1. m \in Seq(Address) /\ Len(m) \in Nat /\ Len(n) <= Len(m)
        /\ \A i \in 1 .. Len(n) : m[i] = n[i]
    BY <1>1 DEF Below
  <2>2. Len(m) = Len(n) => m = n
    BY <1>2, <2>1, SeqEqual
  <2> QED BY <1>2, <2>1, <2>2
<1>8. Child(m)
  <2> DEFINE k == Len(m) - (Len(n) + 1)
  <2>1. k \in Nat /\ Len(m) = Len(n) + 1 + k
    BY <1>2, <1>7
  <2>2. k \in Q
    BY <1>6, <2>1
  <2> QED BY <2>1, <2>2
<1> QED BY <1>8 DEF Elems

(* One step of mergeFrom takes one node off those to be merged, and leaves them
   apart, so that no node is merged twice and none is left out. *)
LEMMA Descend ==
  ASSUME NEW t, TreeOK(t), NEW l \in Seq(DOMAIN t), l # <<>>, Apart(l)
  PROVE  LET n == Head(l)
             r == [i \in 1 .. Len(t[n]) |-> Append(n, t[n][i])] \o Tail(l)
         IN  /\ n \in DOMAIN t /\ Reached(l, n) /\ Apart(r)
             /\ \A m \in DOMAIN t : Reached(r, m) <=> Reached(l, m) /\ m # n
<1> DEFINE n == Head(l)
           ks == t[n]
           u == [i \in 1 .. Len(ks) |-> Append(n, ks[i])]
           v == Tail(l)
           r == u \o v
<1>1. /\ DOMAIN t \subseteq Seq(Address) /\ n \in DOMAIN t /\ n = l[1]
      /\ Len(l) \in Nat /\ Len(l) >= 1 /\ Len(v) = Len(l) - 1
      /\ \A j \in 1 .. Len(v) : v[j] = l[j + 1] /\ v[j] \in DOMAIN t
      /\ \A j \in 1 .. Len(l) : l[j] \in DOMAIN t
      /\ v \in Seq(DOMAIN t)
  BY DEF TreeOK
<1>2. ks \in Seq(Address) /\ Len(ks) \in Nat /\ Ascending(ks)
      /\ \A i \in 1 .. Len(ks) : ks[i] \in Address /\ ks[i] \in Nat
  <2>1. ks \in Seq(Address) /\ Ascending(ks)
    BY <1>1 DEF TreeOK, Sorted
  <2> QED BY <2>1, AddressList
<1>3. \A j \in 1 .. Len(v) : ~ Below(v[j], n) /\ ~ Below(n, v[j])
  <2> SUFFICES ASSUME NEW j \in 1 .. Len(v) PROVE ~ Below(v[j], n) /\ ~ Below(n, v[j])
    OBVIOUS
  <2>1. 1 \in 1 .. Len(l) /\ j + 1 \in 1 .. Len(l) /\ j + 1 # 1
    BY <1>1
  <2> QED BY <1>1, <2>1 DEF Apart
<1>13. \A j \in 1 .. Len(v) : j + 1 \in 1 .. Len(l) /\ l[j + 1] = v[j]
  BY <1>1
<1>14. \A k \in 1 .. Len(l) : k # 1 => k - 1 \in 1 .. Len(v) /\ v[k - 1] = l[k]
  <2> SUFFICES ASSUME NEW k \in 1 .. Len(l), k # 1
               PROVE  k - 1 \in 1 .. Len(v) /\ v[k - 1] = l[k]
    OBVIOUS
  <2>1. k - 1 \in 1 .. Len(v) /\ (k - 1) + 1 = k
    BY <1>1
  <2> QED BY <1>13, <2>1
<1>4. n \in Seq(Address) /\ Below(n, n)
  BY <1>1, BelowChild, AddressAssumption DEF Below
<1> HIDE DEF n, ks, v
<1>5. /\ Len(u) = Len(ks) /\ u \in Seq(Seq(Address))
      /\ \A i \in 1 .. Len(ks) : u[i] = Append(n, ks[i])
  <2>1. Len(u) = Len(ks) /\ \A i \in 1 .. Len(ks) : u[i] = Append(n, ks[i])
    BY <1>2
  <2>2. u \in [1 .. Len(ks) -> Seq(Address)]
    BY <1>2, <1>4
  <2> QED BY <1>2, <2>1, <2>2, SequenceOf
<1> HIDE DEF u
<1>6. v \in Seq(Seq(Address))
  BY <1>1
<1>7. /\ Len(r) = Len(ks) + Len(v)
      /\ \A i \in 1 .. Len(ks) : r[i] = Append(n, ks[i])
      /\ \A j \in 1 .. Len(v) : r[Len(ks) + j] = v[j]
  <2>1. /\ Len(u \o v) = Len(u) + Len(v)
        /\ \A i \in 1 .. Len(u) : (u \o v)[i] = u[i]
        /\ \A j \in 1 .. Len(v) : (u \o v)[Len(u) + j] = v[j]
    <3>1. /\ Len(u \o v) = Len(u) + Len(v)
          /\ \A i \in 1 .. (Len(u) + Len(v)) :
               (u \o v)[i] = IF i <= Len(u) THEN u[i] ELSE v[i - Len(u)]
      BY <1>5, <1>6, ConcatProperties
    <3>2. Len(u) \in Nat /\ Len(v) \in Nat
      BY <1>1, <1>2, <1>5
    <3>3. ASSUME NEW j \in 1 .. Len(v) PROVE (u \o v)[Len(u) + j] = v[j]
      <4>1. /\ Len(u) + j \in 1 .. (Len(u) + Len(v)) /\ ~ (Len(u) + j <= Len(u))
            /\ (Len(u) + j) - Len(u) = j
        BY <3>2
      <4> QED BY <3>1, <4>1
    <3>4. ASSUME NEW i \in 1 .. Len(u) PROVE (u \o v)[i] = u[i]
      <4>1. i \in 1 .. (Len(u) + Len(v)) /\ i <= Len(u)
        BY <3>2
      <4> QED BY <3>1, <4>1
    <3> QED BY <3>1, <3>3, <3>4
  <2> QED BY <1>5, <2>1
<1> HIDE DEF r
<1>8. \A k \in 1 .. Len(r) : \/ k \in 1 .. Len(ks)
                             \/ k - Len(ks) \in 1 .. Len(v) /\ r[k] = v[k - Len(ks)]
  <2> SUFFICES ASSUME NEW k \in 1 .. Len(r), k \notin 1 .. Len(ks)
               PROVE  k - Len(ks) \in 1 .. Len(v) /\ r[k] = v[k - Len(ks)]
    OBVIOUS
  <2>1. k - Len(ks) \in 1 .. Len(v) /\ k = Len(ks) + (k - Len(ks))
    BY <1>1, <1>2, <1>7
  <2> QED BY <1>7, <2>1
<1>9. Apart(r)
  <2> SUFFICES ASSUME NEW i \in 1 .. Len(r), NEW j \in 1 .. Len(r), Below(r[i], r[j])
               PROVE  i = j
    BY DEF Apart
  <2>1. CASE i \in 1 .. Len(ks) /\ j \in 1 .. Len(ks)
    <3> DEFINE c == Append(n, ks[j])
    <3>1. /\ c \in Seq(Address) /\ Len(c) = Len(n) + 1 /\ c[Len(n) + 1] = ks[j]
      BY <1>2, <1>4, <2>1, AppendProperties
    <3>2. Below(Append(n, ks[i]), c)
      BY <1>7, <2>1
    <3> HIDE DEF c
    <3>3. ks[i] = ks[j]
      BY <1>2, <1>4, <2>1, <3>1, <3>2, BelowChild
    <3>4. ~ (i < j) /\ ~ (j < i)
      BY <1>2, <2>1, <3>3 DEF Ascending
    <3> QED BY <1>2, <2>1, <3>4
  <2>2. CASE i \in 1 .. Len(ks) /\ j \notin 1 .. Len(ks)
    <3> DEFINE q == j - Len(ks)
    <3>1. q \in 1 .. Len(v) /\ r[j] = v[q] /\ r[i] = Append(n, ks[i])
      BY <1>7, <1>8, <2>2
    <3> HIDE DEF q
    <3>2. v[q] \in Seq(Address) /\ Below(Append(n, ks[i]), v[q])
      BY <1>1, <3>1
    <3>3. Below(n, v[q])
      BY <1>2, <1>4, <2>2, <3>2, BelowChild
    <3> QED BY <1>3, <3>1, <3>3
  <2>3. CASE i \notin 1 .. Len(ks) /\ j \in 1 .. Len(ks)
    <3> DEFINE q == i - Len(ks)
    <3>1. q \in 1 .. Len(v) /\ r[i] = v[q] /\ r[j] = Append(n, ks[j])
      BY <1>7, <1>8, <2>3
    <3> HIDE DEF q
    <3>2. v[q] \in Seq(Address) /\ Below(v[q], Append(n, ks[j]))
      BY <1>1, <3>1
    <3>3. Below(v[q], n) \/ Below(n, v[q])
      BY <1>2, <1>4, <2>3, <3>2, BelowChild
    <3> QED BY <1>3, <3>1, <3>3
  <2>4. CASE i \notin 1 .. Len(ks) /\ j \notin 1 .. Len(ks)
    <3> DEFINE p == i - Len(ks)
               q == j - Len(ks)
    <3>1. p \in 1 .. Len(v) /\ r[i] = v[p] /\ q \in 1 .. Len(v) /\ r[j] = v[q]
      BY <1>8, <2>4
    <3>2. p + 1 \in 1 .. Len(l) /\ q + 1 \in 1 .. Len(l) /\ Below(l[p + 1], l[q + 1])
      <4> HIDE DEF p, q
      <4> QED BY <1>13, <3>1
    <3>3. p + 1 = q + 1
      BY <3>2 DEF Apart
    <3> QED BY <1>2, <3>3
  <2> QED BY <2>1, <2>2, <2>3, <2>4
<1>10. Reached(l, n)
  BY <1>1, <1>4 DEF Reached
<1>11. ASSUME NEW m \in DOMAIN t, Reached(r, m) PROVE Reached(l, m) /\ m # n
  <2>1. PICK k \in 1 .. Len(r) : Below(r[k], m)
    BY <1>11 DEF Reached
  <2>2. CASE k \in 1 .. Len(ks)
    <3>1. Below(Append(n, ks[k]), m) /\ m \in Seq(Address)
      BY <1>1, <1>7, <2>1, <2>2
    <3>2. Below(n, m) /\ m # n
      BY <1>2, <1>4, <2>2, <3>1, BelowChild
    <3> QED BY <1>1, <3>2 DEF Reached
  <2>3. CASE k \notin 1 .. Len(ks)
    <3> DEFINE q == k - Len(ks)
    <3>1. q \in 1 .. Len(v) /\ Below(v[q], m)
      BY <1>8, <2>1, <2>3
    <3>2. m # n
      BY <1>3, <3>1
    <3>3. q + 1 \in 1 .. Len(l) /\ Below(l[q + 1], m)
      <4> HIDE DEF q
      <4> QED BY <1>13, <3>1
    <3> QED BY <3>2, <3>3 DEF Reached
  <2> QED BY <2>2, <2>3
<1>12. ASSUME NEW m \in DOMAIN t, Reached(l, m), m # n PROVE Reached(r, m)
  <2>1. PICK k \in 1 .. Len(l) : Below(l[k], m)
    BY <1>12 DEF Reached
  <2>2. CASE k = 1
    <3>1. Below(n, m)
      BY <1>1, <2>1, <2>2
    <3>2. PICK i \in 1 .. Len(ks) : Below(Append(n, ks[i]), m)
      BY <1>1, <1>12, <3>1, ChildBetween DEF ks
    <3>3. i \in 1 .. Len(r) /\ Below(r[i], m)
      <4>1. i \in 1 .. Len(r)
        BY <1>1, <1>2, <1>7
      <4> QED BY <1>7, <3>2, <4>1
    <3> QED BY <3>3 DEF Reached
  <2>3. CASE k # 1
    <3> DEFINE q == k - 1
    <3>1. q \in 1 .. Len(v) /\ v[q] = l[k]
      BY <1>14, <2>3
    <3>2. Len(ks) + q \in 1 .. Len(r) /\ r[Len(ks) + q] = v[q]
      BY <1>1, <1>2, <1>7, <3>1
    <3>3. Below(r[Len(ks) + q], m)
      BY <2>1, <3>1, <3>2
    <3> QED BY <3>2, <3>3 DEF Reached
  <2> QED BY <2>2, <2>3
<1> QED BY <1>1, <1>9, <1>10, <1>11, <1>12 DEF r, u, v, n, ks
-----------------------------------------------------------------------------
(* What the frames hold *)

(* The ticks or the value of a counter. *)
Part(c, k) == IF k = "ticks" THEN c.ticks ELSE c.value

(* The frames that count: those of the buffer being merged only while they are
   still to be merged. *)
Live(x) == src # NoBuffer /\ x[1] = src => Reached(todo, x[2])
LiveOf(N) == {x \in FramesOf(N) : Live(x)}
Mark(x, d) == IF x \in Frames /\ Live(x) THEN At(x, d) ELSE NewCounter(d)

(* The counter that the push in progress will tick for a stack in N. *)
Waiting(N, d) == IF call.active /\ Effective(call.stack) \in N
                 THEN Counter(call.ticks, d) ELSE NewCounter(d)

HeldBy(N, d, k) == SumFunctionOnSet([x \in Frames |-> Part(At(x, d), k)], LiveOf(N))
Covered(N, d, K) == \A x \in LiveOf(N) : At(x, d).value <= K
FramesFinite == IsFiniteSet(Frames)

(* A frame is a node of a buffer, and its counters are numbers. *)
LEMMA FrameType ==
  ASSUME TInv, NEW x \in Frames, NEW d
  PROVE  /\ x[1] \in Buffer /\ x[2] \in DOMAIN kids[x[1]]
         /\ x[2] \in Seq(Address) /\ x = <<x[1], x[2]>>
         /\ CountersGood(ctrs[x[1]][x[2]], Defs)
         /\ At(x, d).ticks \in Nat /\ At(x, d).value \in Nat
<1>1. PICK b \in Buffer : x \in {b} \X Nodes(b)
  BY DEF Frames
<1>2. x[1] = b /\ x[2] \in DOMAIN kids[b] /\ x = <<x[1], x[2]>>
  BY <1>1 DEF Nodes
<1>3. x[2] \in Seq(Address)
  BY <1>1, <1>2 DEF TInv, IInv, TreesOK, TreeOK
<1>4. CountersGood(ctrs[x[1]][x[2]], Defs)
  BY <1>1, <1>2 DEF TInv, CtrsOK
<1>5. ctrs[x[1]][x[2]] \in Seq(Values(Defs))
  BY <1>4 DEF CountersGood
<1>6. At(x, d).ticks \in Nat /\ At(x, d).value \in Nat
  BY <1>5, CounterType DEF At
<1> QED BY <1>1, <1>2, <1>3, <1>4, <1>6

(* The same in the next state. *)
LEMMA NextFrameType ==
  ASSUME TInv', NEW x, NEW d, x \in Frames'
  PROVE  At(x, d)'.ticks \in Nat /\ At(x, d)'.value \in Nat
<1>1. PICK b \in Buffer : x \in {b} \X Nodes(b)'
  BY DEF Frames
<1>2. x[1] = b /\ x[2] \in DOMAIN kids'[b]
  BY <1>1 DEF Nodes
<1>4. CountersGood(ctrs'[x[1]][x[2]], Defs')
  BY <1>1, <1>2 DEF TInv, CtrsOK
<1>5. ctrs'[x[1]][x[2]] \in Seq(Values(Defs'))
  BY <1>4 DEF CountersGood
<1> HIDE DEF Defs
<1>6. Counter(ctrs'[x[1]][x[2]], d).ticks \in Nat /\ Counter(ctrs'[x[1]][x[2]], d).value \in Nat
  BY <1>5, CounterType
<1>7. At(x, d)' = Counter(ctrs'[x[1]][x[2]], d)
  BY DEF At, Counter, Places, NewCounter
<1> QED BY <1>6, <1>7

(* A node of a buffer is a frame. *)
LEMMA FrameOf ==
  ASSUME NEW b \in Buffer, NEW n \in DOMAIN kids[b]
  PROVE  <<b, n>> \in Frames
BY DEF Frames, Nodes

(* A new counter has counted nothing. *)
LEMMA NewParts ==
  ASSUME NEW d
  PROVE  /\ NewCounter(d).ticks = 0 /\ NewCounter(d).value = 0
         /\ \A k : Part(NewCounter(d), k) = 0
BY DEF NewCounter, Part

(* If the mark of no frame but z changes, a sum over frames changes by what the
   mark of z does. *)
LEMMA HeldMove ==
  ASSUME TInv, TInv', FramesFinite, FramesFinite', NEW N, NEW d, NEW k, NEW z,
         \A x : x # z => Mark(x, d)' = Mark(x, d)
  PROVE  /\ HeldBy(N, d, k) \in Int
         /\ HeldBy(N, d, k)' = HeldBy(N, d, k) +
              (IF z[2] \in N THEN Part(Mark(z, d)', k) - Part(Mark(z, d), k) ELSE 0)
<1> DEFINE X == LiveOf(N)
           Y == LiveOf(N)'
           f == [x \in Frames |-> Part(At(x, d), k)]
           g == [x \in Frames' |-> Part(At(x, d)', k)]
<1>1. HeldBy(N, d, k) = SumFunctionOnSet(f, X) /\ HeldBy(N, d, k)' = SumFunctionOnSet(g, Y)
  BY DEF HeldBy, Part
<1>2. X \in SUBSET Frames /\ Y \in SUBSET Frames'
  BY DEF LiveOf, FramesOf
<1>3. IsFiniteSet(X) /\ IsFiniteSet(Y)
  BY <1>2, FS_Subset DEF FramesFinite
<1>4. \A x \in Frames : f[x] \in Int
  BY FrameType DEF Part
<1>5. \A x \in Frames' : g[x] \in Int
  BY NextFrameType DEF Part
<1>6. ASSUME NEW x
      PROVE  (IF x \in X THEN f[x] ELSE 0) = IF x[2] \in N THEN Part(Mark(x, d), k) ELSE 0
  <2>1. x \in X <=> x \in Frames /\ Live(x) /\ x[2] \in N
    BY DEF LiveOf, FramesOf
  <2>2. x \in Frames => f[x] = Part(At(x, d), k)
    OBVIOUS
  <2> QED BY <2>1, <2>2, NewParts DEF Mark
<1>7. ASSUME NEW x
      PROVE  (IF x \in Y THEN g[x] ELSE 0) = IF x[2] \in N THEN Part(Mark(x, d)', k) ELSE 0
  <2>1. x \in Y <=> x \in Frames' /\ Live(x)' /\ x[2] \in N
    BY DEF LiveOf, FramesOf
  <2>2. x \in Frames' => g[x] = Part(At(x, d)', k)
    OBVIOUS
  <2>3. Mark(x, d)' = IF x \in Frames' /\ Live(x)' THEN At(x, d)' ELSE NewCounter(d)
    BY DEF Mark, NewCounter
  <2> QED BY <2>1, <2>2, <2>3, NewParts
<1> HIDE DEF X, Y, f, g
<1>8. \A x \in X : f[x] \in Int
  BY <1>2, <1>4
<1>9. \A x \in Y : g[x] \in Int
  BY <1>2, <1>5
<1>10. \A x \in (X \cup Y) \ {z} : (IF x \in Y THEN g[x] ELSE 0) = (IF x \in X THEN f[x] ELSE 0)
  BY <1>6, <1>7
<1>11. SumFunctionOnSet(g, Y) = SumFunctionOnSet(f, X)
           + (IF z \in Y THEN g[z] ELSE 0) - (IF z \in X THEN f[z] ELSE 0)
  BY <1>3, <1>8, <1>9, <1>10, SumStep
<1>12. SumFunctionOnSet(f, X) \in Int
  BY <1>3, <1>8, SumInt
<1>13. /\ (IF z \in X THEN f[z] ELSE 0) = IF z[2] \in N THEN Part(Mark(z, d), k) ELSE 0
       /\ (IF z \in Y THEN g[z] ELSE 0) = IF z[2] \in N THEN Part(Mark(z, d)', k) ELSE 0
  BY <1>6, <1>7
<1>14. (IF z \in X THEN f[z] ELSE 0) \in Int /\ (IF z \in Y THEN g[z] ELSE 0) \in Int
  BY <1>8, <1>9
<1> QED BY <1>1, <1>11, <1>12, <1>13, <1>14

(* The values of a counter have a bound if its marks have. *)
LEMMA CoveredMarks ==
  ASSUME NEW N, NEW d, NEW K \in Nat
  PROVE  /\ Covered(N, d, K) <=> \A x : x[2] \in N => Mark(x, d).value <= K
         /\ Covered(N, d, K)' <=> \A x : x[2] \in N => Mark(x, d)'.value <= K
<1>1. \A x : x \in LiveOf(N) <=> x \in Frames /\ Live(x) /\ x[2] \in N
  BY DEF LiveOf, FramesOf
<1>2. \A x : x \in LiveOf(N)' <=> x \in Frames' /\ Live(x)' /\ x[2] \in N
  BY DEF LiveOf, FramesOf
<1>3. \A x : Mark(x, d)' = IF x \in Frames' /\ Live(x)' THEN At(x, d)' ELSE NewCounter(d)
  BY DEF Mark, NewCounter
<1>4. NewCounter(d).value <= K
  BY NewParts
<1>5. Covered(N, d, K)' <=> \A x \in LiveOf(N)' : At(x, d)'.value <= K
  BY DEF Covered
<1> QED BY <1>1, <1>2, <1>3, <1>4, <1>5 DEF Covered, Mark
-----------------------------------------------------------------------------
(* The ledger: what the samples cost is held by the frames that count, or waits
   to be ticked *)

Paid(N, k) == SumFunctionOnSet([n \in Paths |-> Part(cost[n], k)], N \cap Paths)
Balanced(N, d, k) == HeldBy(N, d, k) + Part(Waiting(N, d), k) = Paid(N, k)
Dominated(N, d) ==
  \A K \in Nat : Covered(N, d, K) /\ Waiting(N, d).value <= K
                 <=> \A n \in N \cap Paths : cost[n].largest <= K

(* Paths that SelfCosts does not tell apart, and the sets of paths the ledger is
   kept for: any, until a buffer has had a push that was shorter than an earlier
   one, and from then on those that have every path like one of theirs. *)
Alike(m, n) == Len(m) = Len(n) /\ (n # Root => m[Len(m)] = n[Len(n)])
View(N) == shrunk = {} \/ \A m \in N : \A n \in Seq(Address) : Alike(n, m) => n \in N
Agrees(N, d) == /\ Balanced(N, d, "ticks")
                /\ IF d \in MaxDefs THEN Dominated(N, d) ELSE Balanced(N, d, "value")
Ledger == \A N \in SUBSET Seq(Address) : View(N) => \A d \in Defs : Agrees(N, d)

(* A frame with the mark a becomes one with the mark b while the counter that
   waits changes from v to w; "in" says whether the frame is looked at. *)
Moved(in, d, a, v, b, w) ==
  /\ (IF in THEN a.ticks ELSE 0) + v.ticks = (IF in THEN b.ticks ELSE 0) + w.ticks
  /\ IF d \in MaxDefs
     THEN \A K \in Nat : (in => a.value <= K) /\ v.value <= K
                         <=> (in => b.value <= K) /\ w.value <= K
     ELSE (IF in THEN a.value ELSE 0) + v.value = (IF in THEN b.value ELSE 0) + w.value

(* Marks and the waiting counter are numbers. *)
LEMMA MarkType ==
  ASSUME TInv, NEW x, NEW d, NEW N
  PROVE  /\ Mark(x, d).ticks \in Nat /\ Mark(x, d).value \in Nat
         /\ Waiting(N, d).ticks \in Nat /\ Waiting(N, d).value \in Nat
<1>1. Mark(x, d).ticks \in Nat /\ Mark(x, d).value \in Nat
  BY FrameType, NewParts DEF Mark
<1>2. call.ticks \in Seq(Values(Defs))
  BY DEF TInv, TicksOK
<1>3. Counter(call.ticks, d).ticks \in Nat /\ Counter(call.ticks, d).value \in Nat
  BY <1>2, CounterType
<1> QED BY <1>1, <1>3, NewParts DEF Waiting

(* They are in the next state. *)
LEMMA NextMarkType ==
  ASSUME TInv', NEW x, NEW d, NEW N
  PROVE  /\ Mark(x, d)'.ticks \in Nat /\ Mark(x, d)'.value \in Nat
         /\ Waiting(N, d)'.ticks \in Nat /\ Waiting(N, d)'.value \in Nat
<1>1. Mark(x, d)' = IF x \in Frames' /\ Live(x)' THEN At(x, d)' ELSE NewCounter(d)
  BY DEF Mark, NewCounter
<1>2. Mark(x, d)'.ticks \in Nat /\ Mark(x, d)'.value \in Nat
  BY <1>1, NextFrameType, NewParts
<1>3. call'.ticks \in Seq(Values(Defs'))
  BY DEF TInv, TicksOK
<1> HIDE DEF Defs
<1>4. Counter(call'.ticks, d).ticks \in Nat /\ Counter(call'.ticks, d).value \in Nat
  BY <1>3, CounterType
<1>5. Waiting(N, d)' = IF call'.active /\ Effective(call'.stack) \in N
                       THEN Counter(call'.ticks, d) ELSE NewCounter(d)
  BY DEF Waiting, NewCounter, Counter, Places, Effective
<1> QED BY <1>2, <1>4, <1>5, NewParts

(* A step that moves what is held between one frame and the push in progress
   leaves the ledger in order. *)
LEMMA LedgerMove ==
  ASSUME TInv, TInv', FramesFinite, FramesFinite', Ledger,
         UNCHANGED <<profiler, cost>>, shrunk \subseteq shrunk', NEW z,
         \A d \in Defs : \A x : x # z => Mark(x, d)' = Mark(x, d),
         \A N \in SUBSET Seq(Address) : View(N)' => \A d \in Defs :
            Moved(z[2] \in N, d, Mark(z, d), Waiting(N, d), Mark(z, d)', Waiting(N, d)')
  PROVE  Ledger'
<1>1. Defs' = Defs
  BY SameDefs
<1> SUFFICES ASSUME NEW N \in SUBSET Seq(Address), View(N)', NEW d \in Defs
             PROVE  Agrees(N, d)'
  BY <1>1 DEF Ledger
<1>2. View(N)
  BY DEF View
<1>3. Agrees(N, d)
  BY <1>2 DEF Ledger
<1> DEFINE a == Mark(z, d)
           b == Mark(z, d)'
           v == Waiting(N, d)
           w == Waiting(N, d)'
           in == z[2] \in N
<1>4. Moved(in, d, a, v, b, w)
  OBVIOUS
<1>5. /\ a.ticks \in Nat /\ a.value \in Nat /\ v.ticks \in Nat /\ v.value \in Nat
      /\ b.ticks \in Nat /\ b.value \in Nat /\ w.ticks \in Nat /\ w.value \in Nat
  BY MarkType, NextMarkType
<1>6. \A x : x # z => Mark(x, d)' = Mark(x, d)
  OBVIOUS
<1>7. \A k : Paid(N, k)' = Paid(N, k)
  BY DEF Paid, Part, Paths
<1>8. ASSUME NEW k,
             (IF in THEN Part(a, k) ELSE 0) + Part(v, k) = (IF in THEN Part(b, k) ELSE 0) + Part(w, k),
             Balanced(N, d, k)
      PROVE  Balanced(N, d, k)'
  <2>1. /\ HeldBy(N, d, k) \in Int
        /\ HeldBy(N, d, k)' = HeldBy(N, d, k) + (IF in THEN Part(b, k) - Part(a, k) ELSE 0)
    BY <1>6, HeldMove
  <2>2. /\ Part(a, k) \in Int /\ Part(b, k) \in Int
        /\ Part(v, k) \in Int /\ Part(w, k) \in Int
    BY <1>5 DEF Part
  <2>3. HeldBy(N, d, k) + Part(v, k) = Paid(N, k)
    BY <1>8 DEF Balanced
  <2> DEFINE h == HeldBy(N, d, k)
             pa == Part(a, k)
             pb == Part(b, k)
             pv == Part(v, k)
             pw == Part(w, k)
  <2>4. Part(Waiting(N, d), k)' = pw
    BY DEF Part
  <2> HIDE DEF h, pa, pb, pv, pw
  <2>5. (HeldBy(N, d, k))' + pw = Paid(N, k)
    BY <1>8, <2>1, <2>2, <2>3 DEF h, pa, pb, pv, pw
  <2>6. HeldBy(N, d, k)' + Part(Waiting(N, d), k)' = Paid(N, k)'
    BY <1>7, <2>4, <2>5
  <2> QED BY <2>6 DEF Balanced
<1>9. Balanced(N, d, "ticks")'
  BY <1>3, <1>4, <1>8 DEF Agrees, Moved, Part
<1>10. CASE d \notin MaxDefs
  <2>1. Balanced(N, d, "value")'
    BY <1>3, <1>4, <1>8, <1>10 DEF Agrees, Moved, Part
  <2> QED BY <1>9, <1>10, <2>1 DEF Agrees
<1>11. CASE d \in MaxDefs
  <2>1. Dominated(N, d)
    BY <1>3, <1>11 DEF Agrees
  <2>2. ASSUME NEW K \in Nat
        PROVE  Covered(N, d, K)' /\ w.value <= K <=> Covered(N, d, K) /\ v.value <= K
    <3>1. (in => a.value <= K) /\ v.value <= K <=> (in => b.value <= K) /\ w.value <= K
      BY <1>4, <1>11 DEF Moved
    <3>2. /\ Covered(N, d, K) <=> \A x : x[2] \in N => Mark(x, d).value <= K
          /\ Covered(N, d, K)' <=> \A x : x[2] \in N => Mark(x, d)'.value <= K
      BY CoveredMarks
    <3>3. Covered(N, d, K) <=> /\ in => a.value <= K
                               /\ \A x : x # z /\ x[2] \in N => Mark(x, d).value <= K
      BY <3>2
    <3>4. Covered(N, d, K)' <=> /\ in => b.value <= K
                                /\ \A x : x # z /\ x[2] \in N => Mark(x, d).value <= K
      BY <1>6, <3>2
    <3> QED BY <3>1, <3>3, <3>4
  <2>3. Dominated(N, d)' <=>
          \A K \in Nat : Covered(N, d, K)' /\ w.value <= K
                         <=> \A n \in N \cap Paths : cost[n].largest <= K
    BY DEF Dominated, Paths
  <2>4. Dominated(N, d)'
    BY <2>1, <2>2, <2>3 DEF Dominated
  <2> QED BY <1>9, <1>11, <2>4 DEF Agrees
<1> QED BY <1>10, <1>11

(* Steps that change no mark and nothing that waits. *)
LEMMA LedgerSame ==
  ASSUME TInv, TInv', FramesFinite, FramesFinite', Ledger,
         UNCHANGED <<profiler, cost>>, shrunk \subseteq shrunk',
         \A d \in Defs : \A x : Mark(x, d)' = Mark(x, d),
         \A N \in SUBSET Seq(Address) : View(N)' => \A d \in Defs : Waiting(N, d)' = Waiting(N, d)
  PROVE  Ledger'
<1> DEFINE z == <<Master, Root>>
<1>1. ASSUME NEW N \in SUBSET Seq(Address), View(N)', NEW d \in Defs
      PROVE  Moved(z[2] \in N, d, Mark(z, d), Waiting(N, d), Mark(z, d)', Waiting(N, d)')
  <2>1. Mark(z, d)' = Mark(z, d) /\ Waiting(N, d)' = Waiting(N, d)
    BY <1>1
  <2> QED BY <2>1 DEF Moved
<1> HIDE DEF z
<1> QED BY <1>1, LedgerMove
-----------------------------------------------------------------------------
(* The shape of trees, counters and merges *)

Short == \A b \in Buffer : \A n \in DOMAIN kids[b] : Len(n) <= MaxDepth
AllSound == /\ \A b \in Buffer : \A n \in DOMAIN kids[b] : Sound(ctrs[b][n])
            /\ Sound(call.ticks) /\ Distinct(call.ticks)
Merging == src # NoBuffer =>
             /\ src # Master /\ Apart(todo)
             /\ call.active => call.buf = Master
CostType == cost \in [Paths -> [ticks : Nat, value : Nat, largest : Nat]]

(* Frames are finitely many and no deeper than MAX_DEPTH, their counters are
   sound, a merge goes from another buffer into Master, and the nodes it has
   still to do are not below one another. *)
MInv == TInv /\ FramesFinite /\ Short /\ AllSound /\ Merging /\ CostType

(* A child that the search does not find is none. *)
LEMMA UnknownChild ==
  ASSUME NEW t, TreeOK(t), NEW f \in DOMAIN t, NEW a \in Address, ~ Known(t[f], a)
  PROVE  Append(f, a) \notin DOMAIN t
<1> DEFINE new == Append(f, a)
<1> SUFFICES ASSUME new \in DOMAIN t PROVE FALSE
  OBVIOUS
<1>1. f \in Seq(Address) /\ t[f] \in Seq(Address) /\ Ascending(t[f])
  BY DEF TreeOK, Sorted
<1>2. new[Len(new)] = a /\ Up(new) = f /\ new # Root
  BY <1>1, ChildPath
<1> HIDE DEF new
<1>3. a \in Elems(t[f])
  BY <1>2 DEF TreeOK, Closed
<1> QED BY <1>1, <1>3, SearchFinds

(* childStackNode adds one node without counters at most. *)
LEMMA ChildEffect ==
  ASSUME TInv, NEW b \in Buffer, NEW f \in DOMAIN kids[b], NEW a \in Address,
         ChildStackNode(b, f, a)
  PROVE  \A c \in Buffer :
           /\ DOMAIN kids[c] \subseteq DOMAIN kids'[c]
           /\ \A n \in DOMAIN kids'[c] :
                \/ n \in DOMAIN kids[c] /\ ctrs'[c][n] = ctrs[c][n]
                \/ /\ n \notin DOMAIN kids[c] /\ c = b /\ n = Append(f, a)
                   /\ ctrs'[c][n] = <<>>
<1> DEFINE new == Append(f, a)
<1>1. CASE Known(kids[b][f], a)
  BY <1>1 DEF ChildStackNode
<1>2. CASE ~ Known(kids[b][f], a)
  <2> DEFINE u == Grown(kids[b], f, a)
             w == [n \in DOMAIN kids[b] \cup {new} |->
                     IF n = new THEN <<>> ELSE ctrs[b][n]]
  <2>1. kids' = [kids EXCEPT ![b] = u] /\ ctrs' = [ctrs EXCEPT ![b] = w]
    BY <1>2 DEF ChildStackNode, Nodes
  <2>2. TreeOK(kids[b]) /\ DOMAIN kids = Buffer /\ DOMAIN ctrs = Buffer
    BY DEF TInv, IInv, TreesOK, CtrsOK
  <2>3. DOMAIN u = DOMAIN kids[b] \cup {new} /\ new \notin DOMAIN kids[b]
    <3>1. DOMAIN u = DOMAIN kids[b] \cup {new}
      BY DEF Grown
    <3>2. new \notin DOMAIN kids[b]
      BY <1>2, <2>2, UnknownChild
    <3> QED BY <3>1, <3>2
  <2>4. w[new] = <<>> /\ \A n \in DOMAIN kids[b] : w[n] = ctrs[b][n]
    BY <2>3
  <2> HIDE DEF u, w, new
  <2>5. \A c \in Buffer : /\ kids'[c] = IF c = b THEN u ELSE kids[c]
                          /\ ctrs'[c] = IF c = b THEN w ELSE ctrs[c]
    BY <2>1, <2>2
  <2> QED BY <2>3, <2>4, <2>5 DEF new
<1> QED BY <1>1, <1>2

(* The root alone is short and has no counters. *)
LEMMA EmptyFacts ==
  /\ DOMAIN EmptyKids = {Root} /\ Len(Root) <= MaxDepth
  /\ DOMAIN EmptyCtrs = {Root} /\ EmptyCtrs[Root] = <<>>
  /\ Sound(<<>>) /\ Distinct(<<>>)
BY LimitAssumption DEF EmptyKids, EmptyCtrs, Root, Sound, Distinct

(* Frames stay finitely many when one is added. *)
LEMMA FiniteGrowth ==
  ASSUME FramesFinite, NEW z, Frames' \subseteq Frames \cup {z}
  PROVE  FramesFinite'
<1>1. IsFiniteSet(Frames \cup {z})
  BY FS_AddElement, Zenon DEF FramesFinite
<1>2. IsFiniteSet(Frames')
  BY <1>1, FS_Subset
<1> QED BY <1>2 DEF FramesFinite

(* All of it holds at first. *)
LEMMA InitMerge == Init => MInv
<1> SUFFICES ASSUME Init PROVE MInv
  OBVIOUS
<1>1. TInv
  BY InitTypes
<1>2. /\ kids = [b \in Buffer |-> EmptyKids] /\ ctrs = [b \in Buffer |-> EmptyCtrs]
      /\ call = NoCall /\ src = NoBuffer /\ cost = NoCost
  BY DEF Init
<1>3. \A b \in Buffer : DOMAIN kids[b] = {Root} /\ ctrs[b][Root] = <<>>
  BY <1>2, EmptyFacts
<1>4. FramesFinite
  <2>1. Frames = Buffer \X {Root}
    BY <1>3 DEF Frames, Nodes
  <2>2. IsFiniteSet({Root})
    BY FS_Singleton
  <2>3. IsFiniteSet(Buffer \X {Root})
    BY <2>2, MasterAssumption, FS_Product
  <2> QED BY <2>1, <2>3 DEF FramesFinite
<1>5. call.ticks = <<>>
  BY <1>2 DEF NoCall
<1>6. AllSound /\ Short
  BY <1>3, <1>5, EmptyFacts DEF AllSound, Short
<1>7. CostType
  BY <1>2 DEF NoCost, CostType
<1> QED BY <1>1, <1>2, <1>4, <1>6, <1>7 DEF MInv, Merging

(* Steps that leave trees and counters alone keep what is said of them. *)
LEMMA SameShape ==
  ASSUME MInv, UNCHANGED <<kids, ctrs>>
  PROVE  /\ FramesFinite' /\ Short'
         /\ \A b \in Buffer : \A n \in DOMAIN kids'[b] : Sound(ctrs'[b][n])
<1>1. Frames' = Frames
  BY DEF Frames, Nodes
<1> QED BY <1>1 DEF MInv, FramesFinite, Short, AllSound

(* A step that changes neither trees, counters, costs, call nor merge. *)
LEMMA MergeSame ==
  ASSUME MInv, TInv', UNCHANGED <<kids, ctrs, call, src, todo, cost>>
  PROVE  MInv'
<1>1. FramesFinite' /\ Short' /\ AllSound'
  BY SameShape DEF MInv, AllSound
<1> QED BY <1>1 DEF MInv, Merging, CostType, Paths

(* The counters a sample ticks are sound. *)
LEMMA SampleSound ==
  ASSUME TInv, NEW v \in profiler.amounts
  PROVE  /\ Sound(SampleTicks(v)) /\ Distinct(SampleTicks(v))
         /\ \A d \in Defs : LET c == Counter(SampleTicks(v), d) IN
              c.ticks = 1 /\ c.value = v
         /\ v \in Nat
<1> DEFINE cs == profiler.counters
           f == SampleTicks(v)
<1>1. /\ cs \in Seq({cs[i] : i \in DOMAIN cs}) /\ v \in Nat
      /\ \A i, j \in DOMAIN cs : cs[i] = cs[j] => i = j
  BY ProfilerAssumption DEF TInv
<1>2. Len(cs) \in Nat /\ DOMAIN cs = 1 .. Len(cs)
  BY <1>1
<1>3. f = [i \in 1 .. Len(cs) |-> [def |-> cs[i], ticks |-> 1, value |-> v, peak |-> 0]]
  BY DEF SampleTicks
<1>5. \A d : d \in Defs <=> \E i \in 1 .. Len(cs) : d = cs[i]
  BY DEF Defs, Elems
<1> HIDE DEF f, cs
<1>4. /\ Len(f) = Len(cs)
      /\ \A i \in 1 .. Len(cs) : /\ f[i].def = cs[i] /\ f[i].ticks = 1
                                 /\ f[i].value = v /\ f[i].peak = 0
  BY <1>2, <1>3
<1>6. Sound(f)
  BY <1>1, <1>4 DEF Sound
<1>7. Distinct(f)
  BY <1>1, <1>2, <1>4 DEF Distinct
<1>8. ASSUME NEW d \in Defs PROVE Counter(f, d).ticks = 1 /\ Counter(f, d).value = v
  <2>1. PICK i \in 1 .. Len(cs) : cs[i] = d
    BY <1>5
  <2>2. i \in Places(f, d)
    BY <1>4, <2>1 DEF Places
  <2>3. Counter(f, d) = f[i]
    BY <1>7, <2>2, CounterAt
  <2> QED BY <1>4, <2>1, <2>3
<1> QED BY <1>1, <1>6, <1>7, <1>8 DEF f

(* A sample. *)
LEMMA SampleMerge ==
  ASSUME MInv, TInv', NEW b \in Buffer, NEW s \in Stacks, NEW v \in profiler.amounts,
         Sample(b, s, v)
  PROVE  MInv'
<1> DEFINE n == Effective(s)
<1>1. /\ src = NoBuffer /\ Begin(b, s, SampleTicks(v))
      /\ cost' = [cost EXCEPT ![n] = [ticks |-> @.ticks + 1, value |-> @.value + v,
                                      largest |-> Max({@.largest, v})]]
      /\ UNCHANGED <<kids, ctrs, src>>
  BY DEF Sample, AtRest, tree, merge
<1>2. call'.ticks = SampleTicks(v)
  BY <1>1 DEF Begin
<1>3. Sound(call'.ticks) /\ Distinct(call'.ticks) /\ v \in Nat
  BY <1>2, SampleSound DEF MInv
<1>4. FramesFinite' /\ Short' /\ AllSound'
  BY <1>1, <1>3, SameShape DEF AllSound
<1>5. CostType'
  <2>1. cost \in [Paths -> [ticks : Nat, value : Nat, largest : Nat]]
    BY DEF MInv, CostType
  <2>2. n \in Paths
    BY DEF Paths
  <2>3. ASSUME NEW x \in Nat PROVE Max({x, v}) = IF x < v THEN v ELSE x
    BY <1>3 DEF Max
  <2>4. cost[n].ticks \in Nat /\ cost[n].value \in Nat /\ cost[n].largest \in Nat
    BY <2>1, <2>2
  <2>5. Max({cost[n].largest, v}) \in Nat
    BY <1>3, <2>3, <2>4
  <2> HIDE DEF n
  <2>6. [ticks |-> cost[n].ticks + 1, value |-> cost[n].value + v,
         largest |-> Max({cost[n].largest, v})] \in [ticks : Nat, value : Nat, largest : Nat]
    BY <1>3, <2>4, <2>5
  <2>7. cost' \in [Paths -> [ticks : Nat, value : Nat, largest : Nat]]
    BY <1>1, <2>1, <2>2, <2>6
  <2> QED BY <2>7 DEF CostType, Paths
<1> QED BY <1>1, <1>4, <1>5 DEF MInv, Merging

(* A hit. *)
LEMMA PushHitMerge ==
  ASSUME MInv, TInv', PushHit
  PROVE  MInv'
<1>1. /\ call' = [call EXCEPT !.frame = cache[call.buf][call.i].frame, !.i = @ + 1]
      /\ UNCHANGED <<kids, ctrs, src, todo, cost>>
  BY DEF PushHit, tree, merge, history
<1>2. call'.ticks = call.ticks /\ call'.active = call.active /\ call'.buf = call.buf
  BY <1>1 DEF MInv, TInv, IInv, CallType
<1>3. FramesFinite' /\ Short' /\ AllSound'
  BY <1>1, <1>2, SameShape DEF MInv, AllSound
<1> QED BY <1>1, <1>2, <1>3 DEF MInv, Merging, CostType, Paths

(* A miss. *)
LEMMA PushMissMerge ==
  ASSUME MInv, TInv', PushMiss
  PROVE  MInv'
<1> DEFINE a == call.stack[call.i + 1]
           b == call.buf
           f == call.frame
           new == Append(f, a)
<1>1. /\ Walking /\ ChildStackNode(b, f, a)
      /\ call' = [call EXCEPT !.frame = new, !.i = @ + 1, !.valid = FALSE]
      /\ UNCHANGED <<src, todo, cost>>
  BY DEF PushMiss, merge, history
<1>2. call'.ticks = call.ticks /\ call'.active = call.active /\ call'.buf = call.buf
  BY <1>1 DEF MInv, TInv, IInv, CallType
<1>3. /\ a \in Address /\ b \in Buffer /\ f \in DOMAIN kids[b]
      /\ Len(f) + 1 <= MaxDepth /\ f \in Seq(Address)
  BY <1>1, WalkFacts DEF MInv, TInv, IInv, CallType
<1>4. \A c \in Buffer : \A n \in DOMAIN kids'[c] :
         \/ n \in DOMAIN kids[c] /\ ctrs'[c][n] = ctrs[c][n]
         \/ c = b /\ n = new /\ ctrs'[c][n] = <<>>
  BY <1>1, <1>3, ChildEffect DEF MInv
<1>5. Len(new) = Len(f) + 1
  BY <1>3, ChildPath
<1> HIDE DEF new, a, b, f
<1>6. Frames' \subseteq Frames \cup {<<b, new>>}
  <2> SUFFICES ASSUME NEW x \in Frames' PROVE x \in Frames \cup {<<b, new>>}
    OBVIOUS
  <2>1. PICK c \in Buffer : x \in {c} \X DOMAIN kids'[c]
    BY DEF Frames, Nodes
  <2>2. x[1] = c /\ x[2] \in DOMAIN kids'[c] /\ x = <<c, x[2]>>
    BY <2>1
  <2>3. CASE x[2] \in DOMAIN kids[c]
    BY <2>2, <2>3, FrameOf
  <2>4. CASE c = b /\ x[2] = new
    BY <2>2, <2>4
  <2> QED BY <1>4, <2>2, <2>3, <2>4
<1>7. FramesFinite'
  BY <1>6, FiniteGrowth DEF MInv
<1>8. Short'
  BY <1>3, <1>4, <1>5 DEF MInv, Short
<1>9. AllSound'
  BY <1>2, <1>4, EmptyFacts DEF MInv, AllSound
<1> QED BY <1>1, <1>2, <1>7, <1>8, <1>9 DEF MInv, Merging, CostType, Paths

(* What a tick does to the counters of all nodes, and to what waits. *)
LEMMA TickEffect ==
  ASSUME MInv, TickFrame
  PROVE  LET b == call.buf
             n == call.frame
             c == Head(call.ticks)
             cs == ctrs[b][n]
         IN  /\ b \in Buffer /\ n \in DOMAIN kids[b]
             /\ CountersGood(cs, Defs) /\ Sound(cs) /\ Roomy(cs, c.def)
             /\ c \in Values(Defs) /\ call.ticks \in Seq(Values(Defs))
             /\ call.ticks # <<>> /\ Distinct(call.ticks) /\ Sound(call.ticks)
             /\ ctrs'[b][n] = Merged(cs, c)
             /\ \A e \in Buffer : \A m \in DOMAIN kids[e] :
                   e # b \/ m # n => ctrs'[e][m] = ctrs[e][m]
             /\ UNCHANGED <<profiler, kids, src, todo, cost, shrunk>>
             /\ call'.ticks = Tail(call.ticks) /\ call'.active = call.active
             /\ call'.buf = b /\ call'.stack = call.stack
             /\ Pushed /\ call.active
<1> DEFINE c == Head(call.ticks)
           b == call.buf
           n == call.frame
           m == Merged(ctrs[b][n], c)
<1>1. /\ call.ticks # <<>> /\ Roomy(ctrs[b][n], c.def) /\ call.active /\ Pushed
      /\ ctrs' = [ctrs EXCEPT ![b][n] = m]
      /\ call' = [call EXCEPT !.ticks = Tail(@)]
      /\ UNCHANGED <<profiler, kids, src, todo, cost, shrunk>>
  BY DEF TickFrame, Here, Pushed, merge, history
<1>2. call.ticks \in Seq(Values(Defs)) /\ c \in Values(Defs)
  BY <1>1 DEF MInv, TInv, TicksOK
<1>3. b \in Buffer /\ n \in DOMAIN kids[b]
  BY DEF MInv, TInv, IInv, CallType, FramesOK
<1>4. CountersGood(ctrs[b][n], Defs) /\ DOMAIN ctrs = Buffer /\ DOMAIN ctrs[b] = DOMAIN kids[b]
  BY <1>3 DEF MInv, TInv, CtrsOK
<1>5. Sound(ctrs[b][n]) /\ Distinct(call.ticks) /\ Sound(call.ticks)
  BY <1>3 DEF MInv, AllSound
<1>6. /\ call'.ticks = Tail(call.ticks) /\ call'.active = call.active
      /\ call'.buf = b /\ call'.stack = call.stack
  BY <1>1 DEF MInv, TInv, IInv, CallType
<1> HIDE DEF m
<1>7. /\ ctrs'[b][n] = m
      /\ \A e \in Buffer : \A x \in DOMAIN kids[e] : e # b \/ x # n => ctrs'[e][x] = ctrs[e][x]
  <2> DEFINE row == [ctrs[b] EXCEPT ![n] = m]
  <2>1. ctrs' = [ctrs EXCEPT ![b] = row]
    BY <1>1
  <2>2. row[n] = m /\ \A x \in DOMAIN ctrs[b] : x # n => row[x] = ctrs[b][x]
    BY <1>3, <1>4
  <2> HIDE DEF row
  <2>3. \A e \in Buffer : ctrs'[e] = IF e = b THEN row ELSE ctrs[e]
    BY <1>4, <2>1
  <2> QED BY <1>3, <1>4, <2>2, <2>3
<1> QED BY <1>1, <1>2, <1>3, <1>4, <1>5, <1>6, <1>7 DEF m

(* A tick. *)
LEMMA TickFrameMerge ==
  ASSUME MInv, TInv', TickFrame
  PROVE  MInv'
<1> DEFINE b == call.buf
           n == call.frame
           c == Head(call.ticks)
           cs == ctrs[b][n]
<1>1. /\ b \in Buffer /\ n \in DOMAIN kids[b]
      /\ CountersGood(cs, Defs) /\ Sound(cs) /\ Roomy(cs, c.def)
      /\ c \in Values(Defs) /\ call.ticks \in Seq(Values(Defs))
      /\ call.ticks # <<>> /\ Distinct(call.ticks) /\ Sound(call.ticks)
      /\ ctrs'[b][n] = Merged(cs, c)
      /\ \A e \in Buffer : \A m \in DOMAIN kids[e] :
            e # b \/ m # n => ctrs'[e][m] = ctrs[e][m]
      /\ UNCHANGED <<kids, src, todo, cost>>
      /\ call'.ticks = Tail(call.ticks) /\ call'.active = call.active /\ call'.buf = b
  BY TickEffect
<1>2. /\ c.ticks >= 1 /\ (c.def \notin MaxDefs => c.peak <= c.value)
      /\ Sound(call'.ticks) /\ Distinct(call'.ticks)
  BY <1>1, TailCounter
<1>3. Sound(Merged(cs, c))
  BY <1>1, <1>2, MergedCounter
<1> HIDE DEF c, cs, b, n
<1>4. AllSound'
  BY <1>1, <1>2, <1>3 DEF MInv, AllSound
<1>5. Frames' = Frames
  BY <1>1 DEF Frames, Nodes
<1>6. FramesFinite' /\ Short'
  BY <1>1, <1>5 DEF MInv, FramesFinite, Short
<1> QED BY <1>1, <1>4, <1>6 DEF MInv, Merging, CostType, Paths, b

(* The end of a call. *)
LEMMA ReturnMerge ==
  ASSUME MInv, TInv', Return
  PROVE  MInv'
<1>1. call' = NoCall /\ UNCHANGED <<kids, ctrs, src, todo, cost>>
  BY DEF Return, tree, merge, history
<1>2. call'.ticks = <<>> /\ call'.active = FALSE
  BY <1>1 DEF NoCall
<1>3. FramesFinite' /\ Short' /\ AllSound'
  BY <1>1, <1>2, SameShape, EmptyFacts DEF AllSound
<1> QED BY <1>1, <1>2, <1>3 DEF MInv, Merging, CostType, Paths

(* The start of a merge. *)
LEMMA MergeBeginMerge ==
  ASSUME MInv, TInv', NEW b \in Buffer, MergeBegin(b)
  PROVE  MInv'
<1>1. /\ src' = b /\ b # Master /\ todo' = <<Root>> /\ ~ call.active
      /\ UNCHANGED <<kids, ctrs, call, cost>>
  BY DEF MergeBegin, AtRest, tree, history
<1>2. Apart(todo')
  BY <1>1 DEF Apart
<1>3. FramesFinite' /\ Short' /\ AllSound'
  BY <1>1, SameShape DEF MInv, AllSound
<1> QED BY <1>1, <1>2, <1>3 DEF MInv, Merging, CostType, Paths

(* What merging a frame does to the frames that are still to be merged. *)
LEMMA MergeEffect ==
  ASSUME MInv, MergeFrame
  PROVE  LET n == Head(todo) IN
         /\ src \in Buffer /\ src # NoBuffer /\ src # Master /\ n \in DOMAIN kids[src]
         /\ Reached(todo, n) /\ Apart(todo')
         /\ \A m \in DOMAIN kids[src] : Reached(todo', m) <=> Reached(todo, m) /\ m # n
         /\ Begin(Master, n, ctrs[src][n]) /\ ~ call.active
         /\ UNCHANGED <<profiler, kids, ctrs, cache, src, cost>>
<1> DEFINE n == Head(todo)
           ks == kids[src][n]
           r == [i \in 1 .. Len(ks) |-> Append(n, ks[i])] \o Tail(todo)
<1>1. /\ src # NoBuffer /\ todo # <<>> /\ ~ call.active
      /\ Begin(Master, n, ctrs[src][n]) /\ todo' = r
      /\ UNCHANGED <<profiler, kids, ctrs, cache, src, cost>>
  BY DEF MergeFrame, tree
<1>2. src \in Buffer /\ todo \in Seq(DOMAIN kids[src])
  BY <1>1 DEF MInv, TInv, IInv, TodoOK, Nodes
<1>3. TreeOK(kids[src]) /\ Apart(todo) /\ src # Master
  BY <1>1, <1>2 DEF MInv, TInv, IInv, TreesOK, Merging
<1>4. /\ n \in DOMAIN kids[src] /\ Reached(todo, n) /\ Apart(r)
      /\ \A m \in DOMAIN kids[src] : Reached(r, m) <=> Reached(todo, m) /\ m # n
  BY <1>1, <1>2, <1>3, Descend
<1> HIDE DEF r
<1> QED BY <1>1, <1>2, <1>3, <1>4

(* The merge of a frame. *)
LEMMA MergeFrameMerge ==
  ASSUME MInv, TInv', MergeFrame
  PROVE  MInv'
<1> DEFINE n == Head(todo)
<1>1. /\ src \in Buffer /\ src # Master /\ n \in DOMAIN kids[src]
      /\ Apart(todo') /\ Begin(Master, n, ctrs[src][n])
      /\ UNCHANGED <<kids, ctrs, src, cost>>
  BY MergeEffect
<1>2. call'.ticks = ctrs[src][n] /\ call'.buf = Master
  BY <1>1 DEF Begin
<1>3. Sound(ctrs[src][n]) /\ Distinct(ctrs[src][n])
  BY <1>1 DEF MInv, AllSound, TInv, CtrsOK, CountersGood
<1>4. FramesFinite' /\ Short' /\ AllSound'
  BY <1>1, <1>2, <1>3, SameShape DEF AllSound
<1> QED BY <1>1, <1>2, <1>4 DEF MInv, Merging, CostType, Paths

(* What emptying buffers does to their frames. *)
LEMMA EmptiedEffect ==
  ASSUME MInv, NEW B \in SUBSET Buffer, Emptied(B)
  PROVE  /\ \A b \in B : DOMAIN kids'[b] = {Root} /\ ctrs'[b][Root] = <<>>
         /\ \A b \in Buffer \ B : kids'[b] = kids[b] /\ ctrs'[b] = ctrs[b]
         /\ Frames' \subseteq Frames
<1>1. /\ kids' = [b \in Buffer |-> IF b \in B THEN EmptyKids ELSE kids[b]]
      /\ ctrs' = [b \in Buffer |-> IF b \in B THEN EmptyCtrs ELSE ctrs[b]]
  BY DEF Emptied
<1>2. \A b \in B : DOMAIN kids'[b] = {Root} /\ ctrs'[b][Root] = <<>>
  BY <1>1, EmptyFacts
<1>3. \A b \in Buffer \ B : kids'[b] = kids[b] /\ ctrs'[b] = ctrs[b]
  BY <1>1
<1>4. \A b \in Buffer : Root \in DOMAIN kids[b]
  BY RootThere DEF MInv, TInv, IInv
<1>5. \A b \in Buffer : DOMAIN kids'[b] \subseteq DOMAIN kids[b]
  BY <1>2, <1>3, <1>4
<1> QED BY <1>2, <1>3, <1>5 DEF Frames, Nodes

(* Emptied buffers. *)
LEMMA EmptiedMerge ==
  ASSUME MInv, NEW B \in SUBSET Buffer, Emptied(B), UNCHANGED call
  PROVE  FramesFinite' /\ Short' /\ AllSound'
<1>1. /\ \A b \in B : DOMAIN kids'[b] = {Root} /\ ctrs'[b][Root] = <<>>
      /\ \A b \in Buffer \ B : kids'[b] = kids[b] /\ ctrs'[b] = ctrs[b]
      /\ Frames' \subseteq Frames
  BY EmptiedEffect
<1>2. FramesFinite'
  BY <1>1, FS_Subset DEF MInv, FramesFinite
<1>3. Short'
  BY <1>1, EmptyFacts DEF MInv, Short
<1>4. AllSound'
  BY <1>1, EmptyFacts DEF MInv, AllSound
<1> QED BY <1>2, <1>3, <1>4

(* Every step keeps all of it. *)
LEMMA NextMerge == MInv /\ [Next]_vars => MInv'
<1> SUFFICES ASSUME MInv, [Next]_vars PROVE MInv'
  OBVIOUS
<1>a. TInv /\ TInv'
  BY NextTypes DEF MInv
<1>1. ASSUME NEW b \in Buffer, NEW s \in Stacks, NEW v \in profiler.amounts,
             Sample(b, s, v)
      PROVE  MInv'
  BY <1>a, <1>1, SampleMerge
<1>2. CASE PushHit
  BY <1>a, <1>2, PushHitMerge
<1>3. CASE PushMiss
  BY <1>a, <1>3, PushMissMerge
<1>4. CASE TickFrame
  BY <1>a, <1>4, TickFrameMerge
<1>5. CASE TickFails
  BY <1>a, <1>5, MergeSame DEF TickFails, tree, merge, history
<1>6. CASE Return
  BY <1>a, <1>6, ReturnMerge
<1>7. ASSUME NEW b \in Buffer, MergeBegin(b) PROVE MInv'
  BY <1>a, <1>7, MergeBeginMerge
<1>8. CASE MergeFrame
  BY <1>a, <1>8, MergeFrameMerge
<1>9. CASE MergeEnd
  <2>1. /\ Emptied({src}) /\ src # NoBuffer /\ src' = NoBuffer /\ UNCHANGED <<call, cost>>
    BY <1>9 DEF MergeEnd
  <2>2. {src} \in SUBSET Buffer
    BY <1>a, <2>1 DEF TInv, IInv, TodoOK
  <2>3. FramesFinite' /\ Short' /\ AllSound'
    BY <2>1, <2>2, EmptiedMerge
  <2> QED BY <1>a, <2>1, <2>3 DEF MInv, Merging, CostType, Paths
<1>10. CASE Reset
  <2>1. /\ Emptied(Buffer) /\ src = NoBuffer /\ src' = src /\ UNCHANGED call
        /\ cost' = NoCost
    BY <1>10 DEF Reset, AtRest, merge
  <2>2. FramesFinite' /\ Short' /\ AllSound'
    BY <2>1, EmptiedMerge
  <2>3. CostType'
    BY <2>1 DEF NoCost, CostType, Paths
  <2> QED BY <1>a, <2>1, <2>2, <2>3 DEF MInv, Merging
<1>11. CASE UNCHANGED vars
  BY <1>a, <1>11, MergeSame DEF vars
<1> QED
  BY <1>1, <1>2, <1>3, <1>4, <1>5, <1>6, <1>7, <1>8, <1>9, <1>10, <1>11 DEF Next
-----------------------------------------------------------------------------
(* Where a sample ends up *)

Prev(b, j) == IF j = 0 THEN Root ELSE cache[b][j - 1].frame
Depth == Len(Effective(call.stack))

(* The walk stands on the address it looked at last, *)
Walk == call.active =>
          /\ call.i <= Depth
          /\ call.i > 0 => call.frame[call.i] = call.stack[call.i]

(* the cache has no entries behind the longest push, *)
Long == /\ longest \in [Buffer -> Nat]
        /\ \A b \in Buffer : \A j \in Slot : j >= longest[b] => cache[b][j].address = 0
        /\ call.active => Depth <= longest[call.buf]

(* and as long as no push into the buffer was shorter than an earlier one, the
   walk has passed all addresses of the stack and every entry of the cache is a
   child of the one before, save those that the push in progress has still to
   replace. *)
Path == call.active /\ call.buf \notin shrunk =>
          /\ longest[call.buf] = Depth
          /\ call.frame = Prev(call.buf, call.i)
          /\ \A k \in 1 .. call.i : call.frame[k] = call.stack[k]
Linear(b, j) == cache[b][j].frame = Append(Prev(b, j), cache[b][j].address)
Chain == \A b \in Buffer \ shrunk : \A j \in Slot :
           /\ cache[b][j].address # 0
           /\ call.active /\ call.buf = b /\ ~ call.valid => j < call.i
           => Linear(b, j)

WInv == IInv /\ Walk /\ Long /\ Path /\ Chain

(* All of it holds at first. *)
LEMMA InitWalk == Init => WInv
<1> SUFFICES ASSUME Init PROVE WInv
  OBVIOUS
<1>1. IInv
  BY InitOK
<1>2. ~ call.active
  BY DEF Init, NoCall
<1>3. \A b \in Buffer : \A j \in Slot : cache[b][j].address = 0
  BY DEF Init, EmptyCache, NoEntry, Slot
<1>4. longest \in [Buffer -> Nat]
  BY DEF Init
<1> QED BY <1>1, <1>2, <1>3, <1>4 DEF WInv, Walk, Long, Path, Chain

(* The larger of two numbers. *)
LEMMA MaxOfTwo ==
  ASSUME NEW x \in Nat, NEW y \in Nat
  PROVE  Max({x, y}) = IF x < y THEN y ELSE x
<1> DEFINE m == IF x < y THEN y ELSE x
<1>1. m \in {x, y} /\ \A z \in {x, y} : m >= z
  OBVIOUS
<1>2. \A z \in {x, y} : (\A w \in {x, y} : z >= w) => z = m
  OBVIOUS
<1> HIDE DEF m
<1>3. Max({x, y}) = m
  BY <1>1, <1>2 DEF Max
<1> QED BY <1>3 DEF m

(* The start of a push. *)
LEMMA BeginWalk ==
  ASSUME WInv, IInv', ~ call.active, NEW b \in Buffer, NEW stack \in Seq(Address \cup {0}),
         NEW ticks, Begin(b, stack, ticks), UNCHANGED cache
  PROVE  WInv'
<1> DEFINE L == Len(Effective(stack))
<1>1. /\ call'.active = TRUE /\ call'.buf = b /\ call'.stack = stack
      /\ call'.i = 0 /\ call'.frame = Root /\ call'.valid = TRUE
      /\ longest' = [longest EXCEPT ![b] = Max({longest[b], L})]
      /\ shrunk' = IF L < longest[b] THEN shrunk \cup {b} ELSE shrunk
  BY DEF Begin
<1>2. L \in Nat
  BY EffectiveFacts
<1>3. longest \in [Buffer -> Nat]
  BY DEF WInv, Long
<1>4. Depth' = L
  BY <1>1 DEF Depth, Effective
<1> HIDE DEF L
<1>5. Max({longest[b], L}) = IF longest[b] < L THEN L ELSE longest[b]
  BY <1>2, <1>3, MaxOfTwo
<1>6. /\ longest' \in [Buffer -> Nat]
      /\ longest'[b] = (IF longest[b] < L THEN L ELSE longest[b])
      /\ \A c \in Buffer : c # b => longest'[c] = longest[c]
  BY <1>1, <1>2, <1>3, <1>5
<1>7. Walk'
  BY <1>1, <1>2, <1>4 DEF Walk
<1>8. \A c \in Buffer : longest'[c] \in Nat /\ longest[c] \in Nat /\ longest[c] <= longest'[c]
  BY <1>2, <1>3, <1>6
<1>9. Long'
  <2>1. ASSUME NEW c \in Buffer, NEW j \in Slot, j >= longest'[c]
        PROVE  cache'[c][j].address = 0
    <3>1. j >= longest[c]
      BY <1>8, <2>1 DEF Slot
    <3> QED BY <3>1 DEF WInv, Long
  <2>2. L <= longest'[b]
    BY <1>2, <1>3, <1>6
  <2> QED BY <1>1, <1>4, <1>6, <2>1, <2>2 DEF Long, Slot
<1>10. Path'
  <2> SUFFICES ASSUME b \notin shrunk'
               PROVE  longest'[b] = L /\ Root = Prev(b, 0)'
    BY <1>1, <1>4 DEF Path, Prev
  <2>1. ~ (L < longest[b])
    BY <1>1
  <2>2. longest'[b] = L
    BY <1>2, <1>3, <1>6, <2>1
  <2> QED BY <2>2 DEF Prev
<1>11. Chain'
  <2>1. shrunk \subseteq shrunk'
    BY <1>1
  <2>2. \A c \in Buffer : \A j : Linear(c, j)' <=> Linear(c, j)
    BY DEF Linear, Prev
  <2> QED BY <1>1, <2>1, <2>2 DEF WInv, Chain
<1> QED BY <1>7, <1>9, <1>10, <1>11 DEF WInv

(* What is known of a push that still walks. *)
LEMMA WalkMore ==
  ASSUME WInv, Walking
  PROVE  /\ call.active /\ call.i \in Slot /\ call.i \in Nat /\ call.buf \in Buffer
         /\ call.stack \in Seq(Address \cup {0}) /\ call.stack[call.i + 1] \in Address
         /\ call.frame \in Seq(Address) /\ Len(call.frame) = call.i
         /\ call.frame \in DOMAIN kids[call.buf]
         /\ Depth \in Nat /\ call.i + 1 <= Depth
<1>1. /\ call.i \in Slot /\ call.stack[call.i + 1] \in Address /\ call.buf \in Buffer
      /\ call.frame \in DOMAIN kids[call.buf] /\ Len(call.frame) = call.i
  BY WalkFacts DEF WInv
<1>2. /\ call.stack \in Seq(Address \cup {0}) /\ call.i \in Nat
      /\ call.frame \in Seq(Address)
  BY DEF WInv, IInv, CallType
<1>3. /\ call.active /\ call.i < Len(call.stack) /\ call.i < MaxDepth
      /\ call.stack[call.i + 1] # 0
  BY DEF Walking
<1>4. /\ Depth \in Nat
      /\ Depth = Len(call.stack) \/ Depth = MaxDepth \/ call.stack[Depth + 1] = 0
  BY <1>2, EffectiveFacts DEF Depth
<1>5. call.i <= Depth
  BY <1>3 DEF WInv, Walk
<1>6. call.i # Depth
  BY <1>3, <1>4
<1>7. call.i + 1 <= Depth
  BY <1>2, <1>4, <1>5, <1>6
<1> QED BY <1>1, <1>2, <1>3, <1>4, <1>7

(* A push that walks no more is at the end of what push() looks at. *)
LEMMA PushedDepth ==
  ASSUME WInv, Pushed
  PROVE  /\ call.active /\ call.i = Depth /\ call.buf \in Buffer
         /\ call.stack \in Seq(Address \cup {0}) /\ call.i \in Nat
         /\ call.frame \in Seq(Address) /\ Len(call.frame) = call.i
<1>1. call.active /\ ~ Walking
  BY DEF Pushed
<1>2. /\ call.stack \in Seq(Address \cup {0}) /\ call.i \in Nat
      /\ call.frame \in Seq(Address) /\ call.buf \in Buffer
      /\ Len(call.frame) = call.i
  BY <1>1 DEF WInv, IInv, CallType, CallGood
<1>3. /\ Depth \in Nat
      /\ \A k \in 0 .. (Depth - 1) : /\ k < Len(call.stack) /\ k < MaxDepth
                                     /\ call.stack[k + 1] # 0
  BY <1>2, EffectiveFacts DEF Depth
<1>4. call.i <= Depth
  BY <1>1 DEF WInv, Walk
<1>5. call.i \notin 0 .. (Depth - 1)
  BY <1>1, <1>3 DEF Walking
<1>6. call.i = Depth
  BY <1>2, <1>3, <1>4, <1>5
<1> QED BY <1>1, <1>2, <1>6

(* Steps of the walk: the next frame is a child entered at the next address, of
   the last one unless the cache was stale. *)
LEMMA StepWalk ==
  ASSUME WInv, Walking, NEW f \in Seq(Address), Len(f) = call.i + 1,
         f[call.i + 1] = call.stack[call.i + 1],
         call'.active = call.active, call'.buf = call.buf, call'.stack = call.stack,
         call'.i = call.i + 1, call'.frame = f
  PROVE  /\ Walk' /\ Depth' = Depth
         /\ f = Append(call.frame, call.stack[call.i + 1])
              /\ call.buf \notin shrunk =>
                \A k \in 1 .. call'.i : call'.frame[k] = call'.stack[k]
<1>1. /\ call.active /\ call.i \in Nat /\ call.frame \in Seq(Address)
      /\ Len(call.frame) = call.i /\ Depth \in Nat /\ call.i + 1 <= Depth
      /\ call.stack[call.i + 1] \in Address
  BY WalkMore
<1>2. Depth' = Depth
  BY DEF Depth, Effective
<1>3. Walk'
  BY <1>1, <1>2 DEF Walk
<1>4. ASSUME f = Append(call.frame, call.stack[call.i + 1]), call.buf \notin shrunk
      PROVE  \A k \in 1 .. (call.i + 1) : f[k] = call.stack[k]
  <2> SUFFICES ASSUME NEW k \in 1 .. (call.i + 1) PROVE f[k] = call.stack[k]
    OBVIOUS
  <2>1. \A j \in 1 .. call.i : call.frame[j] = call.stack[j]
    BY <1>1, <1>4 DEF WInv, Path
  <2>2. CASE k = call.i + 1
    BY <2>2
  <2>3. CASE k \in 1 .. call.i
    <3>1. f[k] = call.frame[k]
      BY <1>1, <1>4, <2>3
    <3> QED BY <2>1, <2>3, <3>1
  <2> QED BY <1>1, <2>2, <2>3
<1> QED BY <1>2, <1>3, <1>4

(* A hit. *)
LEMMA PushHitWalk ==
  ASSUME WInv, IInv', PushHit
  PROVE  WInv'
<1> DEFINE e == cache[call.buf][call.i]
           a == call.stack[call.i + 1]
           f == e.frame
           b == call.buf
           i == call.i
<1>1. /\ Walking /\ call.valid /\ e.address = a
      /\ call' = [call EXCEPT !.frame = f, !.i = i + 1]
      /\ UNCHANGED <<kids, cache, longest, shrunk>>
  BY DEF PushHit, Cached, tree, history
<1>2. /\ call.active /\ i \in Slot /\ i \in Nat /\ b \in Buffer
      /\ a \in Address /\ call.frame \in Seq(Address) /\ Len(call.frame) = i
      /\ Depth \in Nat /\ i + 1 <= Depth
  BY <1>1, WalkMore
<1>3. a # 0
  BY <1>2, AddressAssumption
<1>4. f \in DOMAIN kids[b] /\ Len(f) = i + 1 /\ f[i + 1] = a
  BY <1>1, <1>2, <1>3 DEF WInv, IInv, CachesOK, CacheGood, Slot, Nodes
<1>5. f \in Seq(Address)
  BY <1>2, <1>4 DEF WInv, IInv, TreesOK, TreeOK
<1>6. /\ call'.active = call.active /\ call'.buf = b /\ call'.stack = call.stack
      /\ call'.i = i + 1 /\ call'.frame = f /\ call'.valid = call.valid
  BY <1>1 DEF WInv, IInv, CallType
<1>7. Linear(b, i) /\ b \notin shrunk => f = Append(call.frame, a)
  BY <1>1, <1>2 DEF Linear, WInv, Path
<1>8. b \notin shrunk => Linear(b, i)
  BY <1>1, <1>2, <1>3 DEF WInv, Chain
<1>9. /\ Walk' /\ Depth' = Depth
      /\ f = Append(call.frame, a) /\ b \notin shrunk =>
           \A k \in 1 .. call'.i : call'.frame[k] = call'.stack[k]
  BY <1>1, <1>4, <1>5, <1>6, StepWalk
<1>10. Long'
  BY <1>1, <1>6, <1>9 DEF WInv, Long, Slot
<1>11. Path'
  <2>1. b \notin shrunk => longest[b] = Depth
    BY <1>2 DEF WInv, Path
  <2>2. (i + 1) - 1 = i /\ i + 1 # 0
    BY <1>2
  <2>3. Prev(call.buf, call.i)' = f
    BY <1>1, <1>6, <2>2 DEF Prev
  <2> QED BY <1>1, <1>6, <1>7, <1>8, <1>9, <2>1, <2>3 DEF Path
<1>12. Chain'
  <2>1. \A c \in Buffer : \A j : Linear(c, j)' <=> Linear(c, j)
    BY <1>1 DEF Linear, Prev
  <2> QED BY <1>1, <1>6, <2>1 DEF WInv, Chain
<1> QED BY <1>9, <1>10, <1>11, <1>12 DEF WInv

(* A miss. *)
LEMMA PushMissWalk ==
  ASSUME WInv, IInv', PushMiss
  PROVE  WInv'
<1> DEFINE a == call.stack[call.i + 1]
           f == Append(call.frame, a)
           e == [address |-> a, frame |-> f]
           b == call.buf
           i == call.i
<1>1. /\ Walking
      /\ cache' = [cache EXCEPT ![b][i] = e]
      /\ call' = [call EXCEPT !.frame = f, !.i = i + 1, !.valid = FALSE]
      /\ UNCHANGED <<longest, shrunk>>
  BY DEF PushMiss, history
<1>2. /\ call.active /\ i \in Slot /\ i \in Nat /\ b \in Buffer
      /\ a \in Address /\ call.frame \in Seq(Address) /\ Len(call.frame) = i
      /\ Depth \in Nat /\ i + 1 <= Depth
  BY <1>1, WalkMore
<1>3. f \in Seq(Address) /\ Len(f) = i + 1 /\ f[i + 1] = a
  BY <1>2, ChildPath
<1>4. /\ call'.active = call.active /\ call'.buf = b /\ call'.stack = call.stack
      /\ call'.i = i + 1 /\ call'.frame = f /\ call'.valid = FALSE
  BY <1>1 DEF WInv, IInv, CallType
<1>5. /\ Walk' /\ Depth' = Depth
      /\ f = Append(call.frame, a) /\ b \notin shrunk =>
           \A k \in 1 .. call'.i : call'.frame[k] = call'.stack[k]
  BY <1>1, <1>3, <1>4, StepWalk
<1>6. /\ cache'[b][i] = e
      /\ \A c \in Buffer : \A j \in Slot : c # b \/ j # i => cache'[c][j] = cache[c][j]
  <2>1. cache \in [Buffer -> [Slot -> Entry]]
    BY DEF WInv, IInv, CachesOK
  <2> DEFINE row == [cache[b] EXCEPT ![i] = e]
  <2>2. cache' = [cache EXCEPT ![b] = row]
    BY <1>1
  <2>3. row[i] = e /\ \A j \in Slot : j # i => row[j] = cache[b][j]
    BY <1>2, <2>1
  <2> HIDE DEF row
  <2>4. cache'[b] = row /\ \A c \in Buffer : c # b => cache'[c] = cache[c]
    BY <1>2, <2>1, <2>2
  <2> QED BY <1>2, <2>3, <2>4
<1>7. e.address = a /\ e.frame = f
  OBVIOUS
<1>8. longest \in [Buffer -> Nat] /\ Depth <= longest[b]
  BY <1>2 DEF WInv, Long
<1>9. Long'
  <2> SUFFICES ASSUME NEW c \in Buffer, NEW j \in Slot, j >= longest[c]
               PROVE  cache'[c][j].address = 0
    BY <1>1, <1>4, <1>5, <1>8 DEF Long, Slot
  <2>1. c # b \/ j # i
    BY <1>2, <1>8
  <2>2. cache'[c][j] = cache[c][j]
    BY <1>6, <2>1
  <2> QED BY <2>2 DEF WInv, Long
<1>10. Path'
  <2>1. b \notin shrunk => longest[b] = Depth
    BY <1>2 DEF WInv, Path
  <2>2. (i + 1) - 1 = i /\ i + 1 # 0
    BY <1>2
  <2>3. Prev(call.buf, call.i)' = f
    BY <1>4, <1>6, <1>7, <2>2 DEF Prev
  <2>4. b \notin shrunk => \A k \in 1 .. call'.i : call'.frame[k] = call'.stack[k]
    BY <1>5
  <2>5. call'.frame = f /\ call'.buf = b /\ call'.active = call.active
    BY <1>4
  <2> HIDE DEF f, e, a, b, i
  <2> QED BY <1>1, <1>5, <2>1, <2>3, <2>4, <2>5 DEF Path
<1> HIDE DEF e, f, a
<1>11. ASSUME NEW c \in Buffer, NEW j \in Slot, c # b \/ j <= i
       PROVE  Prev(c, j)' = Prev(c, j)
  <2>1. CASE j = 0
    BY <2>1 DEF Prev
  <2>2. CASE j # 0
    <3>1. j - 1 \in Slot /\ (c # b \/ j - 1 # i)
      BY <1>2, <1>11, <2>2, LimitAssumption DEF Slot
    <3>2. cache'[c][j - 1] = cache[c][j - 1]
      BY <1>6, <3>1
    <3> QED BY <2>2, <3>2 DEF Prev
  <2> QED BY <2>1, <2>2
<1>12. Chain'
  <2> SUFFICES ASSUME NEW c \in Buffer \ shrunk, NEW j \in Slot,
                      cache'[c][j].address # 0, c = b => j < i + 1
               PROVE  Linear(c, j)'
    BY <1>1, <1>2, <1>4 DEF Chain, Slot
  <2>1. c # b \/ j <= i
    BY <1>2 DEF Slot
  <2>2. Prev(c, j)' = Prev(c, j)
    BY <1>11, <2>1
  <2>3. CASE c = b /\ j = i
    <3>1. call.frame = Prev(b, i)
      BY <1>2, <2>3 DEF WInv, Path
    <3>2. cache'[c][j].frame = Append(Prev(c, j), cache'[c][j].address)
      BY <1>6, <1>7, <2>3, <3>1 DEF f
    <3> QED BY <2>2, <3>2 DEF Linear
  <2>4. CASE c # b \/ j # i
    <3>1. cache'[c][j] = cache[c][j]
      BY <1>6, <2>4
    <3>2. c = b => j < i
      BY <1>2, <2>4 DEF Slot
    <3>3. Linear(c, j)
      BY <1>2, <3>1, <3>2 DEF WInv, Chain
    <3> QED BY <2>2, <3>1, <3>3 DEF Linear
  <2> QED BY <2>3, <2>4
<1> QED BY <1>5, <1>9, <1>10, <1>12 DEF WInv

(* The end of a call: all entries behind the stack are empty. *)
LEMMA ReturnWalk ==
  ASSUME WInv, IInv', Return
  PROVE  WInv'
<1>1. call' = NoCall /\ Pushed /\ UNCHANGED <<cache, longest, shrunk>>
  BY DEF Return, tree, history
<1>2. call'.active = FALSE
  BY <1>1 DEF NoCall
<1>3. call.active /\ call.i = Depth /\ call.i \in Nat
  BY <1>1, PushedDepth
<1>4. Chain'
  <2> SUFFICES ASSUME NEW c \in Buffer \ shrunk, NEW j \in Slot,
                      cache[c][j].address # 0
               PROVE  Linear(c, j)
    BY <1>1, <1>2 DEF Chain, Linear, Prev, Slot
  <2>1. CASE call.buf = c
    <3>1. longest[c] = call.i
      BY <1>3, <2>1 DEF WInv, Path
    <3>2. ~ (j >= longest[c])
      BY DEF WInv, Long
    <3>3. j < call.i
      BY <1>3, <3>1, <3>2 DEF Slot
    <3> QED BY <3>3 DEF WInv, Chain
  <2>2. CASE call.buf # c
    BY <2>2 DEF WInv, Chain
  <2> QED BY <2>1, <2>2
<1>5. Long'
  BY <1>1, <1>2 DEF WInv, Long, Slot
<1> QED BY <1>2, <1>4, <1>5 DEF WInv, Walk, Path

(* A step that leaves cache and history alone, and the call but for its
   counters. *)
LEMMA SameWalk ==
  ASSUME WInv, IInv', UNCHANGED <<cache, longest, shrunk>>,
         call'.active = call.active, call'.buf = call.buf, call'.stack = call.stack,
         call'.i = call.i, call'.frame = call.frame, call'.valid = call.valid
  PROVE  WInv'
<1>1. Depth' = Depth
  BY DEF Depth, Effective
<1>2. \A c, j : Prev(c, j)' = Prev(c, j) /\ (Linear(c, j)' <=> Linear(c, j))
  BY DEF Prev, Linear
<1>3. Walk' /\ Long'
  BY <1>1 DEF WInv, Walk, Long
<1>4. Path' /\ Chain'
  BY <1>1, <1>2 DEF WInv, Path, Chain
<1> QED BY <1>3, <1>4 DEF WInv

(* Emptied buffers have empty caches. *)
LEMMA EmptiedWalk ==
  ASSUME WInv, IInv', NEW B \in SUBSET Buffer, Emptied(B), ~ call.active,
         UNCHANGED call, shrunk' = shrunk \/ B = Buffer
  PROVE  WInv'
<1>1. /\ cache' = [b \in Buffer |-> IF b \in B THEN EmptyCache ELSE cache[b]]
      /\ longest' = [b \in Buffer |-> IF b \in B THEN 0 ELSE longest[b]]
  BY DEF Emptied
<1>2. \A j \in Slot : EmptyCache[j].address = 0
  BY DEF EmptyCache, NoEntry, Slot
<1>3. \A c \in Buffer : /\ c \in B => \A j \in Slot : cache'[c][j].address = 0
                        /\ c \notin B => cache'[c] = cache[c] /\ longest'[c] = longest[c]
  BY <1>1, <1>2
<1>4. longest' \in [Buffer -> Nat]
  BY <1>1 DEF WInv, Long
<1>5. Long'
  BY <1>3, <1>4 DEF WInv, Long, Slot
<1>6. Chain'
  <2> SUFFICES ASSUME NEW c \in Buffer \ shrunk', NEW j \in Slot,
                      cache'[c][j].address # 0
               PROVE  Linear(c, j)'
    BY DEF Chain, Slot
  <2>1. c \notin B /\ c \notin shrunk
    BY <1>3
  <2>2. cache'[c] = cache[c]
    BY <1>3, <2>1
  <2>3. Linear(c, j)
    BY <2>1, <2>2 DEF WInv, Chain
  <2> QED BY <2>2, <2>3 DEF Linear, Prev
<1> QED BY <1>5, <1>6 DEF WInv, Walk, Path

(* Every step keeps all of it. *)
LEMMA NextWalk == MInv /\ WInv /\ [Next]_vars => WInv'
<1> SUFFICES ASSUME MInv, WInv, [Next]_vars PROVE WInv'
  OBVIOUS
<1>a. IInv /\ IInv'
  BY NextOK DEF WInv
<1>1. ASSUME NEW b \in Buffer, NEW s \in Stacks, NEW v \in profiler.amounts,
             Sample(b, s, v)
      PROVE  WInv'
  <2>1. ~ call.active /\ Begin(b, s, SampleTicks(v)) /\ UNCHANGED cache
    BY <1>1 DEF Sample, AtRest, tree
  <2>2. s \in Seq(Address \cup {0})
    BY StackAssumption
  <2> QED BY <1>a, <2>1, <2>2, BeginWalk
<1>2. CASE PushHit
  BY <1>a, <1>2, PushHitWalk
<1>3. CASE PushMiss
  BY <1>a, <1>3, PushMissWalk
<1>4. CASE TickFrame
  <2>1. /\ call' = [call EXCEPT !.ticks = Tail(@)]
        /\ UNCHANGED <<cache, longest, shrunk>>
    BY <1>4 DEF TickFrame, history
  <2>2. /\ call'.active = call.active /\ call'.buf = call.buf /\ call'.stack = call.stack
        /\ call'.i = call.i /\ call'.frame = call.frame /\ call'.valid = call.valid
    BY <1>a, <2>1 DEF IInv, CallType
  <2> QED BY <1>a, <2>1, <2>2, SameWalk
<1>5. CASE TickFails
  BY <1>a, <1>5, SameWalk DEF TickFails, tree, history
<1>6. CASE Return
  BY <1>a, <1>6, ReturnWalk
<1>7. ASSUME NEW b \in Buffer, MergeBegin(b) PROVE WInv'
  BY <1>a, <1>7, SameWalk DEF MergeBegin, tree, history
<1>8. CASE MergeFrame
  <2> DEFINE n == Head(todo)
  <2>1. /\ src \in Buffer /\ n \in DOMAIN kids[src] /\ ~ call.active
        /\ Begin(Master, n, ctrs[src][n]) /\ UNCHANGED cache
    BY <1>8, MergeEffect
  <2>2. n \in Seq(Address \cup {0})
    BY <1>a, <2>1 DEF IInv, TreesOK, TreeOK
  <2> QED BY <1>a, <2>1, <2>2, BeginWalk, MasterAssumption
<1>9. CASE MergeEnd
  <2>1. Emptied({src}) /\ src # NoBuffer /\ ~ call.active /\ UNCHANGED <<call, shrunk>>
    BY <1>9 DEF MergeEnd
  <2>2. {src} \in SUBSET Buffer
    BY <1>a, <2>1 DEF IInv, TodoOK
  <2> QED BY <1>a, <2>1, <2>2, EmptiedWalk
<1>10. CASE Reset
  <2>1. Emptied(Buffer) /\ ~ call.active /\ UNCHANGED call
    BY <1>10 DEF Reset, AtRest
  <2> QED BY <1>a, <2>1, EmptiedWalk
<1>11. CASE UNCHANGED vars
  BY <1>a, <1>11, SameWalk DEF vars
<1> QED
  BY <1>1, <1>2, <1>3, <1>4, <1>5, <1>6, <1>7, <1>8, <1>9, <1>10, <1>11 DEF Next
-----------------------------------------------------------------------------
(* Every step keeps the ledger *)

(* A push ends in a node of the very stack, or in one like it. *)
LEMMA PlaceOfSample ==
  ASSUME WInv, Pushed, NEW N \in SUBSET Seq(Address), View(N)
  PROVE  call.frame \in N <=> Effective(call.stack) \in N
<1> DEFINE e == Effective(call.stack)
           f == call.frame
<1>1. /\ call.active /\ call.i = Len(e) /\ call.buf \in Buffer
      /\ call.stack \in Seq(Address \cup {0}) /\ call.i \in Nat
      /\ f \in Seq(Address) /\ Len(f) = call.i
  BY PushedDepth DEF Depth
<1>2. e \in Seq(Address) /\ \A k \in 1 .. Len(e) : e[k] = call.stack[k]
  BY <1>1, EffectiveFacts
<1> HIDE DEF e, f
<1>3. CASE shrunk = {}
  <2>1. \A k \in 1 .. call.i : f[k] = call.stack[k]
    BY <1>1, <1>3 DEF WInv, Path, f
  <2>2. \A k \in 1 .. Len(e) : f[k] = e[k]
    BY <1>1, <1>2, <2>1
  <2>3. f = e
    BY <1>1, <1>2, <2>2, SeqEqual
  <2> QED BY <2>3 DEF e, f
<1>4. CASE shrunk # {}
  <2>1. call.i > 0 => f[call.i] = call.stack[call.i]
    BY <1>1 DEF WInv, Walk, f
  <2>2. call.i > 0 => f[Len(f)] = e[Len(e)]
    BY <1>1, <1>2, <2>1
  <2>3. f # Root \/ e # Root => call.i > 0
    BY <1>1, <1>2 DEF Root
  <2>4. Alike(f, e) /\ Alike(e, f)
    BY <1>1, <2>2, <2>3 DEF Alike
  <2>5. \A m \in N : \A n \in Seq(Address) : Alike(n, m) => n \in N
    BY <1>4 DEF View
  <2>6. f \in N <=> e \in N
    BY <1>1, <1>2, <2>4, <2>5
  <2> QED BY <2>6 DEF e, f
<1> QED BY <1>3, <1>4

(* A mark is the counter of a frame that counts. *)
LEMMA MarkIs ==
  ASSUME NEW x, NEW d
  PROVE  /\ x \in Frames <=> /\ x = <<x[1], x[2]>> /\ x[1] \in Buffer
                             /\ x[2] \in DOMAIN kids[x[1]]
         /\ x \in Frames' <=> /\ x = <<x[1], x[2]>> /\ x[1] \in Buffer
                              /\ x[2] \in DOMAIN kids'[x[1]]
         /\ Mark(x, d) = IF x \in Frames /\ (src # NoBuffer /\ x[1] = src => Reached(todo, x[2]))
                         THEN Counter(ctrs[x[1]][x[2]], d) ELSE NewCounter(d)
         /\ Mark(x, d)' = IF x \in Frames' /\ (src' # NoBuffer /\ x[1] = src' => Reached(todo', x[2]))
                          THEN Counter(ctrs'[x[1]][x[2]], d) ELSE NewCounter(d)
<1>1. x \in Frames <=> /\ x = <<x[1], x[2]>> /\ x[1] \in Buffer
                       /\ x[2] \in DOMAIN kids[x[1]]
  BY DEF Frames, Nodes
<1>2. x \in Frames' <=> /\ x = <<x[1], x[2]>> /\ x[1] \in Buffer
                        /\ x[2] \in DOMAIN kids'[x[1]]
  BY DEF Frames, Nodes
<1>3. Mark(x, d) = IF x \in Frames /\ (src # NoBuffer /\ x[1] = src => Reached(todo, x[2]))
                   THEN Counter(ctrs[x[1]][x[2]], d) ELSE NewCounter(d)
  BY DEF Mark, Live, At
<1>4. Mark(x, d)' = IF x \in Frames' /\ (src' # NoBuffer /\ x[1] = src' => Reached(todo', x[2]))
                    THEN Counter(ctrs'[x[1]][x[2]], d) ELSE NewCounter(d)
  BY DEF Mark, Live, At, Counter, Places, NewCounter, Reached, Below
<1> QED BY <1>1, <1>2, <1>3, <1>4

(* Marks stay when frames without counters come at most. *)
LEMMA SameMarks ==
  ASSUME UNCHANGED <<src, todo>>,
         \A c \in Buffer :
           /\ DOMAIN kids[c] \subseteq DOMAIN kids'[c]
           /\ \A n \in DOMAIN kids'[c] :
                \/ n \in DOMAIN kids[c] /\ ctrs'[c][n] = ctrs[c][n]
                \/ n \notin DOMAIN kids[c] /\ ctrs'[c][n] = <<>>
  PROVE  \A d : \A x : Mark(x, d)' = Mark(x, d)
<1> SUFFICES ASSUME NEW d, NEW x PROVE Mark(x, d)' = Mark(x, d)
  OBVIOUS
<1>1. CASE x \in Frames
  <2>1. /\ x = <<x[1], x[2]>> /\ x[1] \in Buffer /\ x[2] \in DOMAIN kids[x[1]]
    BY <1>1, MarkIs
  <2>2. x[2] \in DOMAIN kids'[x[1]] /\ ctrs'[x[1]][x[2]] = ctrs[x[1]][x[2]]
    BY <2>1
  <2>3. x \in Frames'
    BY <2>1, <2>2, MarkIs
  <2> QED BY <1>1, <2>2, <2>3, MarkIs
<1>2. CASE x \notin Frames /\ x \in Frames'
  <2>1. /\ x = <<x[1], x[2]>> /\ x[1] \in Buffer /\ x[2] \in DOMAIN kids'[x[1]]
    BY <1>2, MarkIs
  <2>2. x[2] \notin DOMAIN kids[x[1]]
    BY <1>2, <2>1, MarkIs
  <2>3. ctrs'[x[1]][x[2]] = <<>>
    BY <2>1, <2>2
  <2> QED BY <1>2, <2>3, MarkIs, CounterEmpty
<1>3. CASE x \notin Frames /\ x \notin Frames'
  BY <1>3, MarkIs
<1> QED BY <1>1, <1>2, <1>3

(* What waits depends on the call alone. *)
LEMMA WaitingIs ==
  ASSUME NEW N, NEW d
  PROVE  /\ ~ call.active => Waiting(N, d) = NewCounter(d)
         /\ ~ call'.active => Waiting(N, d)' = NewCounter(d)
         /\ call.active => Waiting(N, d) = IF Effective(call.stack) \in N
                                           THEN Counter(call.ticks, d) ELSE NewCounter(d)
         /\ call'.active => Waiting(N, d)' = IF Effective(call'.stack) \in N
                                             THEN Counter(call'.ticks, d) ELSE NewCounter(d)
<1>1. Waiting(N, d)' = IF call'.active /\ Effective(call'.stack) \in N
                       THEN Counter(call'.ticks, d) ELSE NewCounter(d)
  BY DEF Waiting, NewCounter, Counter, Places, Effective
<1> QED BY <1>1 DEF Waiting

(* The walk changes no counter. *)
LEMMA PushLedger ==
  ASSUME MInv, TInv', FramesFinite', Ledger, PushHit \/ PushMiss
  PROVE  Ledger'
<1>1. /\ UNCHANGED <<profiler, cost, shrunk, src, todo>>
      /\ call'.active = call.active /\ call'.stack = call.stack /\ call'.ticks = call.ticks
  BY DEF PushHit, PushMiss, merge, history, MInv, TInv, IInv, CallType
<1>2. \A N, d : Waiting(N, d)' = Waiting(N, d)
  BY <1>1, WaitingIs
<1>3. CASE PushHit
  <2>1. UNCHANGED <<kids, ctrs>>
    BY <1>3 DEF PushHit, tree
  <2>2. \A d : \A x : Mark(x, d)' = Mark(x, d)
    BY <1>1, <2>1, SameMarks
  <2> QED BY <1>1, <1>2, <2>2, LedgerSame DEF MInv
<1>4. CASE PushMiss
  <2>1. /\ Walking /\ ChildStackNode(call.buf, call.frame, call.stack[call.i + 1])
    BY <1>4 DEF PushMiss
  <2>2. /\ call.stack[call.i + 1] \in Address /\ call.buf \in Buffer
        /\ call.frame \in DOMAIN kids[call.buf]
    BY <2>1, WalkFacts DEF MInv, TInv
  <2>3. \A c \in Buffer :
           /\ DOMAIN kids[c] \subseteq DOMAIN kids'[c]
           /\ \A n \in DOMAIN kids'[c] :
                \/ n \in DOMAIN kids[c] /\ ctrs'[c][n] = ctrs[c][n]
                \/ n \notin DOMAIN kids[c] /\ ctrs'[c][n] = <<>>
    BY <2>1, <2>2, ChildEffect DEF MInv
  <2>4. \A d : \A x : Mark(x, d)' = Mark(x, d)
    BY <1>1, <2>3, SameMarks
  <2> QED BY <1>1, <1>2, <2>4, LedgerSame DEF MInv
<1> QED BY <1>3, <1>4

(* Steps that only stop, or end a call that has nothing left to tick. *)
LEMMA QuietLedger ==
  ASSUME MInv, TInv', FramesFinite', Ledger, TickFails \/ Return \/ UNCHANGED vars
  PROVE  Ledger'
<1>1. UNCHANGED <<profiler, kids, ctrs, cost, shrunk, src, todo>>
  BY DEF TickFails, Return, tree, merge, history, vars
<1>2. \A d : \A x : Mark(x, d)' = Mark(x, d)
  BY <1>1, SameMarks
<1>3. \A N, d : Waiting(N, d)' = Waiting(N, d)
  <2>1. CASE Return
    <3>1. call.active /\ call.ticks = <<>> /\ ~ call'.active
      BY <2>1 DEF Return, Pushed, NoCall
    <3> QED BY <3>1, WaitingIs, CounterEmpty
  <2>2. CASE TickFails \/ UNCHANGED vars
    <3>1. call' = call
      BY <2>2 DEF TickFails, vars
    <3> QED BY <3>1, WaitingIs
  <2> QED BY <2>1, <2>2
<1> QED BY <1>1, <1>2, <1>3, LedgerSame DEF MInv

(* At the start of a merge all frames of the source are still to be merged. *)
LEMMA MergeBeginLedger ==
  ASSUME MInv, TInv', FramesFinite', Ledger, NEW b \in Buffer, MergeBegin(b)
  PROVE  Ledger'
<1>1. /\ src = NoBuffer /\ todo' = <<Root>> /\ src' = b
      /\ UNCHANGED <<profiler, kids, ctrs, call, cost, shrunk>>
  BY DEF MergeBegin, AtRest, tree, history
<1>2. \A n \in Seq(Address) : Reached(todo', n)
  <2> SUFFICES ASSUME NEW n \in Seq(Address) PROVE Reached(todo', n)
    OBVIOUS
  <2>1. Below(Root, n)
    BY DEF Below, Root
  <2>2. Len(todo') = 1 /\ todo'[1] = Root
    BY <1>1
  <2> QED BY <2>1, <2>2 DEF Reached
<1>3. ASSUME NEW d, NEW x PROVE Mark(x, d)' = Mark(x, d)
  <2>1. Frames' = Frames
    BY <1>1 DEF Frames, Nodes
  <2>2. x \in Frames => x[2] \in Seq(Address)
    BY FrameType DEF MInv
  <2> QED BY <1>1, <1>2, <2>1, <2>2, MarkIs
<1>4. \A N, d : Waiting(N, d)' = Waiting(N, d)
  BY <1>1, WaitingIs
<1> QED BY <1>1, <1>3, <1>4, LedgerSame DEF MInv

(* At the end of a merge no frame of the source is, and the source is emptied. *)
LEMMA MergeEndLedger ==
  ASSUME MInv, TInv', FramesFinite', Ledger, MergeEnd
  PROVE  Ledger'
<1>1. /\ src # NoBuffer /\ todo = <<>> /\ Emptied({src}) /\ src' = NoBuffer
      /\ UNCHANGED <<profiler, call, cost, shrunk>>
  BY DEF MergeEnd
<1>2. {src} \in SUBSET Buffer
  BY <1>1 DEF MInv, TInv, IInv, TodoOK
<1>3. /\ DOMAIN kids'[src] = {Root} /\ ctrs'[src][Root] = <<>>
      /\ \A b \in Buffer : b # src => kids'[b] = kids[b] /\ ctrs'[b] = ctrs[b]
  BY <1>1, <1>2, EmptiedEffect
<1>4. \A n : ~ Reached(todo, n)
  BY <1>1 DEF Reached
<1>5. ASSUME NEW d, NEW x PROVE Mark(x, d)' = Mark(x, d)
  <2>1. CASE x[1] = src
    <3>1. Mark(x, d) = NewCounter(d)
      BY <1>1, <1>4, <2>1, MarkIs
    <3>2. CASE x \in Frames'
      <4>1. ctrs'[x[1]][x[2]] = <<>>
        BY <1>3, <2>1, <3>2, MarkIs
      <4> QED BY <3>1, <4>1, MarkIs, CounterEmpty
    <3>3. CASE x \notin Frames'
      BY <3>1, <3>3, MarkIs
    <3> QED BY <3>2, <3>3
  <2>2. CASE x[1] # src
    <3>1. x \in Frames' <=> x \in Frames
      BY <1>3, <2>2, MarkIs
    <3>2. x \in Frames => ctrs'[x[1]][x[2]] = ctrs[x[1]][x[2]]
      BY <1>3, <2>2, MarkIs
    <3> QED BY <1>1, <2>2, <3>1, <3>2, MarkIs
  <2> QED BY <2>1, <2>2
<1>6. \A N, d : Waiting(N, d)' = Waiting(N, d)
  BY <1>1, WaitingIs
<1> QED BY <1>1, <1>5, <1>6, LedgerSame DEF MInv

(* mergeFrom takes a frame: its counters wait to be ticked at its path. *)
LEMMA MergeFrameLedger ==
  ASSUME MInv, TInv', FramesFinite', Ledger, MergeFrame
  PROVE  Ledger'
<1>n. PICK n : n = Head(todo)
  OBVIOUS
<1>z. PICK z : z = <<src, n>>
  OBVIOUS
<1>1. /\ src \in Buffer /\ src # NoBuffer /\ n \in DOMAIN kids[src]
      /\ Reached(todo, n)
      /\ \A m \in DOMAIN kids[src] : Reached(todo', m) <=> Reached(todo, m) /\ m # n
      /\ Begin(Master, n, ctrs[src][n]) /\ ~ call.active
      /\ UNCHANGED <<profiler, kids, ctrs, src, cost>>
  BY <1>n, MergeEffect
<1>2. /\ call'.active = TRUE /\ call'.stack = n /\ call'.ticks = ctrs[src][n]
      /\ shrunk \subseteq shrunk'
  BY <1>1 DEF Begin
<1>3. n \in Seq(Address) /\ Len(n) <= MaxDepth
  BY <1>1 DEF MInv, TInv, IInv, TreesOK, TreeOK, Short
<1>4. Effective(n) = n
  BY <1>3, EffectivePath
<1>5. Frames' = Frames /\ z \in Frames /\ z[1] = src /\ z[2] = n
  BY <1>1, <1>z, FrameOf DEF Frames, Nodes
<1>6. ASSUME NEW d, NEW x, x # z PROVE Mark(x, d)' = Mark(x, d)
  <2>1. CASE x \in Frames
    <3>1. x = <<x[1], x[2]>> /\ x[2] \in DOMAIN kids[x[1]]
      BY <2>1, MarkIs
    <3>2. x[1] = src => x[2] # n
      BY <1>z, <1>6, <3>1
    <3>3. x[1] = src => (Reached(todo', x[2]) <=> Reached(todo, x[2]))
      BY <1>1, <3>1, <3>2
    <3> QED BY <1>1, <1>5, <2>1, <3>3, MarkIs
  <2>2. CASE x \notin Frames
    BY <1>5, <2>2, MarkIs
  <2> QED BY <2>1, <2>2
<1>7. ASSUME NEW d
      PROVE  Mark(z, d) = Counter(ctrs[src][n], d) /\ Mark(z, d)' = NewCounter(d)
  <2>1. ~ Reached(todo', n) /\ src' = src /\ src # NoBuffer /\ Reached(todo, n)
    BY <1>1
  <2>2. ctrs'[src][n] = ctrs[src][n] /\ z \in Frames'
    BY <1>1, <1>5
  <2>3. Mark(z, d) = Counter(ctrs[src][n], d)
    BY <1>5, <2>1, MarkIs
  <2>4. Mark(z, d)' = NewCounter(d)
    BY <1>5, <2>1, MarkIs
  <2> QED BY <2>3, <2>4
<1>8. ASSUME NEW N, NEW d
      PROVE  /\ Waiting(N, d) = NewCounter(d)
             /\ Waiting(N, d)' = IF n \in N THEN Counter(ctrs[src][n], d) ELSE NewCounter(d)
  BY <1>1, <1>2, <1>4, WaitingIs
<1>9. ASSUME NEW N \in SUBSET Seq(Address), NEW d \in Defs
      PROVE  Moved(z[2] \in N, d, Mark(z, d), Waiting(N, d), Mark(z, d)', Waiting(N, d)')
  <2> DEFINE c == Counter(ctrs[src][n], d)
             o == NewCounter(d)
  <2>1. c.ticks \in Nat /\ c.value \in Nat
    BY <1>5, FrameType DEF MInv, At
  <2>2. o.ticks = 0 /\ o.value = 0
    BY NewParts
  <2> HIDE DEF c, o
  <2>3. Moved(n \in N, d, c, o, o, IF n \in N THEN c ELSE o)
    BY <2>1, <2>2 DEF Moved
  <2> QED BY <1>5, <1>7, <1>8, <2>3 DEF c, o
<1>10. /\ \A d \in Defs : \A x : x # z => Mark(x, d)' = Mark(x, d)
       /\ \A N \in SUBSET Seq(Address) : View(N)' => \A d \in Defs :
            Moved(z[2] \in N, d, Mark(z, d), Waiting(N, d), Mark(z, d)', Waiting(N, d)')
  BY <1>6, <1>9
<1>11. TInv /\ FramesFinite /\ UNCHANGED <<profiler, cost>> /\ shrunk \subseteq shrunk'
  BY <1>1, <1>2 DEF MInv
<1> QED BY <1>10, <1>11, LedgerMove

(* tick: a counter that waited is on the frame, which is the node of the stack or
   one like it. *)
LEMMA TickFrameLedger ==
  ASSUME MInv, WInv, TInv', FramesFinite', Ledger, TickFrame
  PROVE  Ledger'
<1>b. PICK b : b = call.buf
  OBVIOUS
<1>n. PICK n : n = call.frame
  OBVIOUS
<1>c. PICK c : c = Head(call.ticks)
  OBVIOUS
<1>o. PICK cs : cs = ctrs[b][n]
  OBVIOUS
<1>e. PICK e : e = Effective(call.stack)
  OBVIOUS
<1>z. PICK z : z = <<b, n>>
  OBVIOUS
<1>1. /\ b \in Buffer /\ n \in DOMAIN kids[b]
      /\ CountersGood(cs, Defs) /\ Sound(cs) /\ Roomy(cs, c.def)
      /\ c \in Values(Defs) /\ call.ticks \in Seq(Values(Defs))
      /\ call.ticks # <<>> /\ Distinct(call.ticks) /\ Sound(call.ticks)
      /\ ctrs'[b][n] = Merged(cs, c)
      /\ \A f \in Buffer : \A m \in DOMAIN kids[f] :
            f # b \/ m # n => ctrs'[f][m] = ctrs[f][m]
      /\ UNCHANGED <<profiler, kids, src, todo, cost, shrunk>>
      /\ call'.ticks = Tail(call.ticks) /\ call'.active /\ call.active
      /\ call'.stack = call.stack /\ Pushed
  BY <1>b, <1>n, <1>c, <1>o, TickEffect
<1>2. /\ c.ticks >= 1 /\ (c.def \notin MaxDefs => c.peak <= c.value)
      /\ Counter(call.ticks, c.def) = c
      /\ Counter(call'.ticks, c.def) = NewCounter(c.def)
      /\ \A d : d # c.def => Counter(call'.ticks, d) = Counter(call.ticks, d)
  BY <1>1, <1>c, TailCounter
<1>3. LET r == Merged(cs, c)
          o == Counter(cs, c.def) IN
      /\ \A d : d # c.def => Counter(r, d) = Counter(cs, d)
      /\ Counter(r, c.def).ticks = o.ticks + c.ticks
      /\ c.def \notin MaxDefs => Counter(r, c.def).value = o.value + c.value
      /\ c.def \in MaxDefs =>
           Counter(r, c.def).value = IF o.value < c.value THEN c.value ELSE o.value
  BY <1>1, <1>2, MergedCounter
<1>4. Frames' = Frames /\ z \in Frames /\ z[1] = b /\ z[2] = n
  BY <1>1, <1>z, FrameOf DEF Frames, Nodes
<1>5. src # NoBuffer => b # src
  BY <1>1, <1>b DEF MInv, Merging
<1>6. ASSUME NEW d, NEW x, x # z PROVE Mark(x, d)' = Mark(x, d)
  <2>1. CASE x \in Frames
    <3>1. x = <<x[1], x[2]>> /\ x[1] \in Buffer /\ x[2] \in DOMAIN kids[x[1]]
      BY <2>1, MarkIs
    <3>2. x[1] # b \/ x[2] # n
      BY <1>z, <1>6, <3>1
    <3>3. ctrs'[x[1]][x[2]] = ctrs[x[1]][x[2]]
      BY <1>1, <3>1, <3>2
    <3> QED BY <1>1, <1>4, <2>1, <3>3, MarkIs
  <2>2. CASE x \notin Frames
    BY <1>4, <2>2, MarkIs
  <2> QED BY <2>1, <2>2
<1>7. ASSUME NEW d
      PROVE  Mark(z, d) = Counter(cs, d) /\ Mark(z, d)' = Counter(Merged(cs, c), d)
  BY <1>1, <1>4, <1>5, <1>o, MarkIs
<1>8. ASSUME NEW N, NEW d
      PROVE  /\ Waiting(N, d) = IF e \in N THEN Counter(call.ticks, d) ELSE NewCounter(d)
             /\ Waiting(N, d)' = IF e \in N THEN Counter(call'.ticks, d) ELSE NewCounter(d)
  <2>1. Effective(call'.stack) = e
    BY <1>1, <1>e
  <2> QED BY <1>1, <1>e, <2>1, WaitingIs
<1>9. ASSUME NEW N \in SUBSET Seq(Address), View(N)', NEW d \in Defs
      PROVE  Moved(z[2] \in N, d, Mark(z, d), Waiting(N, d), Mark(z, d)', Waiting(N, d)')
  <2>1. View(N)
    BY <1>1, <1>9 DEF View
  <2>2. n \in N <=> e \in N
    BY <1>1, <1>n, <1>e, <2>1, PlaceOfSample
  <2> DEFINE in == n \in N
             o == Counter(cs, d)
             p == Counter(Merged(cs, c), d)
             v == IF in THEN Counter(call.ticks, d) ELSE NewCounter(d)
             w == IF in THEN Counter(call'.ticks, d) ELSE NewCounter(d)
  <2>3. o.ticks \in Nat /\ o.value \in Nat
    BY <1>1, CounterType DEF CountersGood
  <2>4. c.ticks \in Nat /\ c.value \in Nat
    BY <1>1 DEF Values
  <2>5. NewCounter(d).ticks = 0 /\ NewCounter(d).value = 0
    BY NewParts
  <2>6. CASE ~ in
    <3>1. v = w
      BY <2>6
    <3> HIDE DEF o, p, v, w
    <3> QED BY <1>4, <1>7, <1>8, <2>2, <2>6, <3>1 DEF Moved, v, w
  <2>7. CASE in /\ d # c.def
    <3>1. v = w /\ o = p
      BY <1>2, <1>3, <2>7
    <3> QED BY <1>4, <1>7, <1>8, <2>2, <3>1 DEF Moved
  <2>8. CASE in /\ d = c.def
    <3>1. v = c /\ w = NewCounter(d)
      BY <1>2, <2>8
    <3>2. /\ p.ticks = o.ticks + c.ticks
          /\ d \notin MaxDefs => p.value = o.value + c.value
          /\ d \in MaxDefs => p.value = IF o.value < c.value THEN c.value ELSE o.value
      BY <1>3, <2>8
    <3>3. in
      BY <2>8
    <3> HIDE DEF o, p, v, w, in
    <3>4. w.ticks = 0 /\ w.value = 0
      BY <2>5, <3>1
    <3>5. Moved(in, d, o, v, p, w)
      BY <2>3, <2>4, <3>1, <3>2, <3>3, <3>4 DEF Moved
    <3>6. /\ Mark(z, d) = o /\ Mark(z, d)' = p /\ Waiting(N, d) = v /\ Waiting(N, d)' = w
          /\ (z[2] \in N <=> in)
      BY <1>4, <1>7, <1>8, <2>2 DEF o, p, v, w, in
    <3> QED BY <3>3, <3>5, <3>6 DEF Moved
  <2> QED BY <2>6, <2>7, <2>8
<1>10. /\ \A d \in Defs : \A x : x # z => Mark(x, d)' = Mark(x, d)
       /\ \A N \in SUBSET Seq(Address) : View(N)' => \A d \in Defs :
            Moved(z[2] \in N, d, Mark(z, d), Waiting(N, d), Mark(z, d)', Waiting(N, d)')
  BY <1>6, <1>9
<1>11. TInv /\ FramesFinite /\ UNCHANGED <<profiler, cost>> /\ shrunk \subseteq shrunk'
  BY <1>1 DEF MInv
<1> QED BY <1>10, <1>11, LedgerMove

(* The paths of the samples are finitely many. *)
LEMMA PathsFinite ==
  /\ IsFiniteSet(Paths) /\ Paths \subseteq Seq(Address)
  /\ \A s \in Stacks : Effective(s) \in Paths
<1> DEFINE f == [s \in Stacks |-> Effective(s)]
<1>1. IsFiniteSet(Paths)
  <2>1. f \in [Stacks -> Paths] /\ \A n \in Paths : \E s \in Stacks : f[s] = n
    BY DEF Paths
  <2> HIDE DEF f
  <2>2. f \in Surjection(Stacks, Paths)
    BY <2>1 DEF Surjection
  <2> QED BY <2>2, StackAssumption, FS_Surjection
<1>2. \A s \in Stacks : Effective(s) \in Seq(Address)
  BY StackAssumption, EffectiveFacts
<1> QED BY <1>1, <1>2 DEF Paths

(* A sample is paid, and its counters wait. *)
LEMMA SampleLedger ==
  ASSUME MInv, TInv', FramesFinite', Ledger,
         NEW b \in Buffer, NEW s \in Stacks, NEW v \in profiler.amounts, Sample(b, s, v)
  PROVE  Ledger'
<1> DEFINE n == Effective(s)
           q == [ticks |-> cost[n].ticks + 1, value |-> cost[n].value + v,
                 largest |-> Max({cost[n].largest, v})]
<1>1. /\ ~ call.active /\ Begin(b, s, SampleTicks(v)) /\ cost' = [cost EXCEPT ![n] = q]
      /\ UNCHANGED <<profiler, kids, ctrs, src, todo>>
  BY DEF Sample, AtRest, tree, merge
<1>2. /\ call'.active /\ call'.stack = s /\ call'.ticks = SampleTicks(v)
      /\ shrunk \subseteq shrunk'
  BY <1>1 DEF Begin
<1>3. n \in Paths /\ IsFiniteSet(Paths) /\ n \in Seq(Address)
  BY PathsFinite
<1>4. cost \in [Paths -> [ticks : Nat, value : Nat, largest : Nat]]
  BY DEF MInv, CostType
<1>5. /\ v \in Nat
      /\ \A d \in Defs : Counter(SampleTicks(v), d).ticks = 1 /\ Counter(SampleTicks(v), d).value = v
  BY SampleSound DEF MInv
<1>6. /\ cost[n].ticks \in Nat /\ cost[n].value \in Nat /\ cost[n].largest \in Nat
  BY <1>3, <1>4
<1>7. Max({cost[n].largest, v}) = IF cost[n].largest < v THEN v ELSE cost[n].largest
  BY <1>5, <1>6, MaxOfTwo
<1> HIDE DEF n
<1>8. /\ cost'[n] = q /\ \A m \in Paths : m # n => cost'[m] = cost[m]
      /\ q.ticks = cost[n].ticks + 1 /\ q.value = cost[n].value + v
      /\ q.largest = IF cost[n].largest < v THEN v ELSE cost[n].largest
  BY <1>1, <1>3, <1>4, <1>7
<1> HIDE DEF q
<1>9. Defs' = Defs
  BY <1>1, SameDefs
<1>10. \A d : \A x : Mark(x, d)' = Mark(x, d)
  BY <1>1, SameMarks
<1> SUFFICES ASSUME NEW N \in SUBSET Seq(Address), View(N)', NEW d \in Defs
             PROVE  Agrees(N, d)'
  BY <1>9 DEF Ledger
<1>11. View(N)
  BY <1>2 DEF View
<1>12. Agrees(N, d)
  BY <1>11 DEF Ledger
<1>13. /\ Waiting(N, d).ticks = 0 /\ Waiting(N, d).value = 0
       /\ Waiting(N, d)'.ticks = IF n \in N THEN 1 ELSE 0
       /\ Waiting(N, d)'.value = IF n \in N THEN v ELSE 0
  <2>1. Waiting(N, d) = NewCounter(d)
    BY <1>1, WaitingIs
  <2>2. Waiting(N, d)' = IF n \in N THEN Counter(SampleTicks(v), d) ELSE NewCounter(d)
    BY <1>2, WaitingIs DEF n
  <2> QED BY <1>5, <2>1, <2>2, NewParts
<1>14. ASSUME NEW k \in {"ticks", "value"}, Balanced(N, d, k)
       PROVE  Balanced(N, d, k)'
  <2> DEFINE P == N \cap Paths
             f == [m \in Paths |-> Part(cost[m], k)]
             g == [m \in Paths |-> Part(cost'[m], k)]
             a == IF k = "ticks" THEN 1 ELSE v
             h == HeldBy(N, d, k)
  <2>1. h \in Int /\ HeldBy(N, d, k)' = h
    <3>z. PICK z : z = <<Master, Root>>
      OBVIOUS
    <3>1. /\ h \in Int
          /\ HeldBy(N, d, k)' = h +
               (IF z[2] \in N THEN Part(Mark(z, d)', k) - Part(Mark(z, d), k) ELSE 0)
      <4>1. \A x : x # z => Mark(x, d)' = Mark(x, d)
        BY <1>10
      <4>2. TInv /\ FramesFinite
        BY DEF MInv
      <4> QED BY <4>1, <4>2, HeldMove
    <3>2. Mark(z, d)' = Mark(z, d)
      BY <1>10
    <3>3. Part(Mark(z, d), k) \in Nat
      BY MarkType DEF MInv, Part
    <3> HIDE DEF h
    <3> QED BY <3>1, <3>2, <3>3
  <2>2. Paid(N, k) = SumFunctionOnSet(f, P) /\ Paid(N, k)' = SumFunctionOnSet(g, P)
    BY DEF Paid, Part, Paths, Effective
  <2>3. IsFiniteSet(P) /\ \A m \in P : f[m] \in Int
    BY <1>3, <1>4, FS_Subset DEF Part
  <2>4. \A m \in P : m # n => g[m] = f[m]
    BY <1>8
  <2>5. g[n] = f[n] + a
    BY <1>3, <1>8 DEF Part
  <2>6. SumFunctionOnSet(f, P) \in Int
    BY <2>3, SumInt
  <2>7. a \in Int
    BY <1>5
  <2>8. n \in P <=> n \in N
    BY <1>3
  <2>9. h + Part(Waiting(N, d), k) = Paid(N, k)
    BY <1>14 DEF Balanced
  <2>10. /\ Part(Waiting(N, d), k) = 0
         /\ Part(Waiting(N, d)', k) = IF n \in N THEN a ELSE 0
    BY <1>13 DEF Part
  <2>11. Balanced(N, d, k)' <=> HeldBy(N, d, k)' + Part(Waiting(N, d)', k) = Paid(N, k)'
    BY DEF Balanced, Part
  <2> HIDE DEF f, g, P, a, h
  <2>12. CASE n \in N
    <3>1. SumFunctionOnSet(g, P) = SumFunctionOnSet(f, P) + a
      BY <2>3, <2>4, <2>5, <2>7, <2>8, <2>12, SumChange
    <3> QED BY <2>1, <2>2, <2>6, <2>7, <2>9, <2>10, <2>11, <2>12, <3>1
  <2>13. CASE n \notin N
    <3>1. SumFunctionOnSet(f, P) = SumFunctionOnSet(g, P)
      BY <2>3, <2>4, <2>8, <2>13, SumSame
    <3> QED BY <2>1, <2>2, <2>6, <2>9, <2>10, <2>11, <2>13, <3>1
  <2> QED BY <2>12, <2>13
<1>15. Balanced(N, d, "ticks")'
  BY <1>12, <1>14 DEF Agrees
<1>16. CASE d \notin MaxDefs
  <2>1. Balanced(N, d, "value")'
    BY <1>12, <1>14, <1>16 DEF Agrees
  <2> QED BY <1>15, <1>16, <2>1 DEF Agrees
<1>17. CASE d \in MaxDefs
  <2>1. Dominated(N, d)
    BY <1>12, <1>17 DEF Agrees
  <2>2. ASSUME NEW K \in Nat
        PROVE  Covered(N, d, K)' /\ Waiting(N, d)'.value <= K
               <=> \A m \in N \cap Paths : cost'[m].largest <= K
    <3>1. Covered(N, d, K)' <=> Covered(N, d, K)
      BY <1>10, CoveredMarks
    <3>2. Covered(N, d, K) <=> \A m \in N \cap Paths : cost[m].largest <= K
      BY <1>13, <2>1 DEF Dominated
    <3>3. Waiting(N, d)'.value <= K <=> (n \in N => v <= K)
      BY <1>5, <1>13
    <3>4. cost'[n].largest <= K <=> cost[n].largest <= K /\ v <= K
      BY <1>5, <1>6, <1>8
    <3>5. \A m \in N \cap Paths : m # n => cost'[m].largest = cost[m].largest
      BY <1>8
    <3> QED BY <1>3, <3>1, <3>2, <3>3, <3>4, <3>5
  <2>3. Dominated(N, d)' <=>
          \A K \in Nat : Covered(N, d, K)' /\ Waiting(N, d)'.value <= K
                         <=> \A m \in N \cap Paths : cost'[m].largest <= K
    BY DEF Dominated, Paths, Effective
  <2>4. Dominated(N, d)'
    BY <2>2, <2>3
  <2> QED BY <1>15, <1>17, <2>4 DEF Agrees
<1> QED BY <1>16, <1>17

(* Buffers that start over and nothing paid. *)
Fresh == /\ TInv /\ FramesFinite /\ ~ call.active /\ cost = NoCost
         /\ \A b \in Buffer : DOMAIN kids[b] = {Root} /\ ctrs[b][Root] = <<>>

(* Their ledger is in order. *)
LEMMA FreshLedger == Fresh => Ledger
<1> SUFFICES ASSUME Fresh, NEW N \in SUBSET Seq(Address), NEW d \in Defs
             PROVE  Agrees(N, d)
  BY DEF Ledger
<1>1. ASSUME NEW x \in Frames PROVE At(x, d) = NewCounter(d)
  <2>1. x[1] \in Buffer /\ x[2] \in DOMAIN kids[x[1]]
    BY FrameType DEF Fresh
  <2>2. ctrs[x[1]][x[2]] = <<>>
    BY <2>1 DEF Fresh
  <2> QED BY <2>2, CounterEmpty DEF At
<1>2. Waiting(N, d) = NewCounter(d)
  BY WaitingIs DEF Fresh
<1>3. /\ NewCounter(d).value = 0
      /\ \A k : Part(NewCounter(d), k) = 0
  BY NewParts
<1>4. LiveOf(N) \subseteq Frames
  BY DEF LiveOf, FramesOf
<1>5. ASSUME NEW k PROVE HeldBy(N, d, k) = 0
  <2> DEFINE f == [x \in Frames |-> Part(At(x, d), k)]
             S == LiveOf(N)
  <2>1. \A x \in S : f[x] = 0
    BY <1>1, <1>3, <1>4
  <2>2. HeldBy(N, d, k) = SumFunctionOnSet(f, S) /\ IsFiniteSet(S)
    BY <1>4, FS_Subset DEF HeldBy, Fresh, FramesFinite
  <2> HIDE DEF f, S
  <2>3. SumFunctionOnSet(f, S) = SumFunctionOnSet(f, {})
    BY <2>1, <2>2, SumZeros
  <2> QED BY <2>2, <2>3, SumEmpty
<1>6. \A n \in Paths : cost[n] = [ticks |-> 0, value |-> 0, largest |-> 0]
  BY DEF Fresh, NoCost
<1>7. ASSUME NEW k PROVE Paid(N, k) = 0
  <2> DEFINE f == [n \in Paths |-> Part(cost[n], k)]
             S == N \cap Paths
  <2>1. \A x \in S : f[x] = 0
    BY <1>6 DEF Part
  <2>2. Paid(N, k) = SumFunctionOnSet(f, S) /\ IsFiniteSet(S)
    BY PathsFinite, FS_Subset DEF Paid
  <2> HIDE DEF f, S
  <2>3. SumFunctionOnSet(f, S) = SumFunctionOnSet(f, {})
    BY <2>1, <2>2, SumZeros
  <2> QED BY <2>2, <2>3, SumEmpty
<1>8. \A k : Balanced(N, d, k)
  BY <1>2, <1>3, <1>5, <1>7 DEF Balanced
<1>9. Dominated(N, d)
  <2> SUFFICES ASSUME NEW K \in Nat
               PROVE  /\ Covered(N, d, K) /\ Waiting(N, d).value <= K
                      /\ \A n \in N \cap Paths : cost[n].largest <= K
    BY DEF Dominated
  <2>1. 0 <= K
    OBVIOUS
  <2>2. Covered(N, d, K)
    BY <1>1, <1>3, <1>4, <2>1 DEF Covered
  <2> QED BY <1>2, <1>3, <1>6, <2>1, <2>2
<1> QED BY <1>8, <1>9 DEF Agrees

(* The same in the next state. *)
LEMMA NextFreshLedger == Fresh' => Ledger'
<1>1. Fresh => Ledger
  BY FreshLedger
<1> QED BY <1>1, PTL

(* The ledger is in order at first. *)
LEMMA InitLedger == Init => Ledger
<1> SUFFICES ASSUME Init PROVE Ledger
  OBVIOUS
<1>1. TInv /\ FramesFinite
  BY InitMerge DEF MInv
<1>2. ~ call.active /\ cost = NoCost
  BY DEF Init, NoCall
<1>3. \A b \in Buffer : DOMAIN kids[b] = {Root} /\ ctrs[b][Root] = <<>>
  BY EmptyFacts DEF Init
<1>4. Fresh
  BY <1>1, <1>2, <1>3 DEF Fresh
<1> QED BY <1>4, FreshLedger

(* A reset. *)
LEMMA ResetLedger ==
  ASSUME MInv, TInv', FramesFinite', Reset
  PROVE  Ledger'
<1>1. Emptied(Buffer) /\ ~ call.active /\ call' = call /\ cost' = NoCost
  BY DEF Reset, AtRest
<1>2. \A b \in Buffer : DOMAIN kids'[b] = {Root} /\ ctrs'[b][Root] = <<>>
  BY <1>1, EmptiedEffect
<1>3. cost' = NoCost'
  BY <1>1 DEF NoCost, Paths, Effective
<1>4. Fresh'
  BY <1>1, <1>2, <1>3 DEF Fresh, Root
<1> QED BY <1>4, NextFreshLedger

(* Every step keeps the ledger. *)
LEMMA NextLedger == MInv /\ WInv /\ Ledger /\ [Next]_vars => Ledger'
<1> SUFFICES ASSUME MInv, WInv, Ledger, [Next]_vars PROVE Ledger'
  OBVIOUS
<1>a. TInv' /\ FramesFinite'
  BY NextMerge DEF MInv
<1>1. ASSUME NEW b \in Buffer, NEW s \in Stacks, NEW v \in profiler.amounts,
             Sample(b, s, v)
      PROVE  Ledger'
  BY <1>a, <1>1, SampleLedger
<1>2. CASE PushHit \/ PushMiss
  BY <1>a, <1>2, PushLedger
<1>3. CASE TickFrame
  BY <1>a, <1>3, TickFrameLedger
<1>4. CASE TickFails \/ Return \/ UNCHANGED vars
  BY <1>a, <1>4, QuietLedger
<1>5. ASSUME NEW b \in Buffer, MergeBegin(b) PROVE Ledger'
  BY <1>a, <1>5, MergeBeginLedger
<1>6. CASE MergeFrame
  BY <1>a, <1>6, MergeFrameLedger
<1>7. CASE MergeEnd
  BY <1>a, <1>7, MergeEndLedger
<1>8. CASE Reset
  BY <1>a, <1>8, ResetLedger
<1> QED BY <1>1, <1>2, <1>3, <1>4, <1>5, <1>6, <1>7, <1>8 DEF Next

(* A finite set of numbers with 0 has a largest one. *)
LEMMA LargestOf ==
  ASSUME NEW A \in SUBSET Nat, IsFiniteSet(A)
  PROVE  LET m == Max({0} \cup A) IN
         m \in {0} \cup A /\ m \in Nat /\ \A y \in {0} \cup A : y <= m
<1> DEFINE Q == {T \in SUBSET A : \E m \in {0} \cup T : \A y \in {0} \cup T : y <= m}
<1>1. {} \in Q
  OBVIOUS
<1>2. ASSUME NEW T \in SUBSET A, NEW x \in A \ T, T \in Q PROVE T \cup {x} \in Q
  <2>1. PICK m \in {0} \cup T : \A y \in {0} \cup T : y <= m
    BY <1>2
  <2>2. m \in Nat /\ x \in Nat /\ \A y \in {0} \cup T : y \in Nat
    OBVIOUS
  <2>3. PICK k : k = IF m < x THEN x ELSE m
    OBVIOUS
  <2>4. k \in {0} \cup (T \cup {x}) /\ \A y \in {0} \cup (T \cup {x}) : y <= k
    BY <2>1, <2>2, <2>3
  <2> QED BY <2>4
<1> HIDE DEF Q
<1>3. A \in Q
  BY <1>1, <1>2, FiniteInduction
<1>4. PICK m \in {0} \cup A : \A y \in {0} \cup A : m >= y
  BY <1>3 DEF Q
<1>5. Max({0} \cup A) \in {0} \cup A /\ \A y \in {0} \cup A : Max({0} \cup A) >= y
  BY <1>4 DEF Max
<1>m. PICK k : k = Max({0} \cup A)
  OBVIOUS
<1>6. k \in {0} \cup A /\ \A y \in {0} \cup A : k >= y
  BY Zenon, <1>5, <1>m
<1>7. \A y \in {0} \cup A : y \in Nat
  OBVIOUS
<1>8. k \in Nat /\ \A y \in {0} \cup A : y <= k
  BY <1>6, <1>7
<1> QED BY Zenon, <1>6, <1>8, <1>m

(* Sets of numbers with the same bounds have the same largest one. *)
LEMMA SameLargest ==
  ASSUME NEW A \in SUBSET Nat, NEW B \in SUBSET Nat, IsFiniteSet(A), IsFiniteSet(B),
         \A K \in Nat : (\A x \in A : x <= K) <=> (\A x \in B : x <= K)
  PROVE  Max({0} \cup A) = Max({0} \cup B)
<1>a. PICK a : a = Max({0} \cup A)
  OBVIOUS
<1>b. PICK b : b = Max({0} \cup B)
  OBVIOUS
<1>1. a \in {0} \cup A /\ a \in Nat /\ \A y \in {0} \cup A : y <= a
  BY <1>a, LargestOf
<1>2. b \in {0} \cup B /\ b \in Nat /\ \A y \in {0} \cup B : y <= b
  BY <1>b, LargestOf
<1>3. (\A x \in B : x <= a) /\ (\A x \in A : x <= b)
  BY <1>1, <1>2
<1>4. a <= b /\ b <= a
  BY <1>1, <1>2, <1>3
<1> QED BY <1>1, <1>2, <1>4, <1>a, <1>b

(* At rest nothing waits and every frame counts: the counters agree with the
   samples. *)
LEMMA LedgerAgrees ==
  ASSUME MInv, Ledger, AtRest, NEW N \in SUBSET Seq(Address), View(N)
  PROVE  Agree(N)
<1> SUFFICES ASSUME NEW d \in Defs
    PROVE /\ SumTicks(N, d) = SumFunctionOnSet([n \in Paths |-> cost[n].ticks], N \cap Paths)
          /\ IF d \in MaxDefs
             THEN Largest(N, d) = Max({0} \cup {cost[n].largest : n \in N \cap Paths})
             ELSE SumValue(N, d) =
                    SumFunctionOnSet([n \in Paths |-> cost[n].value], N \cap Paths)
  BY DEF Agree
<1>1. src = NoBuffer /\ ~ call.active
  BY DEF AtRest
<1>2. LiveOf(N) = FramesOf(N)
  BY <1>1 DEF LiveOf, Live
<1>3. Waiting(N, d) = NewCounter(d)
  BY <1>1, WaitingIs
<1>4. Waiting(N, d).value = 0 /\ \A k : Part(Waiting(N, d), k) = 0
  BY <1>3, NewParts
<1>5. Agrees(N, d)
  BY DEF Ledger
<1>6. FramesOf(N) \subseteq Frames /\ IsFiniteSet(FramesOf(N))
  BY FS_Subset DEF FramesOf, MInv, FramesFinite
<1>7. ASSUME NEW k, Balanced(N, d, k) PROVE HeldBy(N, d, k) = Paid(N, k)
  <2> DEFINE f == [x \in Frames |-> Part(At(x, d), k)]
  <2>1. \A x \in Frames : f[x] \in Int
    BY FrameType DEF MInv, Part
  <2>2. HeldBy(N, d, k) = SumFunctionOnSet(f, FramesOf(N))
    BY <1>2 DEF HeldBy
  <2> HIDE DEF f
  <2>3. HeldBy(N, d, k) \in Int
    BY <1>6, <2>1, <2>2, SumInt
  <2> QED BY <1>4, <1>7, <2>3 DEF Balanced
<1>8. SumTicks(N, d) = SumFunctionOnSet([n \in Paths |-> cost[n].ticks], N \cap Paths)
  <2>1. HeldBy(N, d, "ticks") = Paid(N, "ticks")
    BY <1>5, <1>7 DEF Agrees
  <2> QED BY <1>2, <2>1 DEF HeldBy, Paid, Part, SumTicks
<1>9. CASE d \notin MaxDefs
  <2>1. HeldBy(N, d, "value") = Paid(N, "value")
    BY <1>5, <1>7, <1>9 DEF Agrees
  <2>2. SumValue(N, d) = SumFunctionOnSet([n \in Paths |-> cost[n].value], N \cap Paths)
    BY <1>2, <2>1 DEF HeldBy, Paid, Part, SumValue
  <2> QED BY <1>8, <1>9, <2>2
<1>10. CASE d \in MaxDefs
  <2> DEFINE A == {At(x, d).value : x \in FramesOf(N)}
             B == {cost[n].largest : n \in N \cap Paths}
             F == [x \in FramesOf(N) |-> At(x, d).value]
             G == [n \in N \cap Paths |-> cost[n].largest]
  <2>1. A \in SUBSET Nat
    BY <1>6, FrameType DEF MInv
  <2>2. B \in SUBSET Nat
    BY DEF MInv, CostType
  <2>3. IsFiniteSet(A)
    <3>1. F \in [FramesOf(N) -> A] /\ \A a \in A : \E x \in FramesOf(N) : F[x] = a
      OBVIOUS
    <3> HIDE DEF F, A
    <3>2. F \in Surjection(FramesOf(N), A)
      BY <3>1 DEF Surjection
    <3> QED BY <1>6, <3>2, FS_Surjection
  <2>4. IsFiniteSet(B)
    <3>1. G \in [N \cap Paths -> B] /\ \A a \in B : \E n \in N \cap Paths : G[n] = a
      OBVIOUS
    <3>2. IsFiniteSet(N \cap Paths)
      BY PathsFinite, FS_Subset
    <3> HIDE DEF G, B
    <3>3. G \in Surjection(N \cap Paths, B)
      BY <3>1 DEF Surjection
    <3> QED BY <3>2, <3>3, FS_Surjection
  <2>5. ASSUME NEW K \in Nat PROVE (\A x \in A : x <= K) <=> (\A x \in B : x <= K)
    <3>1. Covered(N, d, K) <=> \A n \in N \cap Paths : cost[n].largest <= K
      BY <1>4, <1>5, <1>10 DEF Agrees, Dominated
    <3>2. Covered(N, d, K) <=> \A x \in A : x <= K
      BY <1>2 DEF Covered
    <3> QED BY <3>1, <3>2
  <2>6. Largest(N, d) = Max({0} \cup A)
    BY DEF Largest
  <2> HIDE DEF A
  <2>7. Max({0} \cup A) = Max({0} \cup B)
    BY <2>1, <2>2, <2>3, <2>4, <2>5, SameLargest
  <2> QED BY <1>8, <1>10, <2>6, <2>7
<1> QED BY <1>9, <1>10

(* Whatever the call cache did, the samples of a function at a depth are on the
   nodes of that function at that depth. *)
LEMMA LedgerSelfCosts ==
  ASSUME MInv, Ledger, AtRest, NEW n \in AllNodes \cup Paths
  PROVE  Agree(Like(n))
<1> DEFINE N == {m \in Seq(Address) : Alike(m, n)}
<1>1. Paths \subseteq Seq(Address)
  BY PathsFinite
<1>2. AllNodes \subseteq Seq(Address)
  BY DEF AllNodes, Nodes, MInv, TInv, IInv, TreesOK, TreeOK
<1>3. n \in Seq(Address)
  BY <1>1, <1>2
<1>4. \A m \in Seq(Address) : m # Root <=> Len(m) # 0
  BY DEF Root
<1>5. View(N)
  <2> SUFFICES ASSUME NEW m \in N, NEW k \in Seq(Address), Alike(k, m) PROVE Alike(k, n)
    BY DEF View
  <2>1. Len(k) = Len(m) /\ Len(m) = Len(n) /\ m \in Seq(Address)
    BY DEF Alike
  <2>2. n # Root => m # Root
    BY <1>3, <1>4, <2>1
  <2> QED BY <2>1, <2>2 DEF Alike
<1>6. Agree(N)
  BY <1>5, LedgerAgrees
<1>7. \A m \in AllNodes \cup Paths : m \in Like(n) <=> m \in N
  BY <1>1, <1>2 DEF Like, Alike
<1>8. \A x \in Frames : x[2] \in AllNodes
  BY FrameType DEF MInv, AllNodes, Nodes
<1> HIDE DEF N
<1>9. FramesOf(Like(n)) = FramesOf(N)
  BY <1>7, <1>8 DEF FramesOf
<1>10. Like(n) \cap Paths = N \cap Paths
  BY <1>7
<1> QED BY <1>6, <1>9, <1>10 DEF Agree, SumTicks, SumValue, Largest

(* In every reachable state the innermost function of every sample is charged at
   its depth once: push, tick and mergeFrom lose nothing and count nothing
   twice. *)
THEOREM SamplesCharged == Spec => []SelfCosts
<1>1. MInv /\ Ledger => SelfCosts
  BY LedgerSelfCosts DEF SelfCosts
<1> QED BY <1>1, InitMerge, InitWalk, InitLedger, NextMerge, NextWalk, NextLedger, PTL DEF Spec

(* As long as no buffer had a push shorter than an earlier one, every sample is
   charged to its own call path, so that its callers are the ones it had. *)
THEOREM CallersKept == Spec => []CallersUnlessShrunk
<1>1. ASSUME MInv, Ledger, AtRest, shrunk = {}, NEW n \in AllNodes \cup Paths
      PROVE  Agree({n})
  <2>1. n \in Seq(Address)
    BY <1>1, PathsFinite DEF AllNodes, Nodes, MInv, TInv, IInv, TreesOK, TreeOK
  <2>2. View({n})
    BY <1>1 DEF View
  <2> QED BY <1>1, <2>1, <2>2, LedgerAgrees
<1>2. MInv /\ Ledger => CallersUnlessShrunk
  BY <1>1 DEF CallersUnlessShrunk
<1> QED BY <1>2, InitMerge, InitWalk, InitLedger, NextMerge, NextWalk, NextLedger, PTL DEF Spec
=============================================================================

------------------------ MODULE ResourceTableProofs -------------------------
(***************************************************************************)
(* Proofs about ResourceTable and ResourceHistory, for any resources but   *)
(* 0, any hash function, counters, sizes of resources and of the table:    *)
(*   - its types, and that the slots of the hash, the records and their    *)
(*     links agree between calls, also while the hash grows;               *)
(*   - that the counters agree with the resources they own;                *)
(*   - that walks along the lists meet every record that belongs there;    *)
(*   - that the table implements the map of LiveMap call by call.          *)
(***************************************************************************)
EXTENDS ResourceHistory, SumTheorems, WellFoundedInduction

(* A probe of a resource is a slot of the table. *)
LEMMA ProbeType ==
  ASSUME NEW a \in Address \cup {Zero}, NEW i \in Window, NEW n \in Nat \ {0}
  PROVE  Probe(a, i, n) \in Slots(n)
<1>1. Home[a] + i \in Nat
  BY HashAssumption, ProbeAssumption DEF Window
<1>2. \A m \in Nat : m % n \in 0 .. (n - 1)
  OBVIOUS
<1> QED
  BY <1>1, <1>2 DEF Probe, Slots

(* The least element of a set of probe numbers is one of them. *)
LEMMA LeastType ==
  ASSUME NEW S \in SUBSET Window, S # {}
  PROVE  Least(S) \in S
<1>1. S \subseteq Nat
  BY ProbeAssumption DEF Window
<1>2. PICK x \in S : \A y \in S : ~ (<<y, x>> \in OpToRel(<, Nat))
  BY <1>1, WFMin, NatLessThanWellFounded
<1>3. \A y \in S : ~ (y < x)
  BY <1>1, <1>2, Zenon DEF OpToRel
<1>4. \A y \in S : x <= y
  BY <1>1, <1>3
<1> QED
  BY <1>4 DEF Least

(* The hole a rehash finds is a free slot in the window of the resource. *)
LEMMA FindHoleType ==
  ASSUME NEW n \in Nat \ {0}, NEW t \in [Slots(n) -> SlotType],
         NEW a \in Address \cup {Zero},
         FindHole(t, n, a) # Null
  PROVE  /\ FindHole(t, n, a) \in Slots(n)
         /\ t[FindHole(t, n, a)].record = Null
         /\ InWindow(a, FindHole(t, n, a), n)
<1> DEFINE H == Holes(t, n, a)
<1>1. H \in SUBSET Window /\ H # {}
  BY DEF FindHole, Holes
<1>2. Least(H) \in H
  BY <1>1, LeastType
<1>3. FindHole(t, n, a) = Probe(a, Least(H), n)
  BY <1>1 DEF FindHole
<1>4. Least(H) \in Window /\ t[Probe(a, Least(H), n)].record = Null
  BY <1>2 DEF Holes
<1> QED
  BY <1>3, <1>4, ProbeType DEF InWindow

(* findResource() returns a slot of the window: one that holds the resource, or
   a free one when no slot of the window holds it. *)
LEMMA FindResourceType ==
  ASSUME NEW n \in Nat \ {0}, NEW t \in [Slots(n) -> SlotType],
         NEW a \in Address \cup {Zero}
  PROVE  LET s == FindResource(t, n, a) IN
         /\ s # Null => /\ s \in Slots(n)
                        /\ InWindow(a, s, n)
                        /\ \/ t[s].resource = a
                           \/ /\ t[s].record = Null
                              /\ \A u \in Slots(n) :
                                   InWindow(a, u, n) => t[u].resource # a
         /\ s = Null => \A u \in Slots(n) :
                          InWindow(a, u, n) => t[u].resource # a
<1> DEFINE H == Hits(t, n, a)
<1>1. CASE H = {}
  <2>1. \A u \in Slots(n) : InWindow(a, u, n) => t[u].resource # a
    BY <1>1 DEF Hits, InWindow
  <2>2. FindResource(t, n, a) = FindHole(t, n, a)
    BY <1>1 DEF FindResource
  <2> QED
    BY <2>1, <2>2, FindHoleType
<1>2. CASE H # {}
  <2>1. H \in SUBSET Window
    BY DEF Hits
  <2>2. Least(H) \in H
    BY <1>2, <2>1, LeastType
  <2>3. FindResource(t, n, a) = Probe(a, Least(H), n)
    BY <1>2 DEF FindResource
  <2>4. Least(H) \in Window /\ t[Probe(a, Least(H), n)].resource = a
    BY <2>2 DEF Hits
  <2>5. Probe(a, Least(H), n) \in Slots(n)
    BY <2>4, ProbeType
  <2>6. Probe(a, Least(H), n) # Null
    BY <2>5, NullAssumption DEF Slots
  <2> QED
    BY <2>3, <2>4, <2>5, <2>6 DEF InWindow
<1> QED
  BY <1>1, <1>2
-----------------------------------------------------------------------------
(* What each operation on the buffer does to its fields. *)

Fields(b) == [table |-> b.table, size |-> b.size, used |-> b.used, rec |-> b.rec,
              resfree |-> b.resfree, alloc |-> b.alloc, ctr |-> b.ctr]

(* tick() changes the counters' values and nothing else of a buffer. *)
LEMMA TickFields ==
  ASSUME NEW b, BufferType(b), NEW c \in Counter, NEW sz \in Nat
  PROVE  LET t == Tick(b, c, sz) IN
         /\ BufferType(t)
         /\ t.table = b.table /\ t.size = b.size /\ t.rec = b.rec
         /\ t.resfree = b.resfree /\ t.alloc = b.alloc
         /\ \A d \in Counter : t.ctr[d].resources = b.ctr[d].resources
<1> DEFINE z == b.ctr[c]
           v == z.value + sz
           x == [ticks |-> z.ticks + 1, value |-> v,
                 peak |-> IF v > z.peak THEN v ELSE z.peak,
                 resources |-> z.resources]
           t == Tick(b, c, sz)
<1>1. b.ctr[c] \in CounterType
  BY DEF BufferType
<1>2. x \in CounterType /\ x.resources = b.ctr[c].resources
  BY <1>1 DEF CounterType
<1>3. t = [b EXCEPT !.ctr = [b.ctr EXCEPT ![c] = x]]
  BY Zenon DEF Tick
<1> HIDE DEF x
<1>4. t = [table |-> b.table, size |-> b.size, used |-> b.used, rec |-> b.rec,
           resfree |-> b.resfree, alloc |-> b.alloc,
           ctr |-> [b.ctr EXCEPT ![c] = x]]
  BY <1>3 DEF BufferType
<1> HIDE DEF t
<1>5. t.ctr \in [Counter -> CounterType]
  BY <1>2, <1>4 DEF BufferType
<1>6. \A d \in Counter : t.ctr[d].resources = b.ctr[d].resources
  BY <1>2, <1>4 DEF BufferType
<1>7. BufferType(t)
  BY <1>4, <1>5 DEF BufferType
<1> QED
  BY <1>4, <1>6, <1>7 DEF t

(* R is b after releaseResource of slot s. *)
ReleaseEffect(b, s, R) ==
  LET r == b.table[s].record
      x == b.rec[r]
  IN
  /\ r \in Record /\ x \in RecordType /\ x.counter \in Counter
  /\ R.table = [b.table EXCEPT ![s] = EmptySlot]
  /\ R.size = b.size /\ R.resfree = r /\ R.alloc = b.alloc
  /\ R.rec[r] = FreedRecord(b.resfree)
  /\ \A q \in Record \ {r} :
       /\ R.rec[q].hashslot = b.rec[q].hashslot
       /\ R.rec[q].counter = b.rec[q].counter
       /\ R.rec[q].size = b.rec[q].size
       /\ R.rec[q].next = IF q = x.prev THEN x.next ELSE b.rec[q].next
       /\ R.rec[q].prev = IF q = x.next THEN x.prev ELSE b.rec[q].prev
  /\ \A d \in Counter : R.ctr[d].resources =
       IF d = x.counter /\ x.prev = Null THEN x.next
       ELSE b.ctr[d].resources

(* What releaseResource() does to each part of a buffer. *)
LEMMA ReleaseFields ==
  ASSUME NEW b, BufferType(b), NEW s \in Slots(b.size),
         b.table[s].record # Null, Live(b, b.table[s].record)
  PROVE  /\ BufferType(ReleaseResource(b, s))
         /\ ReleaseEffect(b, s, ReleaseResource(b, s))
<1> DEFINE R == ReleaseResource(b, s)
           r == b.table[s].record
           x == b.rec[r]
           z == b.ctr[x.counter]
           y == [ticks |-> z.ticks - 1, value |-> z.value - x.size,
                 peak |-> z.peak,
                 resources |-> IF x.prev = Null THEN x.next ELSE z.resources]
           f == [q \in Record |->
                  IF q = r THEN FreedRecord(b.resfree)
                  ELSE [b.rec[q] EXCEPT
                         !.next = IF q = x.prev THEN x.next ELSE b.rec[q].next,
                         !.prev = IF q = x.next THEN x.prev ELSE b.rec[q].prev]]
<1>1. r \in Record
  BY DEF BufferType, SlotType
<1>2. x \in RecordType /\ x.counter \in Counter
  <2>1. x \in RecordType
    BY <1>1 DEF BufferType
  <2>2. x.counter # Null
    BY DEF Live
  <2> QED
    BY <2>1, <2>2 DEF RecordType
<1>3. /\ y \in CounterType
      /\ y.resources = IF x.prev = Null THEN x.next
                       ELSE b.ctr[x.counter].resources
  <2> HIDE DEF x
  <2>1. b.ctr[x.counter] \in CounterType
    BY <1>2 DEF BufferType
  <2>2. x.next \in Record \cup {Null} /\ x.size \in Nat
    BY <1>2 DEF RecordType
  <2> QED
    BY <2>1, <2>2 DEF CounterType
<1>a. R = [b EXCEPT !.ctr = [b.ctr EXCEPT ![x.counter] = y],
                    !.table = [b.table EXCEPT ![s] = EmptySlot],
                    !.rec = f, !.resfree = r, !.used = b.used - 1]
  BY ZenonT(60) DEF ReleaseResource
<1>5. f \in [Record -> RecordType]
  <2>1. FreedRecord(b.resfree) \in RecordType
    BY DEF FreedRecord, RecordType, BufferType
  <2>2. \A q \in Record : b.rec[q] \in RecordType
    BY DEF BufferType
  <2>3. x.prev \in Record \cup {Null} /\ x.next \in Record \cup {Null}
    BY <1>2 DEF RecordType
  <2> DEFINE g(q) == [b.rec[q] EXCEPT
                       !.next = IF q = x.prev THEN x.next ELSE b.rec[q].next,
                       !.prev = IF q = x.next THEN x.prev ELSE b.rec[q].prev]
  <2>4. \A q \in Record : /\ b.rec[q].next \in Record \cup {Null}
                          /\ b.rec[q].prev \in Record \cup {Null}
    BY <2>2 DEF RecordType
  <2> HIDE DEF x, r
  <2>5. ASSUME NEW q \in Record PROVE g(q) \in RecordType
    <3> DEFINE n == IF q = x.prev THEN x.next ELSE b.rec[q].next
               p == IF q = x.next THEN x.prev ELSE b.rec[q].prev
    <3>1. n \in Record \cup {Null} /\ p \in Record \cup {Null}
      BY <2>3, <2>4
    <3>2. b.rec[q] \in RecordType
      BY <2>2
    <3> HIDE DEF n, p
    <3>3. [b.rec[q] EXCEPT !.next = n, !.prev = p] \in RecordType
      BY <3>1, <3>2 DEF RecordType
    <3> QED
      BY <3>3 DEF n, p
  <2> QED
    BY <2>1, <2>5
<1>6. f[r] = FreedRecord(b.resfree)
  BY <1>1, Zenon
<1>7. \A q \in Record \ {r} :
        /\ f[q].hashslot = b.rec[q].hashslot
        /\ f[q].counter = b.rec[q].counter
        /\ f[q].size = b.rec[q].size
        /\ f[q].next = IF q = x.prev THEN x.next ELSE b.rec[q].next
        /\ f[q].prev = IF q = x.next THEN x.prev ELSE b.rec[q].prev
  <2>1. \A q \in Record : b.rec[q] \in RecordType
    BY DEF BufferType
  <2> QED
    BY <2>1 DEF RecordType
<1> HIDE DEF f, y, R
<1>b. b = Fields(b)
  BY DEF BufferType, Fields
<1>4. R = [table |-> [b.table EXCEPT ![s] = EmptySlot], size |-> b.size,
           used |-> b.used - 1, rec |-> f, resfree |-> r, alloc |-> b.alloc,
           ctr |-> [b.ctr EXCEPT ![x.counter] = y]]
  BY <1>a, <1>b DEF Fields
<1>8. EmptySlot \in SlotType
  BY DEF EmptySlot, SlotType
<1>9. BufferType(R)
  <2>1. [b.table EXCEPT ![s] = EmptySlot] \in [Slots(b.size) -> SlotType]
    BY <1>8 DEF BufferType
  <2>2. [b.ctr EXCEPT ![x.counter] = y] \in [Counter -> CounterType]
    BY <1>3 DEF BufferType
  <2> HIDE DEF x, r
  <2> QED
    BY <1>1, <1>4, <1>5, <2>1, <2>2 DEF BufferType
<1>10. \A d \in Counter : R.ctr[d].resources =
         IF d = x.counter /\ x.prev = Null THEN x.next ELSE b.ctr[d].resources
  BY <1>2, <1>3, <1>4 DEF BufferType
<1>11. R.rec = f /\ R.table = [b.table EXCEPT ![s] = EmptySlot] /\ R.size = b.size
       /\ R.resfree = r /\ R.alloc = b.alloc
  BY <1>4
<1> QED
  BY <1>1, <1>2, <1>6, <1>7, <1>9, <1>10, <1>11, Zenon DEF R, ReleaseEffect

(* I is b after resource a was entered into slot s. *)
InsertEffect(b, s, r, c, a, sz, I) ==
  LET head == b.ctr[c].resources IN
  /\ I.table = [b.table EXCEPT ![s] = [resource |-> a, record |-> r]]
  /\ I.size = b.size /\ I.alloc = b.alloc \cup {r}
  /\ I.resfree = IF b.resfree = r THEN b.rec[r].next ELSE b.resfree
  /\ I.rec[r] = [hashslot |-> s, prev |-> Null, next |-> head,
                 counter |-> c, size |-> sz]
  /\ \A q \in Record \ {r} :
       /\ I.rec[q].hashslot = b.rec[q].hashslot
       /\ I.rec[q].counter = b.rec[q].counter
       /\ I.rec[q].size = b.rec[q].size
       /\ I.rec[q].next = b.rec[q].next
       /\ I.rec[q].prev = IF q = head THEN r ELSE b.rec[q].prev
  /\ \A d \in Counter : I.ctr[d].resources =
       IF d = c THEN r ELSE b.ctr[d].resources

(* What the end of acquire() does to each part of a buffer. *)
LEMMA InsertFields ==
  ASSUME NEW b, BufferType(b), NEW s \in Slots(b.size), NEW r \in Record,
         NEW c \in Counter, NEW a \in Address, NEW sz \in Nat
  PROVE  /\ BufferType(Insert(b, s, r, c, a, sz))
         /\ InsertEffect(b, s, r, c, a, sz, Insert(b, s, r, c, a, sz))
<1> DEFINE I == Insert(b, s, r, c, a, sz)
           head == b.ctr[c].resources
           new == [hashslot |-> s, prev |-> Null, next |-> head,
                   counter |-> c, size |-> sz]
           f == [q \in Record |->
                  IF q = r THEN new
                  ELSE [b.rec[q] EXCEPT
                         !.prev = IF q = head THEN r ELSE b.rec[q].prev]]
           y == [b.ctr[c] EXCEPT !.resources = r]
<1>1. b.ctr[c] \in CounterType /\ b.rec[r] \in RecordType
  BY DEF BufferType
<1>2. y \in CounterType /\ y.resources = r
  BY <1>1 DEF CounterType
<1>a. I = [b EXCEPT
             !.resfree = IF b.resfree = r THEN b.rec[r].next ELSE b.resfree,
             !.alloc = b.alloc \cup {r},
             !.table = [b.table EXCEPT ![s] = [resource |-> a, record |-> r]],
             !.rec = f, !.ctr = [b.ctr EXCEPT ![c] = y], !.used = b.used + 1]
  BY Zenon DEF Insert
<1>4. new \in RecordType
  BY <1>1 DEF CounterType, RecordType, Slots, BufferType
<1>5. \A q \in Record : b.rec[q] \in RecordType
  BY DEF BufferType
<1> HIDE DEF new
<1>6. f \in [Record -> RecordType]
  BY <1>4, <1>5 DEF RecordType
<1>7. f[r] = new
  OBVIOUS
<1>8. \A q \in Record \ {r} :
        /\ f[q].hashslot = b.rec[q].hashslot
        /\ f[q].counter = b.rec[q].counter
        /\ f[q].size = b.rec[q].size
        /\ f[q].next = b.rec[q].next
        /\ f[q].prev = IF q = head THEN r ELSE b.rec[q].prev
  BY <1>5 DEF RecordType
<1> HIDE DEF f, y, I
<1>b. b = Fields(b)
  BY DEF BufferType, Fields
<1>3. I = [table |-> [b.table EXCEPT ![s] = [resource |-> a, record |-> r]],
           size |-> b.size, used |-> b.used + 1, rec |-> f,
           resfree |-> IF b.resfree = r THEN b.rec[r].next ELSE b.resfree,
           alloc |-> b.alloc \cup {r}, ctr |-> [b.ctr EXCEPT ![c] = y]]
  BY <1>a, <1>b DEF Fields
<1>9. b.rec[r].next \in Record \cup {Null}
  BY <1>1 DEF RecordType
<1>10. [resource |-> a, record |-> r] \in SlotType
  BY DEF SlotType
<1>11. BufferType(I)
  BY <1>2, <1>3, <1>6, <1>9, <1>10 DEF BufferType
<1>12. \A d \in Counter : I.ctr[d].resources =
         IF d = c THEN r ELSE b.ctr[d].resources
  BY <1>2, <1>3 DEF BufferType
<1>13. /\ I.rec = f /\ I.size = b.size /\ I.alloc = b.alloc \cup {r}
       /\ I.table = [b.table EXCEPT ![s] = [resource |-> a, record |-> r]]
       /\ I.resfree = IF b.resfree = r THEN b.rec[r].next ELSE b.resfree
  BY <1>3
<1> QED
  BY <1>7, <1>8, <1>11, <1>12, <1>13, Zenon DEF I, new, InsertEffect
-----------------------------------------------------------------------------
(* Each operation preserves the structure of the buffer. *)

(* tick() writes counters only. *)
LEMMA TickOK ==
  ASSUME NEW b, BufferType(b), NEW c \in Counter, NEW sz \in Nat
  PROVE  LET t == Tick(b, c, sz) IN
         /\ SlotsOK(b) => SlotsOK(t)
         /\ WindowOK(b) => WindowOK(t)
         /\ BackOK(b) => BackOK(t)
         /\ CoveredOK(b) => CoveredOK(t)
         /\ ChainOK(b) => ChainOK(t)
         /\ FreeOK(b) => FreeOK(t)
<1> DEFINE t == Tick(b, c, sz)
<1>1. /\ t.table = b.table /\ t.size = b.size /\ t.rec = b.rec
      /\ t.resfree = b.resfree /\ t.alloc = b.alloc
      /\ \A d \in Counter : t.ctr[d].resources = b.ctr[d].resources
  BY TickFields, Zenon
<1> HIDE DEF t
<1>2. SlotsOK(b) => SlotsOK(t)
  BY <1>1 DEF SlotsOK, Busy, Occupied, Live
<1>3. WindowOK(b) => WindowOK(t)
  BY <1>1 DEF WindowOK, Busy, Occupied
<1>4. BackOK(b) => BackOK(t)
  BY <1>1 DEF BackOK, Live
<1>5. CoveredOK(b) => CoveredOK(t)
  BY <1>1 DEF CoveredOK, Live
<1>6. \A r \in Record : Live(b, r) => b.rec[r].counter \in Counter
  BY DEF Live, BufferType, RecordType
<1>7. ChainOK(b) => ChainOK(t)
  BY <1>1, <1>6 DEF ChainOK, Live
<1>8. FreeOK(b) => FreeOK(t)
  BY <1>1 DEF FreeOK, Free, Live
<1> QED
  BY <1>2, <1>3, <1>4, <1>5, <1>7, <1>8 DEF t

(* Releasing the resource of an occupied slot keeps the buffer in order: the
   slot is free, its record unlinked and on the free list. *)
LEMMA ReleaseOK ==
  ASSUME NEW b, BufferType(b), BufferOK(b), NEW s \in Busy(b)
  PROVE  LET R == ReleaseResource(b, s) IN
         /\ BufferType(R)
         /\ BufferOK(R)
         /\ R.size = b.size
         /\ R.table = [b.table EXCEPT ![s] = EmptySlot]
<1> DEFINE R == ReleaseResource(b, s)
           r == b.table[s].record
           x == b.rec[r]
<1>1. s \in Slots(b.size) /\ r # Null /\ Live(b, r)
  BY DEF Busy, Occupied, BufferOK, SlotsOK
<1>a. b.table[s].record # Null /\ Live(b, b.table[s].record)
  BY <1>1
<1>b. BufferType(R) /\ ReleaseEffect(b, s, R)
  BY <1>1, <1>a, ReleaseFields, Zenon
<1> HIDE DEF R
<1>c. r \in Record /\ x \in RecordType /\ x.counter \in Counter
  BY <1>b, Zenon DEF ReleaseEffect
<1>t. /\ R.table = [b.table EXCEPT ![s] = EmptySlot]
      /\ R.size = b.size /\ R.resfree = r /\ R.alloc = b.alloc
  BY <1>b, Zenon DEF ReleaseEffect
<1>q. /\ R.rec[r] = FreedRecord(b.resfree)
      /\ \A q \in Record \ {r} :
           /\ R.rec[q].hashslot = b.rec[q].hashslot
           /\ R.rec[q].counter = b.rec[q].counter
           /\ R.rec[q].next = IF q = x.prev THEN x.next ELSE b.rec[q].next
           /\ R.rec[q].prev = IF q = x.next THEN x.prev ELSE b.rec[q].prev
  BY <1>b, Zenon DEF ReleaseEffect
<1>2. \A d \in Counter : R.ctr[d].resources =
        IF d = x.counter /\ x.prev = Null THEN x.next ELSE b.ctr[d].resources
  BY <1>b, Zenon DEF ReleaseEffect
<1>d. r = b.table[s].record /\ x = b.rec[r]
  OBVIOUS
<1> HIDE DEF x, r
<1>3. \A t \in Slots(b.size) :
        R.table[t] = IF t = s THEN EmptySlot ELSE b.table[t]
  BY <1>t DEF BufferType
<1>4. R.rec[r].counter = Null /\ R.rec[r].next = b.resfree
  BY <1>q DEF FreedRecord
<1>e. \A q \in Record \ {r} : R.rec[q].counter = b.rec[q].counter
  BY <1>q
<1>5. \A q \in Record : Live(R, q) <=> Live(b, q) /\ q # r
  BY <1>4, <1>e DEF Live
<1>f. Slots(R.size) = Slots(b.size) /\ EmptySlot.record = Null
      /\ EmptySlot.resource = Zero
  BY <1>t DEF EmptySlot
<1>6. Busy(R) = Busy(b) \ {s}
  BY <1>3, <1>f DEF Busy, Occupied
<1>g. SlotsOK(b) /\ WindowOK(b) /\ BackOK(b) /\ ChainOK(b) /\ FreeOK(b)
  BY DEF BufferOK
<1>7. \A t \in Busy(b) : t # s => b.table[t].record # r
  BY <1>d, <1>g DEF SlotsOK
<1>8. \A t \in Busy(b) : b.table[t].record \in Record /\ t \in Slots(b.size)
  BY DEF Busy, Occupied, BufferType, SlotType
<1>9. SlotsOK(R)
  <2>1. \A t \in Slots(R.size) :
          (R.table[t].record = Null) <=> (R.table[t].resource = Zero)
    BY <1>3, <1>f, <1>g DEF SlotsOK
  <2>2. \A t \in Busy(R) : Live(R, R.table[t].record)
    BY <1>3, <1>5, <1>6, <1>7, <1>8, <1>g DEF SlotsOK
  <2>3. \A t, u \in Busy(R) :
          \/ R.table[t].resource = R.table[u].resource
          \/ R.table[t].record = R.table[u].record
          => t = u
    BY <1>3, <1>6, <1>8, <1>g DEF SlotsOK
  <2> QED
    BY <2>1, <2>2, <2>3 DEF SlotsOK
<1>10. WindowOK(R)
  BY <1>3, <1>6, <1>8, <1>g, <1>t DEF WindowOK
<1>11. BackOK(R)
  <2>1. \A q \in Record \ {r} : R.rec[q].hashslot = b.rec[q].hashslot
    BY <1>q
  <2>2. ASSUME NEW q \in Record, Live(R, q)
        PROVE  /\ R.rec[q].hashslot \in Slots(R.size)
               /\ R.table[R.rec[q].hashslot].record = q
    <3>1. /\ q # r /\ R.rec[q].hashslot = b.rec[q].hashslot
          /\ b.rec[q].hashslot \in Slots(b.size)
          /\ b.table[b.rec[q].hashslot].record = q
      BY <1>5, <1>g, <2>1, <2>2 DEF BackOK
    <3> QED
      BY <1>3, <1>d, <1>f, <3>1
  <2> QED
    BY <2>2 DEF BackOK
<1>12. ChainOK(R)
  <2>2. /\ x.prev \in Record \cup {Null} /\ x.next \in Record \cup {Null}
        /\ Null \notin Record
    BY <1>c, NullAssumption DEF RecordType
  <2>3. \A q \in Record : Live(b, q) => b.rec[q].counter \in Counter
    BY DEF Live, BufferType, RecordType
  <2>4. /\ (x.prev = Null) <=> (b.ctr[x.counter].resources = r)
        /\ x.prev # Null => /\ b.rec[x.prev].counter = x.counter
                            /\ b.rec[x.prev].next = r
        /\ x.next # Null => /\ b.rec[x.next].counter = x.counter
                            /\ b.rec[x.next].prev = r
    BY <1>1, <1>c, <1>d, <1>g DEF ChainOK
  <2>5. ASSUME NEW q \in Record, Live(R, q)
        PROVE  LET y == R.rec[q] IN
               /\ (y.prev = Null) <=> (R.ctr[y.counter].resources = q)
               /\ y.prev # Null => /\ R.rec[y.prev].counter = y.counter
                                   /\ R.rec[y.prev].next = q
               /\ y.next # Null => /\ R.rec[y.next].counter = y.counter
                                   /\ R.rec[y.next].prev = q
    <3> DEFINE y == b.rec[q]
               p == R.rec[q].prev
               n == R.rec[q].next
    <3>1. q # r /\ Live(b, q) /\ y.counter \in Counter
      BY <1>5, <2>3, <2>5
    <3>2. /\ (y.prev = Null) <=> (b.ctr[y.counter].resources = q)
          /\ y.prev # Null => /\ b.rec[y.prev].counter = y.counter
                              /\ b.rec[y.prev].next = q
          /\ y.next # Null => /\ b.rec[y.next].counter = y.counter
                              /\ b.rec[y.next].prev = q
      BY <1>g, <3>1 DEF ChainOK
    <3>3. y.prev \in Record \cup {Null} /\ y.next \in Record \cup {Null}
      BY DEF BufferType, RecordType
    <3>4. /\ R.rec[q].counter = y.counter
          /\ n = IF q = x.prev THEN x.next ELSE y.next
          /\ p = IF q = x.next THEN x.prev ELSE y.prev
      BY <1>q, <3>1
    <3>6. /\ y.next = r => x.prev = q
          /\ y.prev = r => x.next = q
      BY <1>c, <1>d, <2>2, <3>2
    <3>7. /\ q = x.prev => y.next = r /\ y.counter = x.counter
          /\ q = x.next => y.prev = r /\ y.counter = x.counter
      BY <2>2, <2>4
    <3> HIDE DEF y, p, n
    <3>8. (p = Null) <=> (R.ctr[y.counter].resources = q)
      <4>1. CASE q = x.next
        BY <1>2, <1>c, <2>2, <2>4, <3>1, <3>2, <3>4, <3>7, <4>1
      <4>2. CASE q # x.next
        BY <1>2, <1>c, <2>2, <2>4, <3>1, <3>2, <3>4, <3>6, <4>2
      <4> QED
        BY <4>1, <4>2
    <3>9. p # Null => R.rec[p].counter = y.counter /\ R.rec[p].next = q
      <4>1. CASE q = x.next
        <5>1. p = x.prev /\ y.counter = x.counter
          BY <3>4, <3>7, <4>1
        <5>2. ASSUME p # Null PROVE p \in Record \ {r}
          BY <1>c, <1>d, <2>2, <2>4, <3>1, <4>1, <5>1, <5>2
        <5> QED
          BY <1>q, <2>2, <2>4, <4>1, <5>1, <5>2
      <4>2. CASE q # x.next
        <5>1. p = y.prev /\ p # r
          BY <3>4, <3>6, <4>2
        <5>2. p # Null => p # x.prev
          BY <1>c, <2>2, <2>4, <3>1, <3>2, <5>1
        <5> QED
          BY <1>q, <3>2, <3>3, <5>1, <5>2
      <4> QED
        BY <4>1, <4>2
    <3>10. n # Null => R.rec[n].counter = y.counter /\ R.rec[n].prev = q
      <4>1. CASE q = x.prev
        <5>1. n = x.next /\ y.counter = x.counter
          BY <3>4, <3>7, <4>1
        <5>2. ASSUME n # Null PROVE n \in Record \ {r}
          BY <1>c, <1>d, <2>2, <2>4, <3>1, <4>1, <5>1, <5>2
        <5> QED
          BY <1>q, <2>2, <2>4, <4>1, <5>1, <5>2
      <4>2. CASE q # x.prev
        <5>1. n = y.next /\ n # r
          BY <3>4, <3>6, <4>2
        <5>2. n # Null => n # x.next
          BY <1>c, <2>2, <2>4, <3>1, <3>2, <5>1
        <5> QED
          BY <1>q, <3>2, <3>3, <5>1, <5>2
      <4> QED
        BY <4>1, <4>2
    <3> QED
      BY <3>4, <3>8, <3>9, <3>10 DEF p, n
  <2>6. ASSUME NEW d \in Counter, R.ctr[d].resources # Null
        PROVE  R.rec[R.ctr[d].resources].counter = d
    <3> DEFINE h == b.ctr[d].resources
    <3>1. h \in Record \cup {Null}
      BY DEF BufferType, CounterType
    <3>2. h # Null => b.rec[h].counter = d
      BY <1>g DEF ChainOK
    <3>3. h = r => d = x.counter /\ x.prev = Null
      BY <1>c, <1>d, <2>2, <2>4, <3>2
    <3>4. x.next = r => x.prev = r
      BY <1>c, <1>d, <2>2, <2>4
    <3> HIDE DEF h
    <3>5. CASE d = x.counter /\ x.prev = Null
      <4>1. R.ctr[d].resources = x.next /\ x.next \in Record \ {r}
        BY <1>2, <1>c, <2>2, <2>6, <3>4, <3>5
      <4> QED
        BY <1>e, <2>2, <2>4, <3>5, <4>1
    <3>6. CASE ~ (d = x.counter /\ x.prev = Null)
      <4>1. R.ctr[d].resources = h /\ h \in Record \ {r}
        BY <1>2, <2>6, <3>1, <3>3, <3>6 DEF h
      <4> QED
        BY <1>e, <2>2, <3>2, <4>1
    <3> QED
      BY <3>5, <3>6
  <2> QED
    BY <2>5, <2>6, Zenon DEF ChainOK
<1>13. FreeOK(R)
  <2>1. ~ Free(b, r) /\ Null \notin Record /\ r \in b.alloc /\ r # Null
    BY <1>1, <1>c, <1>d, <1>g, NullAssumption DEF Free, FreeOK
  <2>2. \A q \in Record : Free(R, q) <=> Free(b, q) \/ q = r
    BY <1>5, <1>t, <2>1 DEF Free
  <2>3. x.prev # Null => Live(b, x.prev)
    BY <1>1, <1>c, <1>d, <1>g, NullAssumption DEF ChainOK, Live
  <2>4. \A q \in Record : Free(b, q) => R.rec[q].next = b.rec[q].next
    <3>1. ASSUME NEW q \in Record, Free(b, q)
          PROVE  q # r /\ q # x.prev
      BY <2>1, <2>3, <3>1 DEF Free
    <3> QED
      BY <1>q, <3>1
  <2>5. \A q \in Record : Live(R, q) => q \in R.alloc
    BY <1>5, <1>g, <1>t DEF FreeOK
  <2>6. /\ b.resfree \in Record \cup {Null}
        /\ \A q \in Record : b.rec[q].next \in Record \cup {Null}
    BY DEF BufferType, RecordType
  <2>7. /\ b.resfree # Null => Free(b, b.resfree)
        /\ \A q \in Record : Free(b, q) /\ b.rec[q].next # Null =>
             /\ Free(b, b.rec[q].next)
             /\ b.rec[q].next # b.resfree
             /\ \A p \in Record :
                  Free(b, p) /\ b.rec[p].next = b.rec[q].next => p = q
    BY <1>g DEF FreeOK
  <2>8. ASSUME NEW q \in Record, Free(R, q), R.rec[q].next # Null
        PROVE  /\ Free(R, R.rec[q].next)
               /\ R.rec[q].next # R.resfree
               /\ \A p \in Record :
                    Free(R, p) /\ R.rec[p].next = R.rec[q].next => p = q
    <3>1. CASE q = r
      BY <1>4, <1>t, <2>1, <2>2, <2>4, <2>6, <2>7, <2>8, <3>1
    <3>2. CASE q # r
      <4>1. Free(b, q) /\ R.rec[q].next = b.rec[q].next
        BY <2>2, <2>4, <2>8, <3>2
      <4> QED
        BY <1>4, <1>t, <2>1, <2>2, <2>4, <2>6, <2>7, <2>8, <4>1
    <3> QED
      BY <3>1, <3>2
  <2>9. Free(R, R.resfree)
    BY <1>c, <1>t, <2>2
  <2> QED
    BY <2>5, <2>8, <2>9 DEF FreeOK
<1> QED
  BY <1>9, <1>10, <1>11, <1>12, <1>13, <1>b, <1>t DEF BufferOK, R

(* Entering an unknown resource in a free slot of its window keeps the buffer
   in order: the new record heads its counter's list. *)
LEMMA InsertOK ==
  ASSUME NEW b, BufferType(b), BufferOK(b), Zero \notin Address,
         NEW a \in Address, NEW s \in Slots(b.size), ~ Occupied(b, s),
         InWindow(a, s, b.size), \A t \in Busy(b) : b.table[t].resource # a,
         NEW r \in NewRecord(b), NEW c \in Counter, NEW sz \in Nat
  PROVE  LET I == Insert(b, s, r, c, a, sz) IN
         /\ BufferType(I)
         /\ BufferOK(I)
         /\ I.size = b.size
         /\ I.table = [b.table EXCEPT ![s] = [resource |-> a, record |-> r]]
<1> DEFINE I == Insert(b, s, r, c, a, sz)
           head == b.ctr[c].resources
<1>1. /\ r \in Record /\ ~ Live(b, r) /\ r # Null
      /\ b.resfree # Null => r = b.resfree
      /\ b.resfree = Null => r \notin b.alloc
  BY NullAssumption DEF NewRecord, BufferType, BufferOK, FreeOK, Free
<1>a. BufferType(I) /\ InsertEffect(b, s, r, c, a, sz, I)
  BY <1>1, InsertFields, Zenon
<1> HIDE DEF I
<1>2. /\ BufferType(I)
      /\ I.table = [b.table EXCEPT ![s] = [resource |-> a, record |-> r]]
      /\ I.size = b.size /\ I.alloc = b.alloc \cup {r}
      /\ I.resfree = IF b.resfree = r THEN b.rec[r].next ELSE b.resfree
      /\ I.rec[r] = [hashslot |-> s, prev |-> Null, next |-> head,
                     counter |-> c, size |-> sz]
      /\ \A q \in Record \ {r} :
           /\ I.rec[q].hashslot = b.rec[q].hashslot
           /\ I.rec[q].counter = b.rec[q].counter
           /\ I.rec[q].size = b.rec[q].size
           /\ I.rec[q].next = b.rec[q].next
           /\ I.rec[q].prev = IF q = head THEN r ELSE b.rec[q].prev
      /\ \A d \in Counter : I.ctr[d].resources =
           IF d = c THEN r ELSE b.ctr[d].resources
  BY <1>a, Zenon DEF InsertEffect
<1>3. head \in Record \cup {Null} /\ Null \notin Record /\ c # Null
  BY NullAssumption DEF BufferType, CounterType
<1> HIDE DEF head
<1>4. \A t \in Slots(b.size) : I.table[t] =
        IF t = s THEN [resource |-> a, record |-> r] ELSE b.table[t]
  BY <1>2 DEF BufferType
<1>5. /\ I.rec[r].hashslot = s /\ I.rec[r].prev = Null
      /\ I.rec[r].next = head /\ I.rec[r].counter = c
  BY <1>2
<1>6. \A q \in Record : Live(I, q) <=> Live(b, q) \/ q = r
  BY <1>2, <1>3, <1>5 DEF Live
<1>7. Busy(I) = Busy(b) \cup {s} /\ s \notin Busy(b)
  BY <1>1, <1>2, <1>4 DEF Busy, Occupied
<1>8. \A t \in Busy(b) : /\ b.table[t].record \in Record
                         /\ b.table[t].record # r
                         /\ Live(b, b.table[t].record)
  BY <1>1 DEF Busy, Occupied, BufferType, SlotType, BufferOK, SlotsOK
<1>9. SlotsOK(I)
  <2>1. \A t \in Slots(I.size) :
          (I.table[t].record = Null) <=> (I.table[t].resource = Zero)
    BY <1>1, <1>2, <1>4 DEF BufferOK, SlotsOK
  <2>2. \A t \in Busy(I) : Live(I, I.table[t].record)
    BY <1>1, <1>4, <1>6, <1>7, <1>8 DEF Busy
  <2>3. \A t, u \in Busy(I) :
          \/ I.table[t].resource = I.table[u].resource
          \/ I.table[t].record = I.table[u].record
          => t = u
    BY <1>2, <1>4, <1>7, <1>8 DEF BufferOK, SlotsOK, Busy
  <2> QED
    BY <2>1, <2>2, <2>3 DEF SlotsOK
<1>10. WindowOK(I)
  BY <1>2, <1>4, <1>7 DEF BufferOK, WindowOK, Busy
<1>11. BackOK(I)
  <2>1. \A q \in Record : Live(b, q) =>
          /\ b.rec[q].hashslot \in Slots(b.size)
          /\ b.table[b.rec[q].hashslot].record = q
          /\ b.rec[q].hashslot # s
    BY <1>3 DEF BufferOK, BackOK, Occupied
  <2> QED
    BY <1>1, <1>2, <1>4, <1>5, <1>6, <2>1 DEF BackOK
<1>12. ChainOK(I)
  <2>1. ChainOK(b)
    BY DEF BufferOK
  <2>2. head # Null => /\ b.rec[head].counter = c /\ Live(b, head)
                       /\ b.rec[head].prev = Null
                       /\ head # r
    BY <1>1, <1>3, <2>1 DEF ChainOK, Live, head
  <2>3. \A q \in Record : Live(b, q) => b.rec[q].counter \in Counter
    BY DEF Live, BufferType, RecordType
  <2>4. ASSUME NEW q \in Record, Live(I, q)
        PROVE  LET y == I.rec[q] IN
               /\ (y.prev = Null) <=> (I.ctr[y.counter].resources = q)
               /\ y.prev # Null => /\ I.rec[y.prev].counter = y.counter
                                   /\ I.rec[y.prev].next = q
               /\ y.next # Null => /\ I.rec[y.next].counter = y.counter
                                   /\ I.rec[y.next].prev = q
    <3>1. CASE q = r
      BY <1>2, <1>3, <1>5, <2>2, <3>1
    <3>2. CASE q # r
      <4> DEFINE y == b.rec[q]
      <4>1. Live(b, q) /\ y.counter \in Counter
        BY <1>6, <2>3, <2>4, <3>2
      <4>2. /\ (y.prev = Null) <=> (b.ctr[y.counter].resources = q)
            /\ y.prev # Null => /\ b.rec[y.prev].counter = y.counter
                                /\ b.rec[y.prev].next = q
            /\ y.next # Null => /\ b.rec[y.next].counter = y.counter
                                /\ b.rec[y.next].prev = q
        BY <2>1, <4>1 DEF ChainOK
      <4>3. y.prev \in Record \cup {Null} /\ y.next \in Record \cup {Null}
        BY DEF BufferType, RecordType
      <4>4. /\ I.rec[q].counter = y.counter /\ I.rec[q].next = y.next
            /\ I.rec[q].prev = IF q = head THEN r ELSE y.prev
        BY <1>2, <3>2
      <4>5. y.prev # r /\ y.next # r
        BY <1>1, <1>3, <4>1, <4>2 DEF Live
      <4>6. head = b.ctr[c].resources /\ y = b.rec[q]
        BY DEF head
      <4> HIDE DEF y
      <4>7. (I.rec[q].prev = Null) <=> (I.ctr[y.counter].resources = q)
        BY <1>1, <1>2, <1>3, <2>2, <3>2, <4>1, <4>2, <4>4, <4>6
      <4>8. I.rec[q].prev # Null => /\ I.rec[I.rec[q].prev].counter = y.counter
                                    /\ I.rec[I.rec[q].prev].next = q
        BY <1>2, <1>3, <1>5, <2>2, <4>2, <4>3, <4>4, <4>5, <4>6, SMTT(40)
      <4>9. I.rec[q].next # Null => /\ I.rec[I.rec[q].next].counter = y.counter
                                    /\ I.rec[I.rec[q].next].prev = q
        <5>1. y.next # Null => y.next # head
          BY <1>3, <2>2, <4>2
        <5> QED
          BY <1>2, <4>2, <4>3, <4>4, <4>5, <5>1
      <4> QED
        BY <4>4, <4>7, <4>8, <4>9
    <3> QED
      BY <3>1, <3>2
  <2>5. ASSUME NEW d \in Counter, I.ctr[d].resources # Null
        PROVE  I.rec[I.ctr[d].resources].counter = d
    <3>1. b.ctr[d].resources # Null => /\ b.rec[b.ctr[d].resources].counter = d
                                       /\ b.ctr[d].resources \in Record
      BY <2>1 DEF ChainOK, BufferType, CounterType
    <3>2. d # Null
      BY NullAssumption
    <3> QED
      BY <1>1, <1>2, <1>5, <2>5, <3>1, <3>2 DEF Live
  <2> QED
    BY <2>4, <2>5, Zenon DEF ChainOK
<1>13. FreeOK(I)
  <2>1. FreeOK(b)
    BY DEF BufferOK
  <2>2. \A q \in Record : Free(I, q) <=> Free(b, q) /\ q # r
    BY <1>2, <1>6 DEF Free
  <2>3. \A q \in Record : Free(b, q) /\ q # r => I.rec[q].next = b.rec[q].next
    BY <1>2
  <2>4. \A q \in Record : Live(I, q) => q \in I.alloc
    BY <1>2, <1>6, <2>1 DEF FreeOK
  <2>5. b.resfree \in Record \cup {Null}
    BY DEF BufferType
  <2>6. \A q \in Record : b.rec[q].next \in Record \cup {Null}
    BY DEF BufferType, RecordType
  <2>7. b.resfree # Null => Free(b, r)
    BY <1>1, <2>1 DEF FreeOK
  <2>8. I.resfree # Null => Free(I, I.resfree)
    BY <1>1, <1>2, <1>3, <2>1, <2>2, <2>5, <2>6, <2>7 DEF FreeOK
  <2>9. ASSUME NEW q \in Record, Free(I, q), I.rec[q].next # Null
        PROVE  /\ Free(I, I.rec[q].next)
               /\ I.rec[q].next # I.resfree
               /\ \A p \in Record :
                    Free(I, p) /\ I.rec[p].next = I.rec[q].next => p = q
    <3>1. Free(b, q) /\ q # r /\ I.rec[q].next = b.rec[q].next
      BY <2>2, <2>3, <2>9
    <3>2. /\ Free(b, b.rec[q].next) /\ b.rec[q].next # b.resfree
          /\ \A p \in Record :
               Free(b, p) /\ b.rec[p].next = b.rec[q].next => p = q
      BY <2>1, <2>9, <3>1 DEF FreeOK
    <3>3. b.rec[q].next # r
      BY <1>1, <3>2 DEF Free
    <3>4. I.rec[q].next # I.resfree
      BY <1>1, <1>2, <2>7, <2>9, <3>1, <3>2
    <3> QED
      BY <2>2, <2>3, <2>6, <2>9, <3>1, <3>2, <3>3, <3>4
  <2> QED
    BY <2>4, <2>8, <2>9 DEF FreeOK
<1> QED
  BY <1>2, <1>9, <1>10, <1>11, <1>12, <1>13 DEF BufferOK, I

(* A fresh or reset buffer is in order. *)
LEMMA EmptyBufferOK ==
  ASSUME NEW n \in Nat \ {0}
  PROVE  BufferType(EmptyBuffer(n)) /\ BufferOK(EmptyBuffer(n))
<1> DEFINE b == EmptyBuffer(n)
<1>1. /\ b.table = EmptyTable(n) /\ b.size = n /\ b.used = 0
      /\ b.resfree = Null /\ b.alloc = {}
      /\ b.rec = [r \in Record |-> FreedRecord(Null)]
      /\ b.ctr = [c \in Counter |->
                   [ticks |-> 0, value |-> 0, peak |-> 0, resources |-> Null]]
  BY DEF EmptyBuffer
<1>2. b = Fields(b)
  BY <1>1 DEF EmptyBuffer, Fields
<1> HIDE DEF b
<1>3. BufferType(b)
  <2>1. b.table \in [Slots(n) -> SlotType]
    BY <1>1 DEF EmptyTable, EmptySlot, SlotType
  <2>2. b.rec \in [Record -> RecordType]
    BY <1>1 DEF FreedRecord, RecordType
  <2>3. b.ctr \in [Counter -> CounterType]
    BY <1>1 DEF CounterType
  <2> QED
    BY <1>1, <1>2, <2>1, <2>2, <2>3 DEF BufferType, Fields
<1>4. Busy(b) = {} /\ \A r \in Record : ~ Live(b, r)
  BY <1>1 DEF Busy, Occupied, Live, EmptyTable, EmptySlot, FreedRecord
<1>5. SlotsOK(b)
  BY <1>1, <1>4 DEF SlotsOK, EmptyTable, EmptySlot
<1>6. WindowOK(b) /\ BackOK(b)
  BY <1>4 DEF WindowOK, BackOK
<1>7. ChainOK(b) /\ FreeOK(b)
  BY <1>1, <1>4 DEF ChainOK, FreeOK, Free
<1> QED
  BY <1>3, <1>5, <1>6, <1>7 DEF BufferOK, b

(* What findResource returns for a resource of a buffer in order: its slot, or
   a free slot of its window when it is unknown, or Null when it is unknown
   and the window is full. *)
LEMMA FindOK ==
  ASSUME NEW b, BufferType(b), SlotsOK(b), WindowOK(b),
         Zero \notin Address, NEW a \in Address
  PROVE  LET s == FindResource(b.table, b.size, a) IN
         /\ s # Null =>
              /\ s \in Slots(b.size) /\ InWindow(a, s, b.size)
              /\ Occupied(b, s) => s \in Busy(b) /\ b.table[s].resource = a
         /\ s = Null \/ ~ Occupied(b, s) =>
              \A t \in Busy(b) : b.table[t].resource # a
<1> DEFINE s == FindResource(b.table, b.size, a)
<1>1. /\ s # Null => /\ s \in Slots(b.size)
                     /\ InWindow(a, s, b.size)
                     /\ \/ b.table[s].resource = a
                        \/ /\ b.table[s].record = Null
                           /\ \A u \in Slots(b.size) :
                                InWindow(a, u, b.size) => b.table[u].resource # a
      /\ s = Null => \A u \in Slots(b.size) :
                       InWindow(a, u, b.size) => b.table[u].resource # a
  BY FindResourceType DEF BufferType
<1> HIDE DEF s
<1>2. s # Null /\ b.table[s].resource = a => Occupied(b, s)
  BY <1>1 DEF SlotsOK, Occupied
<1>3. ASSUME NEW t \in Busy(b), b.table[t].resource = a,
             s = Null \/ ~ Occupied(b, s)
      PROVE  FALSE
  <2>1. t \in Slots(b.size) /\ InWindow(a, t, b.size)
    BY <1>3 DEF WindowOK, Busy
  <2> QED
    BY <1>1, <1>2, <1>3, <2>1
<1> QED
  BY <1>1, <1>2, <1>3 DEF Busy, Occupied, s

-----------------------------------------------------------------------------
(* Each action preserves the inductive invariant. *)

IInv == TypeOK /\ TableInv

(* The invariant holds in a fresh process. *)
LEMMA InitOK == Init => IInv
<1> SUFFICES ASSUME Init PROVE IInv
  OBVIOUS
<1>1. BufferType(buf) /\ BufferOK(buf)
  BY EmptyBufferOK, SizeAssumption DEF Init
<1> QED
  BY <1>1 DEF Init, IInv, TypeOK, TableInv

(* acquire() of an unknown resource keeps the invariant. *)
LEMMA AcquireNewOK ==
  ASSUME IInv, Zero \notin Address, NEW c \in Counter, NEW a \in Address,
         NEW sz \in Sizes, AcquireNew(c, a, sz)
  PROVE  IInv'
<1> DEFINE b == Tick(buf, c, sz)
           s == FindResource(b.table, b.size, a)
<1>1. /\ pc = "idle" /\ s # Null /\ ~ Occupied(b, s) /\ UNCHANGED Growth
      /\ \E r \in NewRecord(b) : buf' = Insert(b, s, r, c, a, sz)
  BY DEF AcquireNew
<1>2. BufferType(buf) /\ BufferOK(buf) /\ sz \in Nat
  BY <1>1, SizeAssumption DEF IInv, TypeOK, TableInv
<1>3. BufferType(b) /\ BufferOK(b)
  <2>1. BufferType(b)
    BY <1>2, TickFields
  <2> QED
    BY <1>2, <2>1, TickOK DEF BufferOK
<1> HIDE DEF b
<1>4. /\ s \in Slots(b.size) /\ InWindow(a, s, b.size)
      /\ \A t \in Busy(b) : b.table[t].resource # a
  BY <1>1, <1>3, FindOK DEF BufferOK
<1> HIDE DEF s
<1>5. PICK r \in NewRecord(b) : buf' = Insert(b, s, r, c, a, sz)
  BY <1>1
<1>6. BufferType(buf') /\ BufferOK(buf')
  BY <1>1, <1>2, <1>3, <1>4, <1>5, InsertOK
<1> QED
  BY <1>1, <1>6 DEF IInv, TypeOK, TableInv, Growth

(* acquire() of a known resource, released first, keeps the invariant. *)
LEMMA AcquireKnownOK ==
  ASSUME IInv, Zero \notin Address, NEW c \in Counter, NEW a \in Address,
         NEW sz \in Sizes, AcquireKnown(c, a, sz)
  PROVE  IInv'
<1> DEFINE s == FindResource(buf.table, buf.size, a)
           t == Tick(buf, c, sz)
           b == ReleaseResource(t, s)
<1>1. /\ pc = "idle" /\ s # Null /\ Occupied(buf, s) /\ UNCHANGED Growth
      /\ \E r \in NewRecord(b) : buf' = Insert(b, s, r, c, a, sz)
  BY DEF AcquireKnown
<1>2. BufferType(buf) /\ BufferOK(buf) /\ sz \in Nat
  BY <1>1, SizeAssumption DEF IInv, TypeOK, TableInv
<1>3. /\ s \in Slots(buf.size) /\ InWindow(a, s, buf.size)
      /\ s \in Busy(buf) /\ buf.table[s].resource = a
  BY <1>1, <1>2, FindOK DEF BufferOK
<1>4. BufferType(t) /\ t.table = buf.table /\ t.size = buf.size
  BY <1>2, TickFields
<1>5. BufferOK(t)
  BY <1>2, TickOK DEF BufferOK
<1> HIDE DEF s, t
<1>6. s \in Busy(t)
  BY <1>3, <1>4 DEF Busy, Occupied
<1>7. /\ BufferType(b) /\ BufferOK(b) /\ b.size = t.size
      /\ b.table = [t.table EXCEPT ![s] = EmptySlot]
  BY <1>4, <1>5, <1>6, ReleaseOK
<1> HIDE DEF b
<1>8. ~ Occupied(b, s) /\ \A u \in Busy(b) : b.table[u].resource # a
  BY <1>2, <1>3, <1>4, <1>7 DEF Busy, Occupied, EmptySlot, BufferType, BufferOK, SlotsOK
<1>9. PICK r \in NewRecord(b) : buf' = Insert(b, s, r, c, a, sz)
  BY <1>1
<1>10. BufferType(buf') /\ BufferOK(buf')
  <2>1. s \in Slots(b.size) /\ InWindow(a, s, b.size) /\ sz \in Nat
    BY <1>2, <1>3, <1>4, <1>7
  <2> QED
    BY <1>7, <1>8, <1>9, <2>1, InsertOK
<1> QED
  BY <1>1, <1>10 DEF IInv, TypeOK, TableInv, Growth

(* A fresh, empty table is a correct start of a rehash. *)
LEMMA ExpandOK ==
  ASSUME BufferType(buf'), NEW n \in Nat \ {0}, Expand(n), req' \in RequestType,
         SlotsOK(buf'), WindowOK(buf'), CoveredOK(buf'), ChainOK(buf'),
         FreeOK(buf'), RequestOK'
  PROVE  IInv'
<1>0. PICK size \in Grown(n), mapped \in BOOLEAN :
        /\ size = 0 => ~ mapped
        /\ pc' = IF mapped THEN "rehash" ELSE "aborted"
        /\ newSize' = size
        /\ newTable' = IF mapped THEN EmptyTable(size) ELSE <<>>
        /\ cursor' = 0
  BY DEF Expand
<1>3. size \in Nat
  <2>1. (4 * n) \div Unsigned \in Nat \/ 4 * n < Unsigned
    <3>1. \A x \in Nat, y \in Nat \ {0} : x \div y \in Nat
      OBVIOUS
    <3>2. CASE Unsigned = 0
      BY <3>2, SizeAssumption
    <3>3. CASE Unsigned # 0
      BY <3>1, <3>3, SizeAssumption
    <3> QED BY <3>2, <3>3
  <2> QED BY <2>1 DEF Grown
<1>1. CASE ~ mapped
  <2>1. pc' = "aborted" /\ newSize' \in Nat /\ cursor' \in Nat
    BY <1>0, <1>1, <1>3
  <2> QED
    BY <2>1 DEF IInv, TypeOK, TableInv
<1>2. CASE mapped
  <2>1. /\ pc' = "rehash" /\ newSize' = size /\ newSize' \in Nat \ {0}
        /\ newTable' = EmptyTable(size) /\ cursor' = 0
    BY <1>0, <1>2, <1>3
  <2>2. newTable' \in [Slots(newSize') -> SlotType]
    BY <2>1 DEF EmptyTable, EmptySlot, SlotType
  <2>3. 0 \in 0 .. (buf').size
    BY DEF BufferType
  <2>4. TypeOK'
    BY <2>1, <2>2, <2>3 DEF TypeOK
  <2>5. \A s \in Slots(newSize') : newTable'[s] = EmptySlot
    BY <2>1 DEF EmptyTable
  <2>6. RehashOK'
    BY <2>1, <2>5 DEF RehashOK, EmptySlot, Slots
  <2> QED
    BY <2>1, <2>4, <2>6 DEF IInv, TableInv
<1> QED
  BY <1>1, <1>2

(* Occupied slots whose records point back are covered. *)
LEMMA Covered ==
  ASSUME NEW b, BackOK(b)
  PROVE  CoveredOK(b)
BY DEF BackOK, CoveredOK

(* acquire() that finds the window full starts a rehash in order. *)
LEMMA AcquireFullOK ==
  ASSUME IInv, Zero \notin Address, NEW c \in Counter, NEW a \in Address,
         NEW sz \in Sizes, AcquireFull(c, a, sz)
  PROVE  IInv'
<1>1. /\ pc = "idle" /\ FindResource(buf.table, buf.size, a) = Null
      /\ buf' = Tick(buf, c, sz) /\ Expand(buf.size)
      /\ req' = [counter |-> c, address |-> a, size |-> sz]
  BY DEF AcquireFull
<1>2. BufferType(buf) /\ BufferOK(buf) /\ sz \in Nat
  BY <1>1, SizeAssumption DEF IInv, TypeOK, TableInv
<1>3. \A t \in Busy(buf) : buf.table[t].resource # a
  BY <1>1, <1>2, FindOK DEF BufferOK
<1>4. BufferType(buf') /\ (buf').table = buf.table /\ (buf').size = buf.size
  BY <1>1, <1>2, TickFields
<1>5. /\ SlotsOK(buf') /\ WindowOK(buf') /\ CoveredOK(buf')
      /\ ChainOK(buf') /\ FreeOK(buf')
  BY <1>1, <1>2, Covered, TickOK DEF BufferOK
<1>6. req' \in RequestType
  BY <1>1 DEF RequestType
<1>7. RequestOK'
  BY <1>1, <1>3, <1>4 DEF RequestOK, Busy, Occupied
<1>8. buf.size \in Nat \ {0}
  BY <1>2 DEF BufferType
<1> QED
  BY <1>1, <1>4, <1>5, <1>6, <1>7, <1>8, ExpandOK
(* The facts every step of a rehash starts from. *)
LEMMA RehashFacts ==
  ASSUME IInv, pc = "rehash"
  PROVE  /\ BufferType(buf) /\ req \in RequestType
         /\ newSize \in Nat \ {0} /\ newTable \in [Slots(newSize) -> SlotType]
         /\ cursor \in 0 .. buf.size /\ buf.size \in Nat \ {0}
         /\ SlotsOK(buf) /\ WindowOK(buf) /\ CoveredOK(buf) /\ ChainOK(buf)
         /\ FreeOK(buf) /\ RehashOK /\ RequestOK
BY DEF IInv, TypeOK, TableInv, BufferType

(* Skipping a free slot of the old table keeps the invariant. *)
LEMMA RehashSkipOK ==
  ASSUME IInv, RehashSkip
  PROVE  IInv'
<1>1. /\ pc = "rehash" /\ cursor < buf.size /\ ~ Occupied(buf, cursor)
      /\ cursor' = cursor + 1 /\ UNCHANGED <<buf, pc, newTable, newSize, req>>
  BY DEF RehashSkip
<1>2. cursor \in 0 .. buf.size /\ buf.size \in Nat /\ RehashOK
  BY <1>1, RehashFacts
<1>3. \A t \in Slots(buf.size) :
        /\ t < cursor => t < cursor + 1
        /\ t < cursor + 1 /\ Occupied(buf, t) => t < cursor
  BY <1>1, <1>2 DEF Slots
<1>4. RehashOK'
  BY <1>1, <1>2, <1>3 DEF RehashOK, Occupied
<1>5. cursor' \in 0 .. buf.size /\ cursor' \in Nat
  BY <1>1, <1>2
<1> QED
  BY <1>1, <1>4, <1>5
  DEF IInv, TypeOK, TableInv, RequestOK, Occupied

(* Moving an occupied slot to the new table keeps the invariant. *)
LEMMA RehashPlaceOK ==
  ASSUME IInv, Zero \notin Address, RehashPlace
  PROVE  IInv'
<1> DEFINE e == buf.table[cursor]
           s == FindHole(newTable, newSize, e.resource)
           f == [buf.rec EXCEPT ![e.record].hashslot = s]
<1>1. /\ pc = "rehash" /\ cursor < buf.size /\ Occupied(buf, cursor)
      /\ s # Null /\ newTable' = [newTable EXCEPT ![s] = e]
      /\ buf' = [buf EXCEPT !.rec = f] /\ cursor' = cursor + 1
      /\ UNCHANGED <<pc, newSize, req>>
  BY DEF RehashPlace
<1>2. /\ BufferType(buf) /\ req \in RequestType
      /\ newSize \in Nat \ {0} /\ newTable \in [Slots(newSize) -> SlotType]
      /\ cursor \in 0 .. buf.size /\ buf.size \in Nat \ {0}
      /\ SlotsOK(buf) /\ WindowOK(buf) /\ CoveredOK(buf) /\ ChainOK(buf)
      /\ FreeOK(buf) /\ RehashOK /\ RequestOK
  BY <1>1, RehashFacts
<1>3. /\ cursor \in Slots(buf.size) /\ e \in SlotType /\ e.record \in Record
      /\ e.resource \in Address \cup {Zero} /\ e.record # Null
  BY <1>1, <1>2 DEF BufferType, SlotType, Slots, Occupied
<1>4. /\ s \in Slots(newSize) /\ newTable[s].record = Null
      /\ InWindow(e.resource, s, newSize)
  BY <1>1, <1>2, <1>3, FindHoleType
<1> HIDE DEF s
<1>5. buf = Fields(buf)
  BY <1>2 DEF BufferType, Fields
<1>6. /\ f \in [Record -> RecordType] /\ f[e.record].hashslot = s
      /\ \A q \in Record :
           /\ f[q].prev = buf.rec[q].prev /\ f[q].next = buf.rec[q].next
           /\ f[q].counter = buf.rec[q].counter
           /\ q # e.record => f[q].hashslot = buf.rec[q].hashslot
  <2>1. s \in Nat
    BY <1>2, <1>4 DEF Slots
  <2>2. \A q \in Record : buf.rec[q] \in RecordType
    BY <1>2 DEF BufferType
  <2>3. buf.rec \in [Record -> RecordType]
    BY <1>2 DEF BufferType
  <2> HIDE DEF e
  <2> QED
    BY <1>3, <2>1, <2>2, <2>3 DEF RecordType
<1> HIDE DEF f
<1>7. buf' = [table |-> buf.table, size |-> buf.size, used |-> buf.used,
              rec |-> f, resfree |-> buf.resfree, alloc |-> buf.alloc,
              ctr |-> buf.ctr]
  BY <1>1, <1>5 DEF Fields
<1>8. /\ (buf').table = buf.table /\ (buf').size = buf.size /\ (buf').rec = f
      /\ (buf').resfree = buf.resfree /\ (buf').alloc = buf.alloc
      /\ (buf').ctr = buf.ctr
  BY <1>7
<1>9. BufferType(buf')
  BY <1>2, <1>6, <1>7 DEF BufferType
<1>10. \A q \in Record : Live(buf', q) <=> Live(buf, q)
  BY <1>6, <1>8 DEF Live
<1>11. /\ SlotsOK(buf') /\ WindowOK(buf') /\ CoveredOK(buf') /\ FreeOK(buf')
  <2>1. \A t \in Busy(buf) : buf.table[t].record \in Record
    BY <1>2 DEF Busy, Occupied, BufferType, SlotType
  <2>2. Busy(buf') = Busy(buf)
    BY <1>8 DEF Busy, Occupied
  <2>3. SlotsOK(buf')
    BY <1>2, <1>8, <1>10, <2>1, <2>2 DEF SlotsOK
  <2>4. WindowOK(buf')
    BY <1>2, <1>8, <2>2 DEF WindowOK
  <2>5. CoveredOK(buf')
    BY <1>2, <1>8, <1>10 DEF CoveredOK
  <2>6. \A q \in Record : Free(buf', q) <=> Free(buf, q)
    BY <1>8, <1>10 DEF Free
  <2>7. buf.resfree \in Record \cup {Null} /\ Null \notin Record
        /\ \A q \in Record : buf.rec[q].next \in Record \cup {Null}
    BY <1>2, NullAssumption DEF BufferType, RecordType
  <2>8. FreeOK(buf')
    BY <1>2, <1>6, <1>8, <1>10, <2>6, <2>7 DEF FreeOK
  <2> QED
    BY <2>3, <2>4, <2>5, <2>8
<1>12. ChainOK(buf')
  <2>1. \A q \in Record : /\ buf.rec[q].next \in Record \cup {Null}
                          /\ buf.rec[q].prev \in Record \cup {Null}
    BY <1>2 DEF BufferType, RecordType
  <2>2. \A c \in Counter : buf.ctr[c].resources \in Record \cup {Null}
    BY <1>2 DEF BufferType, CounterType
  <2> QED
    BY <1>2, <1>6, <1>8, <1>10, <2>1, <2>2 DEF ChainOK
<1>13. \A u \in Slots(newSize) :
         newTable'[u] = IF u = s THEN e ELSE newTable[u]
  BY <1>1, <1>2
<1>14. RehashOK'
  <2>1. \A u \in Slots(newSize) :
          newTable'[u].record = Null => newTable'[u].resource = Zero
    BY <1>2, <1>3, <1>13 DEF RehashOK
  <2>2. ASSUME NEW u \in Slots(newSize), newTable'[u].record # Null
        PROVE  /\ InWindow(newTable'[u].resource, u, newSize)
               /\ f[newTable'[u].record].hashslot = u
               /\ \E t \in Slots(buf.size) :
                    t < cursor + 1 /\ buf.table[t] = newTable'[u]
    <3>1. CASE u = s
      BY <1>2, <1>3, <1>4, <1>6, <1>13, <3>1
    <3>2. CASE u # s
      <4>1. newTable'[u] = newTable[u] /\ newTable[u].record # Null
        BY <1>13, <2>2, <3>2
      <4>2. /\ InWindow(newTable[u].resource, u, newSize)
            /\ buf.rec[newTable[u].record].hashslot = u
        BY <1>2, <4>1 DEF RehashOK
      <4>3. PICK t \in Slots(buf.size) : t < cursor /\ buf.table[t] = newTable[u]
        BY <1>2, <4>1 DEF RehashOK
      <4>4. newTable[u].record # e.record
        BY <1>1, <1>2, <1>3, <4>1, <4>3 DEF SlotsOK, Busy, Occupied, Slots
      <4>5. newTable[u].record \in Record
        BY <1>2, <4>1 DEF SlotType
      <4>6. t < cursor + 1
        BY <1>2, <4>3 DEF Slots
      <4> QED
        BY <1>6, <4>1, <4>2, <4>3, <4>4, <4>5, <4>6
    <3> QED
      BY <3>1, <3>2
  <2>3. ASSUME NEW t \in Slots(buf.size), t < cursor + 1, Occupied(buf, t)
        PROVE  \E u \in Slots(newSize) :
                 newTable'[u].record # Null /\ newTable'[u] = buf.table[t]
    <3>1. CASE t = cursor
      BY <1>3, <1>4, <1>13, <3>1
    <3>2. CASE t # cursor
      <4>1. t < cursor
        BY <1>2, <2>3, <3>2 DEF Slots
      <4>2. PICK u \in Slots(newSize) : /\ newTable[u].record # Null
                                        /\ newTable[u] = buf.table[t]
        BY <1>2, <2>3, <4>1 DEF RehashOK
      <4> QED
        BY <1>4, <1>13, <4>2
    <3> QED
      BY <3>1, <3>2
  <2> QED
    BY <1>1, <1>8, <2>1, <2>2, <2>3 DEF RehashOK, Occupied
<1>15. newTable' \in [Slots(newSize) -> SlotType] /\ cursor' \in 0 .. buf.size
  <2> HIDE DEF e
  <2>1. newTable' \in [Slots(newSize) -> SlotType]
    BY <1>1, <1>2, <1>3
  <2>2. cursor' \in 0 .. buf.size
    BY <1>1, <1>2
  <2> QED
    BY <2>1, <2>2
<1>16. TypeOK'
  BY <1>1, <1>2, <1>8, <1>9, <1>15 DEF TypeOK
<1>17. RequestOK'
  BY <1>1, <1>2, <1>8 DEF RequestOK, Occupied
<1> QED
  BY <1>1, <1>11, <1>12, <1>14, <1>16, <1>17 DEF IInv, TableInv

(* Starting over with a larger table keeps the invariant, whatever back
   pointers the abandoned attempt has left. *)
LEMMA RehashRetryOK ==
  ASSUME IInv, RehashRetry
  PROVE  IInv'
<1>1. pc = "rehash" /\ Expand(newSize) /\ buf' = buf /\ req' = req
  BY DEF RehashRetry
<1>2. /\ BufferType(buf) /\ req \in RequestType /\ newSize \in Nat \ {0}
      /\ SlotsOK(buf) /\ WindowOK(buf) /\ CoveredOK(buf) /\ ChainOK(buf)
      /\ FreeOK(buf) /\ RequestOK
  BY <1>1, RehashFacts
<1>3. RequestOK'
  BY <1>1, <1>2 DEF RequestOK
<1> QED
  BY <1>1, <1>2, <1>3, ExpandOK

(* Installing the new table restores the order of an idle buffer. *)
LEMMA RehashDoneOK ==
  ASSUME IInv, Zero \notin Address, RehashDone
  PROVE  IInv'
<1>1. /\ pc = "rehash" /\ cursor = buf.size /\ pc' = "retry"
      /\ buf' = [buf EXCEPT !.table = newTable, !.size = newSize]
      /\ newTable' = <<>> /\ newSize' = 0 /\ cursor' = 0 /\ req' = req
  BY DEF RehashDone
<1>2. /\ BufferType(buf) /\ req \in RequestType
      /\ newSize \in Nat \ {0} /\ newTable \in [Slots(newSize) -> SlotType]
      /\ buf.size \in Nat \ {0}
      /\ SlotsOK(buf) /\ CoveredOK(buf) /\ ChainOK(buf)
      /\ FreeOK(buf) /\ RehashOK /\ RequestOK
  BY <1>1, RehashFacts
<1>3. buf' = [table |-> newTable, size |-> newSize, used |-> buf.used,
              rec |-> buf.rec, resfree |-> buf.resfree, alloc |-> buf.alloc,
              ctr |-> buf.ctr]
  BY <1>1, <1>2 DEF BufferType
<1>4. /\ (buf').table = newTable /\ (buf').size = newSize
      /\ (buf').rec = buf.rec /\ (buf').resfree = buf.resfree
      /\ (buf').alloc = buf.alloc /\ (buf').ctr = buf.ctr
  BY <1>3
<1>5. BufferType(buf')
  BY <1>2, <1>3 DEF BufferType
<1>6. \A u \in Slots(newSize) : newTable[u].record # Null =>
        /\ InWindow(newTable[u].resource, u, newSize)
        /\ buf.rec[newTable[u].record].hashslot = u
        /\ \E t \in Busy(buf) : buf.table[t] = newTable[u]
  BY <1>2 DEF RehashOK, Busy, Occupied
<1>7. \A t \in Busy(buf) : \E u \in Slots(newSize) :
        newTable[u].record # Null /\ newTable[u] = buf.table[t]
  BY <1>1, <1>2 DEF RehashOK, Busy, Slots
<1>8. \A u \in Slots(newSize) : u \in Busy(buf') <=> newTable[u].record # Null
  BY <1>4 DEF Busy, Occupied
<1>9. SlotsOK(buf')
  <2>1. \A u \in Slots(newSize) :
          (newTable[u].record = Null) <=> (newTable[u].resource = Zero)
    BY <1>2, <1>6 DEF RehashOK, SlotsOK, Busy, Occupied
  <2>2. \A u \in Busy(buf') : Live(buf', newTable[u].record)
    BY <1>2, <1>4, <1>6, <1>8 DEF SlotsOK, Live, Busy
  <2>3. \A u, v \in Busy(buf') :
          \/ newTable[u].resource = newTable[v].resource
          \/ newTable[u].record = newTable[v].record
          => u = v
    <3>1. \A u, v \in Slots(newSize) :
            newTable[u].record # Null /\ newTable[u].record = newTable[v].record
            => u = v
      BY <1>6
    <3>2. \A u, v \in Slots(newSize) :
            /\ newTable[u].record # Null /\ newTable[v].record # Null
            /\ newTable[u].resource = newTable[v].resource
            => newTable[u].record = newTable[v].record
      BY <1>2, <1>6 DEF SlotsOK
    <3> QED
      BY <1>4, <1>8, <3>1, <3>2 DEF Busy
  <2> QED
    BY <1>4, <2>1, <2>2, <2>3 DEF SlotsOK
<1>10. WindowOK(buf')
  BY <1>4, <1>6, <1>8 DEF WindowOK, Busy
<1>11. BackOK(buf')
  <2>1. ASSUME NEW r \in Record, Live(buf, r)
        PROVE  buf.rec[r].hashslot \in Slots(newSize)
               /\ newTable[buf.rec[r].hashslot].record = r
    <3>1. PICK t \in Slots(buf.size) : buf.table[t].record = r
      BY <1>2, <2>1 DEF CoveredOK
    <3>2. t \in Busy(buf)
      BY <3>1, NullAssumption DEF Busy, Occupied
    <3> QED
      BY <1>6, <1>7, <3>1, <3>2
  <2> QED
    BY <1>4, <2>1 DEF BackOK, Live
<1>12. ChainOK(buf')
  BY <1>2, <1>4 DEF ChainOK, Live
<1>13. FreeOK(buf')
  BY <1>2, <1>4 DEF FreeOK, Free, Live
<1>14. RequestOK'
  BY <1>1, <1>2, <1>4, <1>6 DEF RequestOK, Occupied, Busy
<1> QED
  BY <1>1, <1>2, <1>5, <1>9, <1>10, <1>11, <1>12, <1>13, <1>14
  DEF IInv, TypeOK, TableInv, BufferOK

(* acquire() that finds a slot in the new table keeps the invariant. *)
LEMMA RetryInsertOK ==
  ASSUME IInv, Zero \notin Address, RetryInsert
  PROVE  IInv'
<1> DEFINE s == FindResource(buf.table, buf.size, req.address)
<1>1. /\ pc = "retry" /\ s # Null /\ pc' = "idle" /\ req' = NoRequest
      /\ UNCHANGED <<newTable, newSize, cursor>>
      /\ \E r \in NewRecord(buf) :
           buf' = Insert(buf, s, r, req.counter, req.address, req.size)
  BY DEF RetryInsert
<1>2. /\ BufferType(buf) /\ BufferOK(buf) /\ RequestOK /\ req \in RequestType
      /\ newSize \in Nat /\ cursor \in Nat
  BY <1>1 DEF IInv, TypeOK, TableInv
<1>3. /\ req.counter \in Counter /\ req.address \in Address /\ req.size \in Nat
  BY <1>2, SizeAssumption DEF RequestType
<1>4. \A t \in Busy(buf) : buf.table[t].resource # req.address
  BY <1>2 DEF RequestOK, Busy
<1>5. /\ s \in Slots(buf.size) /\ InWindow(req.address, s, buf.size)
      /\ ~ Occupied(buf, s)
  BY <1>1, <1>2, <1>3, <1>4, FindOK DEF BufferOK
<1> HIDE DEF s
<1>6. PICK r \in NewRecord(buf) :
        buf' = Insert(buf, s, r, req.counter, req.address, req.size)
  BY <1>1
<1>7. BufferType(buf') /\ BufferOK(buf')
  BY <1>2, <1>3, <1>4, <1>5, <1>6, InsertOK
<1> QED
  BY <1>1, <1>2, <1>7 DEF IInv, TypeOK, TableInv

(* acquire() that finds the window full again keeps the invariant. *)
LEMMA RetryExpandOK ==
  ASSUME IInv, RetryExpand
  PROVE  IInv'
<1>1. pc = "retry" /\ Expand(buf.size) /\ buf' = buf /\ req' = req
  BY DEF RetryExpand
<1>2. BufferType(buf) /\ BufferOK(buf) /\ RequestOK /\ req \in RequestType
  BY <1>1 DEF IInv, TypeOK, TableInv
<1>3. CoveredOK(buf) /\ buf.size \in Nat \ {0}
  BY <1>2, Covered DEF BufferOK, BufferType
<1>4. RequestOK'
  BY <1>1, <1>2 DEF RequestOK
<1> QED
  BY <1>1, <1>2, <1>3, <1>4, ExpandOK DEF BufferOK

(* release() keeps the invariant. *)
LEMMA ReleaseStepOK ==
  ASSUME IInv, Zero \notin Address, NEW a \in Address, Release(a)
  PROVE  IInv'
<1> DEFINE s == FindResource(buf.table, buf.size, a)
<1>1. /\ pc = "idle" /\ s # Null /\ Occupied(buf, s) /\ UNCHANGED Growth
      /\ buf' = ReleaseResource(buf, s)
  BY DEF Release
<1>2. BufferType(buf) /\ BufferOK(buf)
  BY <1>1 DEF IInv, TypeOK, TableInv
<1>3. s \in Busy(buf)
  BY <1>1, <1>2, FindOK DEF BufferOK
<1> HIDE DEF s
<1>4. BufferType(buf') /\ BufferOK(buf')
  BY <1>1, <1>2, <1>3, ReleaseOK
<1> QED
  BY <1>1, <1>4 DEF IInv, TypeOK, TableInv, Growth

(* reset() keeps the invariant. *)
LEMMA ResetOK ==
  ASSUME IInv, Reset
  PROVE  IInv'
<1>1. pc = "idle" /\ buf' = EmptyBuffer(buf.size) /\ UNCHANGED Growth
  BY DEF Reset
<1>2. buf.size \in Nat \ {0}
  BY DEF IInv, TypeOK, BufferType
<1>3. BufferType(buf') /\ BufferOK(buf')
  BY <1>1, <1>2, EmptyBufferOK
<1> QED
  BY <1>1, <1>3 DEF IInv, TypeOK, TableInv, Growth

(* A step that changes nothing keeps the invariant. *)
LEMMA StutterOK ==
  ASSUME IInv, UNCHANGED vars
  PROVE  IInv'
BY DEF vars, IInv, TypeOK, TableInv, RequestOK, RehashOK, Occupied

(* Every step keeps the invariant. *)
LEMMA NextOK ==
  ASSUME Zero \notin Address
  PROVE  IInv /\ [Next]_vars => IInv'
<1> SUFFICES ASSUME IInv, [Next]_vars PROVE IInv'
  OBVIOUS
<1>1. ASSUME NEW c \in Counter, NEW a \in Address, NEW sz \in Sizes,
             \/ AcquireNew(c, a, sz)
             \/ AcquireKnown(c, a, sz)
             \/ AcquireFull(c, a, sz)
      PROVE  IInv'
  BY <1>1, AcquireNewOK, AcquireKnownOK, AcquireFullOK
<1>2. CASE Growing
  BY <1>2, RehashSkipOK, RehashPlaceOK, RehashRetryOK, RehashDoneOK,
     RetryInsertOK, RetryExpandOK DEF Growing
<1>3. ASSUME NEW a \in Address, Release(a) PROVE IInv'
  BY <1>3, ReleaseStepOK
<1>4. CASE Reset
  BY <1>4, ResetOK
<1>5. CASE UNCHANGED vars
  BY <1>5, StutterOK
<1> QED
  BY <1>1, <1>2, <1>3, <1>4, <1>5 DEF Next

(* As long as no profiler acquires the resource 0, the hash, the lists of the
   counters and the free list of a buffer agree with one another at every
   moment, also while the hash is grown: TableInv holds in every state. *)
THEOREM TableCorrect ==
  ASSUME Zero \notin Address
  PROVE  Spec => []TableInv
<1>1. IInv => TableInv
  BY DEF IInv
<1>2. IInv /\ [Next]_vars => IInv'
  BY NextOK
<1> QED
  BY <1>1, <1>2, InitOK, PTL DEF Spec

(* The types of the table, the records and the counters, and of a growth in
   progress, hold in every state. *)
THEOREM TypeCorrect ==
  ASSUME Zero \notin Address
  PROVE  Spec => []TypeOK
<1>1. IInv => TypeOK
  BY DEF IInv
<1>2. IInv /\ [Next]_vars => IInv'
  BY NextOK
<1> QED
  BY <1>1, <1>2, InitOK, PTL DEF Spec
-----------------------------------------------------------------------------
(* What the counters hold *)

SizeOf(b) == [r \in Record |-> b.rec[r].size]
Mine(b, c) == {r \in Record : b.rec[r].counter = c}

(* The counter c is v in value and n in ticks ahead of its live resources. *)
Ahead(b, c, v, n) ==
  /\ b.ctr[c].value = SumFunctionOnSet(SizeOf(b), Mine(b, c)) + v
  /\ b.ctr[c].ticks = Cardinality(Mine(b, c)) + n
  /\ b.ctr[c].peak >= b.ctr[c].value

(* All counters agree with their resources; all do once a resource of size sz
   is entered for c. *)
Even(b) == IsFiniteSet(b.alloc) /\ \A d \in Counter : Ahead(b, d, 0, 0)
Due(b, c, sz) == /\ IsFiniteSet(b.alloc) /\ Ahead(b, c, sz, 1)
                 /\ \A d \in Counter \ {c} : Ahead(b, d, 0, 0)

(* The resources of a counter are finitely many, with numbers as sizes. *)
LEMMA MineFinite ==
  ASSUME NEW b, BufferType(b), FreeOK(b), IsFiniteSet(b.alloc), NEW c \in Counter
  PROVE  /\ IsFiniteSet(Mine(b, c)) /\ Mine(b, c) \subseteq Record
         /\ \A r \in Record : SizeOf(b)[r] = b.rec[r].size /\ SizeOf(b)[r] \in Nat
         /\ SumFunctionOnSet(SizeOf(b), Mine(b, c)) \in Int
         /\ Cardinality(Mine(b, c)) \in Nat
<1>1. Mine(b, c) \subseteq b.alloc /\ Mine(b, c) \subseteq Record
  BY NullAssumption DEF Mine, FreeOK, Live
<1>2. IsFiniteSet(Mine(b, c))
  BY <1>1, FS_Subset
<1>3. \A r \in Record : SizeOf(b)[r] = b.rec[r].size /\ SizeOf(b)[r] \in Nat
  BY DEF SizeOf, BufferType, RecordType
<1>4. SumFunctionOnSet(SizeOf(b), Mine(b, c)) \in Int
  <2>1. \A r \in Mine(b, c) : SizeOf(b)[r] \in Int
    BY <1>1, <1>3
  <2> QED BY <1>2, <2>1, SumInt
<1> QED BY <1>1, <1>2, <1>3, <1>4, FS_CardinalityType

(* What tick() does to the counters *)
LEMMA TickCounters ==
  ASSUME NEW b, BufferType(b), NEW c \in Counter, NEW sz \in Nat
  PROVE  LET t == Tick(b, c, sz) IN
         /\ t.rec = b.rec /\ t.alloc = b.alloc /\ BufferType(t)
         /\ t.ctr[c].value = b.ctr[c].value + sz /\ t.ctr[c].ticks = b.ctr[c].ticks + 1
         /\ t.ctr[c].peak >= t.ctr[c].value
         /\ \A d \in Counter \ {c} : t.ctr[d] = b.ctr[d]
<1> DEFINE z == b.ctr[c]
           v == z.value + sz
           x == [ticks |-> z.ticks + 1, value |-> v,
                 peak |-> IF v > z.peak THEN v ELSE z.peak,
                 resources |-> z.resources]
           t == Tick(b, c, sz)
<1>1. b.ctr[c] \in CounterType
  BY DEF BufferType
<1>2. x.value = b.ctr[c].value + sz /\ x.ticks = b.ctr[c].ticks + 1 /\ x.peak >= x.value
  BY <1>1 DEF CounterType
<1>3. t = [b EXCEPT !.ctr = [b.ctr EXCEPT ![c] = x]]
  BY Zenon DEF Tick
<1> HIDE DEF x
<1>4. t.ctr = [b.ctr EXCEPT ![c] = x]
  BY <1>3 DEF BufferType
<1>5. t.rec = b.rec /\ t.alloc = b.alloc /\ BufferType(t)
  BY TickFields, Zenon
<1> HIDE DEF t
<1>6. t.ctr[c] = x /\ \A d \in Counter \ {c} : t.ctr[d] = b.ctr[d]
  BY <1>4 DEF BufferType
<1> QED BY <1>2, <1>5, <1>6 DEF t

(* tick() counts the resource before it is entered. *)
LEMMA TickDue ==
  ASSUME NEW b, BufferType(b), FreeOK(b), Even(b), NEW c \in Counter, NEW sz \in Nat
  PROVE  Due(Tick(b, c, sz), c, sz)
<1> DEFINE t == Tick(b, c, sz)
<1>1. /\ t.rec = b.rec /\ t.alloc = b.alloc
      /\ t.ctr[c].value = b.ctr[c].value + sz /\ t.ctr[c].ticks = b.ctr[c].ticks + 1
      /\ t.ctr[c].peak >= t.ctr[c].value
      /\ \A d \in Counter \ {c} : t.ctr[d] = b.ctr[d]
  BY TickCounters, Zenon
<1> HIDE DEF t
<1>2. SizeOf(t) = SizeOf(b) /\ \A d : Mine(t, d) = Mine(b, d)
  BY <1>1 DEF SizeOf, Mine
<1>3. /\ b.ctr[c].value = SumFunctionOnSet(SizeOf(b), Mine(b, c)) + 0
      /\ b.ctr[c].ticks = Cardinality(Mine(b, c)) + 0
      /\ SumFunctionOnSet(SizeOf(b), Mine(b, c)) \in Int /\ Cardinality(Mine(b, c)) \in Nat
  BY MineFinite DEF Even, Ahead
<1>4. Ahead(t, c, sz, 1)
  <2>1. t.ctr[c].value = SumFunctionOnSet(SizeOf(b), Mine(b, c)) + sz
    BY <1>1, <1>3
  <2>2. t.ctr[c].ticks = Cardinality(Mine(b, c)) + 1
    BY <1>1, <1>3
  <2> QED BY <1>1, <1>2, <2>1, <2>2 DEF Ahead
<1>5. \A d \in Counter \ {c} : Ahead(t, d, 0, 0)
  BY <1>1, <1>2 DEF Even, Ahead
<1> QED BY <1>1, <1>4, <1>5 DEF Due, Even, t

(* What releaseResource() does to the counters *)
LEMMA ReleaseCounters ==
  ASSUME NEW b, BufferType(b), NEW s \in Slots(b.size),
         b.table[s].record # Null, Live(b, b.table[s].record)
  PROVE  LET R == ReleaseResource(b, s)
             x == b.rec[b.table[s].record] IN
         /\ R.ctr[x.counter].value = b.ctr[x.counter].value - x.size
         /\ R.ctr[x.counter].ticks = b.ctr[x.counter].ticks - 1
         /\ R.ctr[x.counter].peak = b.ctr[x.counter].peak
         /\ \A d \in Counter \ {x.counter} : R.ctr[d] = b.ctr[d]
<1> DEFINE R == ReleaseResource(b, s)
           r == b.table[s].record
           x == b.rec[r]
           z == b.ctr[x.counter]
           y == [ticks |-> z.ticks - 1, value |-> z.value - x.size,
                 peak |-> z.peak,
                 resources |-> IF x.prev = Null THEN x.next ELSE z.resources]
           f == [q \in Record |->
                  IF q = r THEN FreedRecord(b.resfree)
                  ELSE [b.rec[q] EXCEPT
                         !.next = IF q = x.prev THEN x.next ELSE b.rec[q].next,
                         !.prev = IF q = x.next THEN x.prev ELSE b.rec[q].prev]]
<1>1. x.counter \in Counter
  BY ReleaseFields, Zenon DEF ReleaseEffect
<1>2. y.value = b.ctr[x.counter].value - x.size /\ y.ticks = b.ctr[x.counter].ticks - 1
      /\ y.peak = b.ctr[x.counter].peak
  OBVIOUS
<1>3. R = [b EXCEPT !.ctr = [b.ctr EXCEPT ![x.counter] = y],
                    !.table = [b.table EXCEPT ![s] = EmptySlot],
                    !.rec = f, !.resfree = r, !.used = b.used - 1]
  BY ZenonT(60) DEF ReleaseResource
<1> HIDE DEF f, y, R, r
<1>b. b = Fields(b)
  BY DEF BufferType, Fields
<1>4. R.ctr = [b.ctr EXCEPT ![x.counter] = y]
  BY <1>3, <1>b DEF Fields
<1> HIDE DEF x
<1>5. R.ctr[x.counter] = y /\ \A d \in Counter \ {x.counter} : R.ctr[d] = b.ctr[d]
  BY <1>1, <1>4 DEF BufferType
<1> QED BY <1>2, <1>5 DEF R, x, r

(* A resource takes from its counter what it has given. *)
LEMMA ReleaseAhead ==
  ASSUME NEW b, BufferType(b), BufferOK(b), IsFiniteSet(b.alloc), NEW s \in Busy(b),
         NEW c \in Counter, NEW v \in Nat, NEW n \in Nat, Ahead(b, c, v, n)
  PROVE  Ahead(ReleaseResource(b, s), c, v, n)
<1> DEFINE R == ReleaseResource(b, s)
           r == b.table[s].record
           x == b.rec[r]
<1>1. s \in Slots(b.size) /\ b.table[s].record # Null /\ Live(b, b.table[s].record)
  BY DEF Busy, Occupied, BufferOK, SlotsOK
<1>2. ReleaseEffect(b, s, R)
  BY <1>1, ReleaseFields, Zenon
<1>3. /\ R.ctr[x.counter].value = b.ctr[x.counter].value - x.size
      /\ R.ctr[x.counter].ticks = b.ctr[x.counter].ticks - 1
      /\ R.ctr[x.counter].peak = b.ctr[x.counter].peak
      /\ \A d \in Counter \ {x.counter} : R.ctr[d] = b.ctr[d]
  BY <1>1, ReleaseCounters, Zenon
<1> HIDE DEF R
<1>4. /\ r \in Record /\ x \in RecordType /\ x.counter \in Counter
      /\ R.rec[r] = FreedRecord(b.resfree)
      /\ \A q \in Record \ {r} : R.rec[q].counter = b.rec[q].counter
                                 /\ R.rec[q].size = b.rec[q].size
  BY <1>2, Zenon DEF ReleaseEffect
<1>5. R.rec[r].counter = Null
  BY <1>4 DEF FreedRecord
<1>6. FreeOK(b)
  BY DEF BufferOK
<1>7. /\ IsFiniteSet(Mine(b, c)) /\ Mine(b, c) \subseteq Record
      /\ \A q \in Record : SizeOf(b)[q] = b.rec[q].size /\ SizeOf(b)[q] \in Nat
      /\ SumFunctionOnSet(SizeOf(b), Mine(b, c)) \in Int
      /\ Cardinality(Mine(b, c)) \in Nat
  BY <1>6, MineFinite
<1> HIDE DEF x, r
<1>8. \A q \in Record \ {r} : SizeOf(R)[q] = SizeOf(b)[q]
  BY <1>4 DEF SizeOf
<1>9. CASE c = x.counter
  <2>1. r \in Mine(b, c) /\ Mine(R, c) = Mine(b, c) \ {r}
    BY <1>4, <1>5, <1>9, NullAssumption DEF Mine, x
  <2>2. Cardinality(Mine(b, c) \ {r}) = Cardinality(Mine(b, c)) - 1 /\ IsFiniteSet(Mine(b, c) \ {r})
    BY <1>7, <2>1, FS_RemoveElement
  <2>3. SumFunctionOnSet(SizeOf(b), Mine(b, c)) =
          SizeOf(b)[r] + SumFunctionOnSet(SizeOf(b), Mine(b, c) \ {r})
    <3>1. \A q \in Mine(b, c) : SizeOf(b)[q] \in Int
      BY <1>7
    <3> QED BY <1>7, <2>1, <3>1, SumRemove
  <2>4. SumFunctionOnSet(SizeOf(R), Mine(b, c) \ {r}) = SumFunctionOnSet(SizeOf(b), Mine(b, c) \ {r})
    <3>1. \A q \in Mine(b, c) \ {r} : SizeOf(R)[q] = SizeOf(b)[q]
      BY <1>7, <1>8
    <3> QED BY <2>2, <3>1, SumSame
  <2>5. SumFunctionOnSet(SizeOf(b), Mine(b, c) \ {r}) \in Int
    <3>1. \A q \in Mine(b, c) \ {r} : SizeOf(b)[q] \in Int
      BY <1>7
    <3> QED BY <2>2, <3>1, SumInt
  <2>6. x.size = SizeOf(b)[r] /\ x.size \in Nat
    BY <1>4, <1>7 DEF x
  <2>7. R.ctr[c].value = SumFunctionOnSet(SizeOf(R), Mine(R, c)) + v
    BY <1>3, <1>9, <2>1, <2>3, <2>4, <2>5, <2>6 DEF Ahead
  <2>8. R.ctr[c].ticks = Cardinality(Mine(R, c)) + n
    BY <1>3, <1>7, <1>9, <2>1, <2>2 DEF Ahead
  <2>9. R.ctr[c].peak >= R.ctr[c].value
    <3>1. b.ctr[c] \in CounterType
      BY DEF BufferType
    <3>2. b.ctr[c].value \in Int /\ b.ctr[c].peak \in Int
      BY <3>1 DEF CounterType
    <3>3. R.ctr[c].value = b.ctr[c].value - x.size /\ R.ctr[c].peak = b.ctr[c].peak
      BY <1>3, <1>9
    <3>4. b.ctr[c].peak >= b.ctr[c].value
      BY DEF Ahead
    <3> QED BY <2>6, <3>2, <3>3, <3>4
  <2> QED BY <2>7, <2>8, <2>9 DEF Ahead, R
<1>10. CASE c # x.counter
  <2>1. r \notin Mine(b, c) /\ Mine(R, c) = Mine(b, c)
    BY <1>4, <1>5, <1>10, NullAssumption DEF Mine, x
  <2>2. SumFunctionOnSet(SizeOf(R), Mine(b, c)) = SumFunctionOnSet(SizeOf(b), Mine(b, c))
    <3>1. \A q \in Mine(b, c) : SizeOf(R)[q] = SizeOf(b)[q]
      BY <1>7, <1>8, <2>1
    <3> QED BY <1>7, <3>1, SumSame
  <2>3. R.ctr[c] = b.ctr[c]
    BY <1>3, <1>10
  <2> QED BY <2>1, <2>2, <2>3 DEF Ahead, R
<1> QED BY <1>9, <1>10

(* releaseResource() keeps the counters in step, whether or not one is ahead. *)
LEMMA ReleaseDue ==
  ASSUME NEW b, BufferType(b), BufferOK(b), NEW s \in Busy(b)
  PROVE  /\ Even(b) => Even(ReleaseResource(b, s))
         /\ \A c \in Counter, sz \in Nat : Due(b, c, sz) => Due(ReleaseResource(b, s), c, sz)
<1>1. s \in Slots(b.size) /\ b.table[s].record # Null /\ Live(b, b.table[s].record)
  BY DEF Busy, Occupied, BufferOK, SlotsOK
<1>2. ReleaseEffect(b, s, ReleaseResource(b, s))
  BY <1>1, ReleaseFields, Zenon
<1>3. ReleaseResource(b, s).alloc = b.alloc
  BY <1>2, Zenon DEF ReleaseEffect
<1>4. ASSUME Even(b) PROVE Even(ReleaseResource(b, s))
  BY <1>3, <1>4, ReleaseAhead DEF Even
<1>5. ASSUME NEW c \in Counter, NEW sz \in Nat, Due(b, c, sz)
      PROVE  Due(ReleaseResource(b, s), c, sz)
  <2>1. Ahead(ReleaseResource(b, s), c, sz, 1)
    BY <1>5, ReleaseAhead DEF Due
  <2>2. \A d \in Counter \ {c} : Ahead(ReleaseResource(b, s), d, 0, 0)
    BY <1>5, ReleaseAhead DEF Due
  <2> QED BY <1>3, <1>5, <2>1, <2>2 DEF Due
<1> QED BY <1>4, <1>5

(* What the end of acquire() does to the counters *)
LEMMA InsertCounters ==
  ASSUME NEW b, BufferType(b), NEW s \in Slots(b.size), NEW r \in Record,
         NEW c \in Counter, NEW a \in Address, NEW sz \in Nat
  PROVE  \A d \in Counter :
           /\ Insert(b, s, r, c, a, sz).ctr[d].value = b.ctr[d].value
           /\ Insert(b, s, r, c, a, sz).ctr[d].ticks = b.ctr[d].ticks
           /\ Insert(b, s, r, c, a, sz).ctr[d].peak = b.ctr[d].peak
<1> DEFINE I == Insert(b, s, r, c, a, sz)
           head == b.ctr[c].resources
           new == [hashslot |-> s, prev |-> Null, next |-> head,
                   counter |-> c, size |-> sz]
           f == [q \in Record |->
                  IF q = r THEN new
                  ELSE [b.rec[q] EXCEPT
                         !.prev = IF q = head THEN r ELSE b.rec[q].prev]]
           y == [b.ctr[c] EXCEPT !.resources = r]
<1>1. b.ctr[c] \in CounterType
  BY DEF BufferType
<1>2. y.value = b.ctr[c].value /\ y.ticks = b.ctr[c].ticks /\ y.peak = b.ctr[c].peak
  BY <1>1 DEF CounterType
<1>3. I = [b EXCEPT
             !.resfree = IF b.resfree = r THEN b.rec[r].next ELSE b.resfree,
             !.alloc = b.alloc \cup {r},
             !.table = [b.table EXCEPT ![s] = [resource |-> a, record |-> r]],
             !.rec = f, !.ctr = [b.ctr EXCEPT ![c] = y], !.used = b.used + 1]
  BY Zenon DEF Insert
<1> HIDE DEF f, y, I
<1>b. b = Fields(b)
  BY DEF BufferType, Fields
<1>4. I.ctr = [b.ctr EXCEPT ![c] = y]
  BY <1>3, <1>b DEF Fields
<1>5. I.ctr[c] = y /\ \A d \in Counter \ {c} : I.ctr[d] = b.ctr[d]
  BY <1>4 DEF BufferType
<1> QED BY <1>2, <1>5 DEF I

(* The resource that was counted is entered. *)
LEMMA InsertEven ==
  ASSUME NEW b, BufferType(b), FreeOK(b), NEW a \in Address, NEW s \in Slots(b.size),
         NEW r \in NewRecord(b), NEW c \in Counter, NEW sz \in Nat, Due(b, c, sz)
  PROVE  Even(Insert(b, s, r, c, a, sz))
<1>1. r \in Record /\ ~ Live(b, r)
  BY NullAssumption DEF NewRecord, BufferType, FreeOK, Free
<1>c. \A d \in Counter :
        /\ Insert(b, s, r, c, a, sz).ctr[d].value = b.ctr[d].value
        /\ Insert(b, s, r, c, a, sz).ctr[d].ticks = b.ctr[d].ticks
        /\ Insert(b, s, r, c, a, sz).ctr[d].peak = b.ctr[d].peak
  <2> HIDE DEF Insert
  <2> QED BY <1>1, InsertCounters
<1> DEFINE I == Insert(b, s, r, c, a, sz)
<1>2. InsertEffect(b, s, r, c, a, sz, I)
  BY <1>1, InsertFields, Zenon
<1>3. \A d \in Counter : /\ I.ctr[d].value = b.ctr[d].value
                         /\ I.ctr[d].ticks = b.ctr[d].ticks
                         /\ I.ctr[d].peak = b.ctr[d].peak
  BY <1>c
<1> HIDE DEF I
<1>4. /\ I.alloc = b.alloc \cup {r} /\ I.rec[r].counter = c /\ I.rec[r].size = sz
      /\ \A q \in Record \ {r} : I.rec[q].counter = b.rec[q].counter
                                 /\ I.rec[q].size = b.rec[q].size
  BY <1>2 DEF InsertEffect
<1>5. IsFiniteSet(b.alloc) /\ IsFiniteSet(I.alloc)
  BY <1>4, FS_AddElement DEF Due
<1>6. \A q \in Record \ {r} : SizeOf(I)[q] = SizeOf(b)[q]
  BY <1>4 DEF SizeOf
<1>7. SizeOf(I)[r] = sz
  BY <1>1, <1>4 DEF SizeOf
<1>8. ASSUME NEW d \in Counter PROVE Ahead(I, d, 0, 0)
  <2>1. /\ IsFiniteSet(Mine(b, d)) /\ Mine(b, d) \subseteq Record
        /\ \A q \in Record : SizeOf(b)[q] = b.rec[q].size /\ SizeOf(b)[q] \in Nat
        /\ SumFunctionOnSet(SizeOf(b), Mine(b, d)) \in Int
        /\ Cardinality(Mine(b, d)) \in Nat
    BY <1>5, MineFinite
  <2>2. r \notin Mine(b, d)
    BY <1>1, NullAssumption DEF Live, Mine
  <2>3. SumFunctionOnSet(SizeOf(I), Mine(b, d)) = SumFunctionOnSet(SizeOf(b), Mine(b, d))
    <3>1. \A q \in Mine(b, d) : SizeOf(I)[q] = SizeOf(b)[q]
      BY <1>6, <2>1, <2>2
    <3> QED BY <2>1, <3>1, SumSame
  <2>4. CASE d = c
    <3>1. Mine(I, d) = Mine(b, d) \cup {r}
      BY <1>1, <1>4, <2>4 DEF Mine
    <3>2. Cardinality(Mine(b, d) \cup {r}) = Cardinality(Mine(b, d)) + 1
      BY <2>1, <2>2, FS_AddElement
    <3>3. SumFunctionOnSet(SizeOf(I), Mine(b, d) \cup {r}) = sz + SumFunctionOnSet(SizeOf(I), Mine(b, d))
      <4>1. \A q \in Mine(b, d) \cup {r} : SizeOf(I)[q] \in Int
        BY <1>6, <1>7, <2>1
      <4> QED BY <1>7, <2>1, <2>2, <4>1, SumAdd
    <3>4. Ahead(b, d, sz, 1)
      BY <2>4 DEF Due
    <3>5. I.ctr[d].value = SumFunctionOnSet(SizeOf(I), Mine(I, d)) + 0
      BY <1>3, <2>1, <2>3, <3>1, <3>3, <3>4 DEF Ahead
    <3>6. I.ctr[d].ticks = Cardinality(Mine(I, d)) + 0
      BY <1>3, <2>1, <3>1, <3>2, <3>4 DEF Ahead
    <3> QED BY <1>3, <3>4, <3>5, <3>6 DEF Ahead
  <2>5. CASE d # c
    <3>1. Mine(I, d) = Mine(b, d)
      BY <1>1, <1>4, <2>2, <2>5 DEF Mine
    <3>2. Ahead(b, d, 0, 0)
      BY <2>5 DEF Due
    <3> QED BY <1>3, <2>3, <3>1, <3>2 DEF Ahead
  <2> QED BY <2>4, <2>5
<1> QED BY <1>5, <1>8 DEF Even, I

-----------------------------------------------------------------------------
(* The lists.  A rank that rises along next excludes cycles, and every free
   record but the head of the free list follows another one. *)
Sorted(b) ==
  \E rank \in [Record -> Nat] :
    \A r \in b.alloc : b.rec[r].next # Null => rank[r] < rank[b.rec[r].next]
Followed(b) ==
  \A r \in Record : Free(b, r) /\ r # b.resfree =>
    \E q \in Record : Free(b, q) /\ b.rec[q].next = r
ListsOK(b) == Sorted(b) /\ Followed(b)

(* The lists depend on what points where only, the counters on who owns what. *)
LEMMA SameLists ==
  ASSUME NEW b, NEW B, BufferType(b), FreeOK(b),
         B.alloc = b.alloc, B.resfree = b.resfree, B.ctr = b.ctr,
         \A r \in Record : /\ B.rec[r].next = b.rec[r].next
                           /\ B.rec[r].counter = b.rec[r].counter
                           /\ B.rec[r].size = b.rec[r].size
  PROVE  /\ ListsOK(b) => ListsOK(B)
         /\ \A c \in Counter, v \in Nat : Due(b, c, v) => Due(B, c, v)
<1>1. b.alloc \subseteq Record
  BY DEF BufferType
<1>2. Sorted(b) => Sorted(B)
  BY <1>1 DEF Sorted
<1>3. \A r \in Record : Free(B, r) <=> Free(b, r)
  BY DEF Free, Live
<1>4. Followed(b) => Followed(B)
  BY <1>3 DEF Followed
<1>5. SizeOf(B) = SizeOf(b) /\ \A c \in Counter : Mine(B, c) = Mine(b, c)
  BY DEF SizeOf, Mine
<1>6. \A c \in Counter, v \in Nat : Due(b, c, v) => Due(B, c, v)
  BY <1>5 DEF Due, Ahead
<1> QED BY <1>2, <1>4, <1>6 DEF ListsOK

(* tick() leaves the lists alone. *)
LEMMA TickLists ==
  ASSUME NEW b, BufferType(b), NEW c \in Counter, NEW sz \in Nat, ListsOK(b)
  PROVE  ListsOK(Tick(b, c, sz))
<1> DEFINE t == Tick(b, c, sz)
<1>1. t.rec = b.rec /\ t.alloc = b.alloc /\ t.resfree = b.resfree
  BY TickFields, Zenon
<1> HIDE DEF t
<1> QED BY <1>1 DEF ListsOK, Sorted, Followed, Free, Live, t

(* A released record leaves its counter's list and heads the free list. *)
LEMMA ReleaseLists ==
  ASSUME NEW b, BufferType(b), BufferOK(b), NEW s \in Busy(b), ListsOK(b)
  PROVE  ListsOK(ReleaseResource(b, s))
<1> DEFINE R == ReleaseResource(b, s)
           r == b.table[s].record
           x == b.rec[r]
<1>1. s \in Slots(b.size) /\ b.table[s].record # Null /\ Live(b, b.table[s].record)
  BY DEF Busy, Occupied, BufferOK, SlotsOK
<1>2. ReleaseEffect(b, s, R)
  BY <1>1, ReleaseFields, Zenon
<1> HIDE DEF R
<1>3. /\ r \in Record /\ x \in RecordType /\ x.counter \in Counter
      /\ R.resfree = r /\ R.alloc = b.alloc
      /\ R.rec[r] = FreedRecord(b.resfree)
      /\ \A q \in Record \ {r} :
           /\ R.rec[q].counter = b.rec[q].counter
           /\ R.rec[q].next = IF q = x.prev THEN x.next ELSE b.rec[q].next
  BY <1>2, Zenon DEF ReleaseEffect
<1>4. R.rec[r].counter = Null /\ R.rec[r].next = b.resfree
  BY <1>3 DEF FreedRecord
<1>5. /\ ChainOK(b) /\ FreeOK(b) /\ b.alloc \subseteq Record /\ Null \notin Record
      /\ b.resfree \in Record \cup {Null}
      /\ \A q \in Record : b.rec[q].next \in Record \cup {Null}
  BY NullAssumption DEF BufferOK, BufferType, RecordType
<1>6. x.prev \in Record \cup {Null} /\ x.next \in Record \cup {Null} /\ Live(b, r)
  BY <1>1, <1>3 DEF RecordType
<1>7. r \in b.alloc /\ ~ Free(b, r)
  BY <1>3, <1>5, <1>6 DEF FreeOK, Free
<1>x. x = b.rec[r]
  OBVIOUS
<1> HIDE DEF x, r
<1>8. /\ x.prev # Null => b.rec[x.prev].next = r /\ Live(b, x.prev)
      /\ \A q \in Record : Live(b, q) /\ b.rec[q].next = r => x.prev = q
  <2>1. \A q \in Record : Live(b, q) =>
          /\ b.rec[q].prev # Null => /\ b.rec[b.rec[q].prev].counter = b.rec[q].counter
                                     /\ b.rec[b.rec[q].prev].next = q
          /\ b.rec[q].next # Null => b.rec[b.rec[q].next].prev = q
    BY <1>5 DEF ChainOK
  <2>2. x.prev # Null => b.rec[x.prev].next = r /\ Live(b, x.prev)
    BY <1>3, <1>6, <1>x, <2>1 DEF Live
  <2>3. \A q \in Record : Live(b, q) /\ b.rec[q].next = r => x.prev = q
    BY <1>3, <1>5, <1>x, <2>1
  <2> QED BY <2>2, <2>3
<1>9. Sorted(R)
  <2>1. PICK rank \in [Record -> Nat] :
          \A q \in b.alloc : b.rec[q].next # Null => rank[q] < rank[b.rec[q].next]
    BY DEF ListsOK, Sorted
  <2> DEFINE new == [q \in Record |-> IF q = r THEN 0 ELSE rank[q] + 1]
  <2>2. new \in [Record -> Nat] /\ new[r] = 0 /\ \A q \in Record \ {r} : new[q] = rank[q] + 1
    BY <1>3
  <2>3. \A q \in Record : rank[q] \in Nat
    OBVIOUS
  <2> HIDE DEF new
  <2>4. ASSUME NEW q \in R.alloc, R.rec[q].next # Null
        PROVE  new[q] < new[R.rec[q].next]
    <3>1. CASE q = r
      <4>1. b.resfree # Null /\ b.resfree \in Record /\ b.resfree # r
        BY <1>4, <1>5, <1>7, <2>4, <3>1 DEF FreeOK
      <4> QED BY <1>4, <2>2, <2>3, <3>1, <4>1
    <3>2. CASE q # r /\ q = x.prev
      <4>1. b.rec[q].next = r /\ q \in Record /\ R.rec[q].next = x.next /\ x.next \in Record
        BY <1>3, <1>5, <1>6, <1>8, <2>4, <3>2
      <4>2. rank[q] < rank[r] /\ rank[r] < rank[x.next]
        BY <1>3, <1>5, <1>7, <1>x, <2>1, <2>4, <3>2, <4>1
      <4>3. x.next # r
        BY <2>3, <4>1, <4>2
      <4>4. new[q] = rank[q] + 1 /\ new[x.next] = rank[x.next] + 1
        BY <2>2, <3>2, <4>1, <4>3
      <4> QED BY <1>3, <2>3, <4>1, <4>2, <4>4
    <3>3. CASE q # r /\ q # x.prev
      <4>1. q \in b.alloc /\ q \in Record /\ R.rec[q].next = b.rec[q].next
        BY <1>3, <1>5, <2>4, <3>3
      <4>2. b.rec[q].next \in Record /\ b.rec[q].next # r
        <5>1. CASE Live(b, q)
          BY <1>5, <1>8, <2>4, <3>3, <4>1, <5>1
        <5>2. CASE ~ Live(b, q)
          BY <1>5, <1>7, <2>4, <4>1, <5>2 DEF FreeOK, Free
        <5> QED BY <5>1, <5>2
      <4>3. rank[q] < rank[b.rec[q].next]
        BY <2>1, <2>4, <4>1
      <4> QED BY <2>2, <2>3, <3>3, <4>1, <4>2, <4>3
    <3> QED BY <3>1, <3>2, <3>3
  <2> QED BY <2>2, <2>4 DEF Sorted
<1>10. Followed(R)
  <2> SUFFICES ASSUME NEW p \in Record, Free(R, p), p # r
               PROVE  \E q \in Record : Free(R, q) /\ R.rec[q].next = p
    BY <1>3 DEF Followed
  <2>1. Free(b, p)
    BY <1>3 DEF Free, Live
  <2>2. Free(R, r)
    BY <1>3, <1>4, <1>7 DEF Free, Live
  <2>3. CASE p = b.resfree
    BY <1>3, <1>4, <2>2, <2>3
  <2>4. CASE p # b.resfree
    <3>1. PICK q \in Record : Free(b, q) /\ b.rec[q].next = p
      BY <2>1, <2>4 DEF ListsOK, Followed
    <3>2. q # r /\ q # x.prev
      BY <1>5, <1>6, <1>7, <1>8, <3>1 DEF Free
    <3>3. Free(R, q) /\ R.rec[q].next = p
      BY <1>3, <3>1, <3>2 DEF Free, Live
    <3> QED BY <3>3
  <2> QED BY <2>3, <2>4
<1> QED BY <1>9, <1>10 DEF ListsOK, R

(* An acquired record leaves the free list, and heads its counter's. *)
LEMMA InsertLists ==
  ASSUME NEW b, BufferType(b), BufferOK(b), NEW a \in Address, NEW s \in Slots(b.size),
         NEW r \in NewRecord(b), NEW c \in Counter, NEW sz \in Nat, ListsOK(b)
  PROVE  ListsOK(Insert(b, s, r, c, a, sz))
<1> DEFINE I == Insert(b, s, r, c, a, sz)
           head == b.ctr[c].resources
<1>1. /\ r \in Record /\ ~ Live(b, r) /\ r # Null
      /\ b.resfree # Null => r = b.resfree
      /\ b.resfree = Null => r \notin b.alloc
  BY NullAssumption DEF NewRecord, BufferType, BufferOK, FreeOK, Free
<1>2. InsertEffect(b, s, r, c, a, sz, I)
  BY <1>1, InsertFields, Zenon
<1> HIDE DEF I
<1>3. /\ I.alloc = b.alloc \cup {r}
      /\ I.resfree = IF b.resfree = r THEN b.rec[r].next ELSE b.resfree
      /\ I.rec[r].counter = c /\ I.rec[r].next = head
      /\ \A q \in Record \ {r} : /\ I.rec[q].counter = b.rec[q].counter
                                 /\ I.rec[q].next = b.rec[q].next
  BY <1>2 DEF InsertEffect
<1>4. /\ ChainOK(b) /\ FreeOK(b) /\ b.alloc \subseteq Record /\ Null \notin Record
      /\ \A q \in Record : b.rec[q].next \in Record \cup {Null}
      /\ head \in Record \cup {Null} /\ c # Null
  BY NullAssumption DEF BufferOK, BufferType, RecordType, CounterType
<1>5. head # Null => head # r
  BY <1>1, <1>4 DEF ChainOK, Live
<1> HIDE DEF head
<1>6. Sorted(I)
  <2>1. PICK rank \in [Record -> Nat] :
          \A q \in b.alloc : b.rec[q].next # Null => rank[q] < rank[b.rec[q].next]
    BY DEF ListsOK, Sorted
  <2> DEFINE new == [q \in Record |-> IF q = r THEN 0 ELSE rank[q] + 1]
  <2>2. new \in [Record -> Nat] /\ new[r] = 0 /\ \A q \in Record \ {r} : new[q] = rank[q] + 1
    BY <1>1
  <2>3. \A q \in Record : rank[q] \in Nat
    OBVIOUS
  <2> HIDE DEF new
  <2>4. ASSUME NEW q \in I.alloc, I.rec[q].next # Null
        PROVE  new[q] < new[I.rec[q].next]
    <3>1. CASE q = r
      BY <1>3, <1>4, <1>5, <2>2, <2>3, <2>4, <3>1
    <3>2. CASE q # r
      <4>1. q \in b.alloc /\ q \in Record /\ I.rec[q].next = b.rec[q].next
        BY <1>3, <1>4, <2>4, <3>2
      <4>2. b.rec[q].next \in Record /\ b.rec[q].next # r
        <5>1. CASE Live(b, q)
          BY <1>1, <1>4, <2>4, <4>1, <5>1 DEF ChainOK, Live
        <5>2. CASE ~ Live(b, q)
          BY <1>1, <1>4, <2>4, <4>1, <5>2 DEF FreeOK, Free
        <5> QED BY <5>1, <5>2
      <4>3. rank[q] < rank[b.rec[q].next]
        BY <2>1, <2>4, <4>1
      <4> QED BY <2>2, <2>3, <3>2, <4>1, <4>2, <4>3
    <3> QED BY <3>1, <3>2
  <2> QED BY <2>2, <2>4 DEF Sorted
<1>7. Followed(I)
  <2> SUFFICES ASSUME NEW p \in Record, Free(I, p), p # I.resfree
               PROVE  \E q \in Record : Free(I, q) /\ I.rec[q].next = p
    BY DEF Followed
  <2>1. p # r /\ Free(b, p)
    BY <1>3, <1>4 DEF Free, Live
  <2>2. p # b.resfree
    BY <1>1, <1>4, <2>1
  <2>3. PICK q \in Record : Free(b, q) /\ b.rec[q].next = p
    BY <2>1, <2>2 DEF ListsOK, Followed
  <2>4. q # r
    BY <1>1, <1>3, <2>3 DEF Free
  <2>5. Free(I, q) /\ I.rec[q].next = p
    BY <1>3, <2>3, <2>4 DEF Free, Live
  <2> QED BY <2>5
<1> QED BY <1>6, <1>7 DEF ListsOK, I

(* An empty buffer owes nothing. *)
LEMMA EmptyLists ==
  ASSUME NEW n \in Nat \ {0}
  PROVE  Even(EmptyBuffer(n)) /\ ListsOK(EmptyBuffer(n))
<1> DEFINE b == EmptyBuffer(n)
<1>1. /\ b.alloc = {} /\ b.rec = [r \in Record |-> FreedRecord(Null)]
      /\ b.ctr = [c \in Counter |->
                   [ticks |-> 0, value |-> 0, peak |-> 0, resources |-> Null]]
  BY DEF EmptyBuffer
<1> HIDE DEF b
<1>2. \A c \in Counter : Mine(b, c) = {}
  BY <1>1, NullAssumption DEF Mine, FreedRecord
<1>3. \A c \in Counter : Ahead(b, c, 0, 0)
  <2> SUFFICES ASSUME NEW c \in Counter PROVE Ahead(b, c, 0, 0)
    OBVIOUS
  <2>1. b.ctr[c].value = 0 /\ b.ctr[c].ticks = 0 /\ b.ctr[c].peak = 0
    BY <1>1
  <2>2. SumFunctionOnSet(SizeOf(b), Mine(b, c)) = 0 /\ Cardinality(Mine(b, c)) = 0
    BY <1>2, SumEmpty, FS_EmptySet
  <2> QED BY <2>1, <2>2 DEF Ahead
<1>4. Even(b)
  BY <1>1, <1>3, FS_EmptySet DEF Even
<1>5. [r \in Record |-> 0] \in [Record -> Nat]
  OBVIOUS
<1>6. ListsOK(b)
  BY <1>1, <1>5 DEF ListsOK, Sorted, Followed, Free
<1> QED BY <1>4, <1>6 DEF b

-----------------------------------------------------------------------------
(* Each action preserves the books and the lists. *)

Books == /\ pc = "idle" => Even(buf)
         /\ pc # "idle" => Due(buf, req.counter, req.size)
         /\ ListsOK(buf)

(* A fresh buffer owes nothing. *)
LEMMA InitBooks == Init => Books
BY EmptyLists, SizeAssumption DEF Init, Books

(* acquire() of an unknown resource keeps the books. *)
LEMMA AcquireNewBooks ==
  ASSUME IInv, Books, Zero \notin Address, NEW c \in Counter, NEW a \in Address,
         NEW sz \in Sizes, AcquireNew(c, a, sz)
  PROVE  Books'
<1> DEFINE b == Tick(buf, c, sz)
           s == FindResource(b.table, b.size, a)
<1>1. /\ pc = "idle" /\ s # Null /\ ~ Occupied(b, s) /\ UNCHANGED Growth
      /\ \E r \in NewRecord(b) : buf' = Insert(b, s, r, c, a, sz)
  BY DEF AcquireNew
<1>2. BufferType(buf) /\ BufferOK(buf) /\ sz \in Nat /\ Even(buf) /\ ListsOK(buf)
  BY <1>1, SizeAssumption DEF IInv, TypeOK, TableInv, Books
<1>3. BufferType(b) /\ BufferOK(b)
  <2>1. BufferType(b)
    BY <1>2, TickFields
  <2> QED BY <1>2, <2>1, TickOK DEF BufferOK
<1>4. Due(b, c, sz) /\ ListsOK(b)
  BY <1>2, TickDue, TickLists DEF BufferOK
<1> HIDE DEF b
<1>5. s \in Slots(b.size)
  BY <1>1, <1>3, FindOK DEF BufferOK
<1> HIDE DEF s
<1>6. PICK r \in NewRecord(b) : buf' = Insert(b, s, r, c, a, sz)
  BY <1>1
<1>7. FreeOK(b)
  BY <1>3 DEF BufferOK
<1>8. Even(Insert(b, s, r, c, a, sz)) /\ ListsOK(Insert(b, s, r, c, a, sz))
  BY <1>2, <1>3, <1>4, <1>5, <1>7, InsertEven, InsertLists
<1>9. Even(buf') /\ ListsOK(buf') /\ pc' = "idle"
  BY <1>1, <1>6, <1>8 DEF Growth
<1> QED BY <1>9 DEF Books

(* acquire() of a known resource, released first, keeps the books. *)
LEMMA AcquireKnownBooks ==
  ASSUME IInv, Books, Zero \notin Address, NEW c \in Counter, NEW a \in Address,
         NEW sz \in Sizes, AcquireKnown(c, a, sz)
  PROVE  Books'
<1> DEFINE s == FindResource(buf.table, buf.size, a)
           t == Tick(buf, c, sz)
           b == ReleaseResource(t, s)
<1>1. /\ pc = "idle" /\ s # Null /\ Occupied(buf, s) /\ UNCHANGED Growth
      /\ \E r \in NewRecord(b) : buf' = Insert(b, s, r, c, a, sz)
  BY DEF AcquireKnown
<1>2. BufferType(buf) /\ BufferOK(buf) /\ sz \in Nat /\ Even(buf) /\ ListsOK(buf)
  BY <1>1, SizeAssumption DEF IInv, TypeOK, TableInv, Books
<1>3. s \in Slots(buf.size) /\ s \in Busy(buf)
  BY <1>1, <1>2, FindOK DEF BufferOK
<1>4. BufferType(t) /\ t.table = buf.table /\ t.size = buf.size
  BY <1>2, TickFields
<1>5. BufferOK(t)
  BY <1>2, TickOK DEF BufferOK
<1>6. Due(t, c, sz) /\ ListsOK(t)
  BY <1>2, TickDue, TickLists DEF BufferOK
<1> HIDE DEF s, t
<1>7. s \in Busy(t)
  BY <1>3, <1>4 DEF Busy, Occupied
<1>8. BufferType(b) /\ BufferOK(b) /\ b.size = t.size
  BY <1>4, <1>5, <1>7, ReleaseOK
<1>9. Due(b, c, sz) /\ ListsOK(b)
  BY <1>2, <1>4, <1>5, <1>6, <1>7, ReleaseDue, ReleaseLists
<1> HIDE DEF b
<1>10. PICK r \in NewRecord(b) : buf' = Insert(b, s, r, c, a, sz)
  BY <1>1
<1>11. FreeOK(b) /\ s \in Slots(b.size)
  BY <1>3, <1>4, <1>8 DEF BufferOK
<1>12. Even(Insert(b, s, r, c, a, sz)) /\ ListsOK(Insert(b, s, r, c, a, sz))
  BY <1>2, <1>8, <1>9, <1>11, InsertEven, InsertLists
<1>13. Even(buf') /\ ListsOK(buf') /\ pc' = "idle"
  BY <1>1, <1>10, <1>12 DEF Growth
<1> QED BY <1>13 DEF Books

(* acquire() that finds the window full has ticked for what it enters later. *)
LEMMA AcquireFullBooks ==
  ASSUME IInv, Books, NEW c \in Counter, NEW a \in Address,
         NEW sz \in Sizes, AcquireFull(c, a, sz)
  PROVE  Books'
<1>1. /\ pc = "idle" /\ buf' = Tick(buf, c, sz) /\ Expand(buf.size)
      /\ req' = [counter |-> c, address |-> a, size |-> sz]
  BY DEF AcquireFull
<1>2. BufferType(buf) /\ BufferOK(buf) /\ sz \in Nat /\ Even(buf) /\ ListsOK(buf)
  BY <1>1, SizeAssumption DEF IInv, TypeOK, TableInv, Books
<1>3. Due(Tick(buf, c, sz), c, sz) /\ ListsOK(Tick(buf, c, sz))
  BY <1>2, TickDue, TickLists DEF BufferOK
<1>4. Due(buf', c, sz) /\ ListsOK(buf')
  BY <1>1, <1>3
<1>5. pc' # "idle" /\ req'.counter = c /\ req'.size = sz
  BY <1>1 DEF Expand
<1> QED BY <1>4, <1>5 DEF Books

(* A step of the growth that moves no record keeps the books. *)
LEMMA WaitBooks ==
  ASSUME Books, pc # "idle", pc' # "idle", buf' = buf, req' = req
  PROVE  Books'
BY DEF Books

(* Moving a slot to the new table leaves lists and counters as they are. *)
LEMMA RehashPlaceBooks ==
  ASSUME IInv, Books, Zero \notin Address, RehashPlace
  PROVE  Books'
<1> DEFINE e == buf.table[cursor]
           s == FindHole(newTable, newSize, e.resource)
           f == [buf.rec EXCEPT ![e.record].hashslot = s]
<1>1. /\ pc = "rehash" /\ cursor < buf.size /\ Occupied(buf, cursor)
      /\ buf' = [buf EXCEPT !.rec = f] /\ UNCHANGED <<pc, newSize, req>>
  BY DEF RehashPlace
<1>2. /\ BufferType(buf) /\ req \in RequestType /\ cursor \in 0 .. buf.size
      /\ buf.size \in Nat \ {0} /\ FreeOK(buf)
  BY <1>1, RehashFacts
<1>3. e \in SlotType /\ e.record \in Record
  BY <1>1, <1>2 DEF BufferType, SlotType, Slots, Occupied
<1> HIDE DEF s
<1>4. buf = Fields(buf)
  BY <1>2 DEF BufferType, Fields
<1>5. \A q \in Record : /\ f[q].next = buf.rec[q].next
                        /\ f[q].counter = buf.rec[q].counter
                        /\ f[q].size = buf.rec[q].size
  <2>1. \A q \in Record : buf.rec[q] \in RecordType
    BY <1>2 DEF BufferType
  <2>2. buf.rec \in [Record -> RecordType]
    BY <1>2 DEF BufferType
  <2> HIDE DEF e
  <2> QED BY <1>3, <2>1, <2>2 DEF RecordType
<1> HIDE DEF f
<1>6. /\ (buf').rec = f /\ (buf').resfree = buf.resfree /\ (buf').alloc = buf.alloc
      /\ (buf').ctr = buf.ctr
  BY <1>1, <1>4 DEF Fields
<1>7. req.counter \in Counter /\ req.size \in Nat
  BY <1>2, SizeAssumption DEF RequestType
<1>8. Due(buf, req.counter, req.size) /\ ListsOK(buf)
  BY <1>1 DEF Books
<1>9. Due(buf', req.counter, req.size) /\ ListsOK(buf')
  <2> DEFINE B == buf'
  <2>1. /\ B.alloc = buf.alloc /\ B.resfree = buf.resfree /\ B.ctr = buf.ctr
        /\ \A q \in Record : /\ B.rec[q].next = buf.rec[q].next
                             /\ B.rec[q].counter = buf.rec[q].counter
                             /\ B.rec[q].size = buf.rec[q].size
    BY <1>5, <1>6
  <2> HIDE DEF B
  <2>2. ListsOK(B) /\ Due(B, req.counter, req.size)
    BY <1>2, <1>7, <1>8, <2>1, SameLists
  <2> QED BY <2>2 DEF B
<1> QED BY <1>1, <1>9 DEF Books

(* The swap of the tables leaves lists and counters as they are. *)
LEMMA RehashDoneBooks ==
  ASSUME IInv, Books, RehashDone
  PROVE  Books'
<1>1. /\ pc = "rehash" /\ pc' = "retry" /\ req' = req
      /\ buf' = [buf EXCEPT !.table = newTable, !.size = newSize]
  BY DEF RehashDone
<1>2. BufferType(buf) /\ req \in RequestType /\ FreeOK(buf)
  BY <1>1, RehashFacts
<1>3. buf = Fields(buf)
  BY <1>2 DEF BufferType, Fields
<1>4. /\ (buf').rec = buf.rec /\ (buf').resfree = buf.resfree
      /\ (buf').alloc = buf.alloc /\ (buf').ctr = buf.ctr
  BY <1>1, <1>3 DEF Fields
<1>5. req.counter \in Counter /\ req.size \in Nat
  BY <1>2, SizeAssumption DEF RequestType
<1>6. Due(buf, req.counter, req.size) /\ ListsOK(buf)
  BY <1>1 DEF Books
<1>7. Due(buf', req.counter, req.size) /\ ListsOK(buf')
  <2> DEFINE B == buf'
  <2>1. /\ B.alloc = buf.alloc /\ B.resfree = buf.resfree /\ B.ctr = buf.ctr
        /\ \A q \in Record : /\ B.rec[q].next = buf.rec[q].next
                             /\ B.rec[q].counter = buf.rec[q].counter
                             /\ B.rec[q].size = buf.rec[q].size
    BY <1>4
  <2> HIDE DEF B
  <2>2. ListsOK(B) /\ Due(B, req.counter, req.size)
    BY <1>2, <1>5, <1>6, <2>1, SameLists
  <2> QED BY <2>2 DEF B
<1> QED BY <1>1, <1>7 DEF Books

(* acquire() that found a slot in the new table enters what it has counted. *)
LEMMA RetryInsertBooks ==
  ASSUME IInv, Books, Zero \notin Address, RetryInsert
  PROVE  Books'
<1> DEFINE s == FindResource(buf.table, buf.size, req.address)
<1>1. /\ pc = "retry" /\ s # Null /\ pc' = "idle"
      /\ \E r \in NewRecord(buf) :
           buf' = Insert(buf, s, r, req.counter, req.address, req.size)
  BY DEF RetryInsert
<1>2. /\ BufferType(buf) /\ BufferOK(buf) /\ req \in RequestType
      /\ Due(buf, req.counter, req.size) /\ ListsOK(buf)
  BY <1>1 DEF IInv, TypeOK, TableInv, Books
<1>3. req.counter \in Counter /\ req.address \in Address /\ req.size \in Nat
  BY <1>2, SizeAssumption DEF RequestType
<1>4. s \in Slots(buf.size)
  BY <1>1, <1>2, <1>3, FindOK DEF BufferOK
<1> HIDE DEF s
<1>5. PICK r \in NewRecord(buf) :
        buf' = Insert(buf, s, r, req.counter, req.address, req.size)
  BY <1>1
<1>6. FreeOK(buf)
  BY <1>2 DEF BufferOK
<1>7. /\ Even(Insert(buf, s, r, req.counter, req.address, req.size))
      /\ ListsOK(Insert(buf, s, r, req.counter, req.address, req.size))
  BY <1>2, <1>3, <1>4, <1>6, InsertEven, InsertLists
<1>8. Even(buf') /\ ListsOK(buf')
  BY <1>5, <1>7
<1> QED BY <1>1, <1>8 DEF Books

(* release() keeps the books. *)
LEMMA ReleaseBooks ==
  ASSUME IInv, Books, Zero \notin Address, NEW a \in Address, Release(a)
  PROVE  Books'
<1> DEFINE s == FindResource(buf.table, buf.size, a)
<1>1. /\ pc = "idle" /\ s # Null /\ Occupied(buf, s) /\ UNCHANGED Growth
      /\ buf' = ReleaseResource(buf, s)
  BY DEF Release
<1>2. BufferType(buf) /\ BufferOK(buf) /\ Even(buf) /\ ListsOK(buf)
  BY <1>1 DEF IInv, TypeOK, TableInv, Books
<1>3. s \in Busy(buf)
  BY <1>1, <1>2, FindOK DEF BufferOK
<1> HIDE DEF s
<1>4. Even(ReleaseResource(buf, s)) /\ ListsOK(ReleaseResource(buf, s))
  BY <1>2, <1>3, ReleaseDue, ReleaseLists
<1>5. Even(buf') /\ ListsOK(buf') /\ pc' = "idle"
  BY <1>1, <1>4 DEF Growth
<1> QED BY <1>5 DEF Books

(* reset() leaves an empty buffer. *)
LEMMA ResetBooks ==
  ASSUME IInv, Reset
  PROVE  Books'
<1>1. pc = "idle" /\ buf' = EmptyBuffer(buf.size) /\ UNCHANGED Growth
  BY DEF Reset
<1>2. buf.size \in Nat \ {0}
  BY DEF IInv, TypeOK, BufferType
<1>3. Even(EmptyBuffer(buf.size)) /\ ListsOK(EmptyBuffer(buf.size))
  BY <1>2, EmptyLists
<1>4. Even(buf') /\ ListsOK(buf') /\ pc' = "idle"
  BY <1>1, <1>3 DEF Growth
<1> QED BY <1>4 DEF Books

(* Every step keeps the books. *)
LEMMA NextBooks ==
  ASSUME Zero \notin Address
  PROVE  IInv /\ Books /\ [Next]_vars => Books'
<1> SUFFICES ASSUME IInv, Books, [Next]_vars PROVE Books'
  OBVIOUS
<1>1. ASSUME NEW c \in Counter, NEW a \in Address, NEW sz \in Sizes,
             \/ AcquireNew(c, a, sz)
             \/ AcquireKnown(c, a, sz)
             \/ AcquireFull(c, a, sz)
      PROVE  Books'
  BY <1>1, AcquireNewBooks, AcquireKnownBooks, AcquireFullBooks
<1>2. ASSUME RehashSkip \/ RehashRetry \/ RetryExpand PROVE Books'
  <2>1. pc # "idle" /\ pc' # "idle" /\ buf' = buf /\ req' = req
    BY <1>2 DEF RehashSkip, RehashRetry, RetryExpand, Expand
  <2> QED BY <2>1, WaitBooks
<1>3. CASE Growing
  BY <1>2, <1>3, RehashPlaceBooks, RehashDoneBooks, RetryInsertBooks DEF Growing
<1>4. ASSUME NEW a \in Address, Release(a) PROVE Books'
  BY <1>4, ReleaseBooks
<1>5. CASE Reset
  BY <1>5, ResetBooks
<1>6. CASE UNCHANGED vars
  BY <1>6 DEF vars, Books
<1> QED BY <1>1, <1>3, <1>4, <1>5, <1>6 DEF Next

-----------------------------------------------------------------------------
(* Walks along the lists *)

Step(b, S) == S \cup ({b.rec[q].next : q \in S} \ {Null})
Walk(g, b, r, M) ==
  g = [n \in 0 .. M |-> IF n = 0 THEN {r} \ {Null}
                        ELSE g[n - 1] \cup ({b.rec[q].next : q \in g[n - 1]} \ {Null})]

(* A walk starts at r, and takes a step at a time. *)
LEMMA WalkOf ==
  ASSUME NEW g, NEW b, NEW r, NEW M \in Nat, Walk(g, b, r, M)
  PROVE  /\ g[0] = {r} \ {Null}
         /\ \A n \in 1 .. M : g[n] = Step(b, g[n - 1])
<1> DEFINE h == [i \in 0 .. M |-> IF i = 0 THEN {r} \ {Null}
                        ELSE g[i - 1] \cup ({b.rec[q].next : q \in g[i - 1]} \ {Null})]
<1>1. /\ h[0] = {r} \ {Null}
      /\ \A n \in 1 .. M :
           h[n] = g[n - 1] \cup ({b.rec[q].next : q \in g[n - 1]} \ {Null})
  OBVIOUS
<1>2. g = h
  BY Zenon DEF Walk
<1> QED BY <1>1, <1>2, Zenon DEF Step

(* There is a walk of any length. *)
LEMMA WalkExists ==
  ASSUME NEW b, NEW r, NEW M \in Nat
  PROVE  \E g : Walk(g, b, r, M)
<1> DEFINE Q == {m \in Nat : \E g : Walk(g, b, r, m)}
<1>1. 0 \in Q
  <2> DEFINE g == [n \in 0 .. 0 |-> {r} \ {Null}]
  <2>1. g = [n \in 0 .. 0 |-> IF n = 0 THEN {r} \ {Null}
               ELSE g[n - 1] \cup ({b.rec[q].next : q \in g[n - 1]} \ {Null})]
    OBVIOUS
  <2> QED BY <2>1 DEF Walk
<1>2. ASSUME NEW m \in Nat, m \in Q PROVE m + 1 \in Q
  <2>1. PICK g : Walk(g, b, r, m)
    BY <1>2
  <2> DEFINE h == [n \in 0 .. m + 1 |-> IF n = m + 1 THEN Step(b, g[m]) ELSE g[n]]
             k == [n \in 0 .. m + 1 |-> IF n = 0 THEN {r} \ {Null}
                     ELSE h[n - 1] \cup ({b.rec[q].next : q \in h[n - 1]} \ {Null})]
  <2>2. \A n \in 0 .. m : h[n] = g[n]
    OBVIOUS
  <2>3. h[m + 1] = Step(b, h[m])
    BY <2>2
  <2>4. h[0] = {r} \ {Null} /\ \A n \in 1 .. m : h[n] = Step(b, h[n - 1])
    <3>1. g[0] = {r} \ {Null} /\ \A n \in 1 .. m : g[n] = Step(b, g[n - 1])
      BY <2>1, WalkOf
    <3>2. 0 \in 0 .. m /\ \A n \in 1 .. m : n \in 0 .. m /\ n - 1 \in 0 .. m
      OBVIOUS
    <3> HIDE DEF h
    <3> QED BY <2>2, <3>1, <3>2
  <2>5. \A n \in 0 .. m + 1 : k[n] = IF n = 0 THEN {r} \ {Null} ELSE Step(b, h[n - 1])
    BY DEF Step
  <2>6. \A n \in 0 .. m + 1 : h[n] = k[n]
    <3> SUFFICES ASSUME NEW n \in 0 .. m + 1 PROVE h[n] = k[n]
      OBVIOUS
    <3>1. n = 0 \/ (n \in 1 .. m /\ n # 0) \/ (n = m + 1 /\ n # 0 /\ n - 1 = m)
      OBVIOUS
    <3> HIDE DEF h, k
    <3> QED BY <2>3, <2>4, <2>5, <3>1
  <2>7. h = k
    BY <2>6
  <2>8. Walk(h, b, r, m + 1)
    BY <2>7, Zenon DEF Walk
  <2> QED BY <2>8
<1>3. Nat \subseteq Q
  <2> HIDE DEF Q
  <2> QED BY <1>1, <1>2, NumberInduction
<1> QED BY <1>3

(* What Chain() takes is the end of a walk as long as there are records. *)
LEMMA ChainIsWalk ==
  ASSUME NEW b, IsFiniteSet(b.alloc), NEW r
  PROVE  \E g : Walk(g, b, r, Cardinality(b.alloc)) /\ Chain(b, r) = g[Cardinality(b.alloc)]
<1> DEFINE M == Cardinality(b.alloc)
           g == CHOOSE f : Walk(f, b, r, M)
<1>1. M \in Nat
  BY FS_CardinalityType
<1>2. \E f : Walk(f, b, r, M)
  BY <1>1, WalkExists
<1>3. Walk(g, b, r, M)
  BY <1>2, Zenon
<1>4. Chain(b, r) = g[M]
  BY Zenon DEF Chain, Walk
<1> QED BY <1>3, <1>4

(* A walk meets exactly a set of records that has its head, is closed under
   next, and in which every record but the head follows another one. *)
LEMMA WalkExact ==
  ASSUME NEW b, b.alloc \subseteq Record, IsFiniteSet(b.alloc), Sorted(b),
         NEW A \in SUBSET b.alloc, NEW head \in A \cup {Null},
         \A q \in A : b.rec[q].next \in A \cup {Null},
         \A q \in A : q # head => \E p \in A : b.rec[p].next = q
  PROVE  Chain(b, head) = A
<1> DEFINE M == Cardinality(b.alloc)
<1>1. PICK rank \in [Record -> Nat] :
        \A q \in b.alloc : b.rec[q].next # Null => rank[q] < rank[b.rec[q].next]
  BY DEF Sorted
<1>2. PICK g : Walk(g, b, head, M) /\ Chain(b, head) = g[M]
  BY ChainIsWalk
<1>3. M \in Nat
  BY FS_CardinalityType
<1> HIDE DEF M
<1>4. A \subseteq Record /\ Null \notin A
  BY NullAssumption
<1>5. g[0] = {head} \ {Null} /\ \A n \in 1 .. M : g[n] = Step(b, g[n - 1])
  BY <1>2, <1>3, WalkOf
<1>6. \A n \in 0 .. M : g[n] \subseteq A /\ (head # Null => head \in g[n])
  <2> DEFINE Q == {n \in Nat : n <= M => g[n] \subseteq A /\ (head # Null => head \in g[n])}
  <2>1. 0 \in Q
    <3>1. g[0] = {head} \ {Null}
      BY <1>3, <1>5
    <3> QED BY <3>1
  <2>2. ASSUME NEW n \in Nat, n \in Q PROVE n + 1 \in Q
    <3> SUFFICES ASSUME n + 1 <= M
                 PROVE  g[n + 1] \subseteq A /\ (head # Null => head \in g[n + 1])
      OBVIOUS
    <3>1. g[n + 1] = Step(b, g[n])
      <4>1. n + 1 \in 1 .. M /\ (n + 1) - 1 = n
        BY <1>3
      <4> QED BY <1>5, <4>1
    <3>2. g[n] \subseteq A /\ (head # Null => head \in g[n])
      BY <1>3, <2>2
    <3> QED BY <3>1, <3>2 DEF Step
  <2>3. Nat \subseteq Q
    <3> HIDE DEF Q
    <3> QED BY <2>1, <2>2, NumberInduction
  <2> QED BY <1>3, <2>3
<1> DEFINE Before(q) == {p \in A : rank[p] <= rank[q]}
<1>7. \A q \in A : /\ IsFiniteSet(Before(q)) /\ Cardinality(Before(q)) \in Nat
                   /\ Cardinality(Before(q)) <= M /\ rank[q] \in Nat
  <2> SUFFICES ASSUME NEW q \in A
               PROVE  /\ IsFiniteSet(Before(q)) /\ Cardinality(Before(q)) \in Nat
                      /\ Cardinality(Before(q)) <= M /\ rank[q] \in Nat
    OBVIOUS
  <2>1. Before(q) \in SUBSET b.alloc
    OBVIOUS
  <2> HIDE DEF Before
  <2>2. IsFiniteSet(Before(q)) /\ Cardinality(Before(q)) <= M
    BY <2>1, FS_Subset DEF M
  <2> QED BY <1>4, <2>2, FS_CardinalityType
<1>8. \A q \in A : \A n \in 0 .. M : n + 1 >= Cardinality(Before(q)) => q \in g[n]
  <2> DEFINE Q == {k \in Nat : \A q \in A : rank[q] < k =>
                     \A n \in 0 .. M : n + 1 >= Cardinality(Before(q)) => q \in g[n]}
  <2>1. 0 \in Q
    BY <1>7
  <2>2. ASSUME NEW k \in Nat, k \in Q PROVE k + 1 \in Q
    <3> SUFFICES ASSUME NEW q \in A, rank[q] < k + 1, NEW n \in 0 .. M,
                        n + 1 >= Cardinality(Before(q))
                 PROVE  q \in g[n]
      OBVIOUS
    <3>1. CASE q = head
      BY <1>4, <1>6, <3>1
    <3>2. CASE q # head
      <4>1. PICK p \in A : b.rec[p].next = q
        BY <3>2
      <4>2. rank[p] < rank[q]
        BY <1>1, <1>4, <4>1
      <4>3. p \in Before(p) /\ Before(p) \subseteq Before(q) \ {q} /\ q \in Before(q)
        BY <1>7, <4>2
      <4> HIDE DEF Before
      <4>4. /\ Cardinality(Before(q) \ {q}) = Cardinality(Before(q)) - 1
            /\ IsFiniteSet(Before(q) \ {q})
        BY <1>7, <4>3, FS_RemoveElement
      <4>5. Cardinality(Before(p)) <= Cardinality(Before(q)) - 1
        <5>1. Cardinality(Before(p)) <= Cardinality(Before(q) \ {q})
          BY <4>3, <4>4, FS_Subset
        <5> QED BY <4>4, <5>1
      <4>6. Cardinality(Before(p)) # 0
        BY <1>7, <4>3, FS_EmptySet
      <4>7. n - 1 \in 0 .. M /\ (n - 1) + 1 >= Cardinality(Before(p)) /\ n \in 1 .. M
        BY <1>3, <1>7, <4>5, <4>6
      <4>8. p \in g[n - 1]
        <5>1. rank[p] < k
          BY <1>7, <4>2
        <5> QED BY <2>2, <4>7, <5>1
      <4>9. g[n] = Step(b, g[n - 1])
        BY <1>5, <4>7
      <4> QED BY <1>4, <4>1, <4>8, <4>9 DEF Step
    <3> QED BY <3>1, <3>2
  <2>3. Nat \subseteq Q
    <3> HIDE DEF Q
    <3> QED BY <2>1, <2>2, NumberInduction
  <2> SUFFICES ASSUME NEW q \in A, NEW n \in 0 .. M, n + 1 >= Cardinality(Before(q))
               PROVE  q \in g[n]
    OBVIOUS
  <2>4. rank[q] + 1 \in Q /\ rank[q] < rank[q] + 1
    BY <1>7, <2>3
  <2> QED BY <2>4
<1>9. A \subseteq g[M]
  <2> SUFFICES ASSUME NEW q \in A PROVE q \in g[M]
    OBVIOUS
  <2>1. M \in 0 .. M /\ M + 1 >= Cardinality(Before(q))
    BY <1>3, <1>7
  <2> QED BY <1>8, <2>1
<1>10. g[M] \subseteq A
  BY <1>3, <1>6
<1> QED BY <1>2, <1>9, <1>10

(* The walk along a counter's list meets its resources, the one along the free
   list the free records. *)
LEMMA ChainsExact ==
  ASSUME NEW b, BufferType(b), ChainOK(b), FreeOK(b), ListsOK(b), IsFiniteSet(b.alloc)
  PROVE  /\ \A c \in Counter : Chain(b, b.ctr[c].resources) = Mine(b, c)
         /\ Chain(b, b.resfree) = {r \in Record : Free(b, r)}
<1>1. /\ b.alloc \subseteq Record /\ b.resfree \in Record \cup {Null}
      /\ \A q \in Record : /\ b.rec[q].next \in Record \cup {Null}
                           /\ b.rec[q].prev \in Record \cup {Null}
  BY DEF BufferType, RecordType
<1>2. ASSUME NEW c \in Counter PROVE Chain(b, b.ctr[c].resources) = Mine(b, c)
  <2> DEFINE head == b.ctr[c].resources
             A == Mine(b, c)
  <2>1. head \in Record \cup {Null} /\ c # Null
    BY NullAssumption DEF BufferType, CounterType
  <2>2. \A q \in A : q \in Record /\ Live(b, q) /\ b.rec[q].counter = c
    BY <2>1 DEF Mine, Live
  <2>3. A \subseteq b.alloc
    BY <2>2 DEF FreeOK
  <2>4. head \in A \cup {Null}
    BY <2>1 DEF ChainOK, Mine
  <2>5. \A q \in A : /\ (b.rec[q].prev = Null) <=> (head = q)
                     /\ b.rec[q].prev # Null =>
                          /\ b.rec[b.rec[q].prev].counter = c
                          /\ b.rec[b.rec[q].prev].next = q
                     /\ b.rec[q].next # Null => b.rec[b.rec[q].next].counter = c
    BY <2>2 DEF ChainOK
  <2> HIDE DEF head
  <2>6. \A q \in A : b.rec[q].next \in A \cup {Null}
    BY <1>1, <2>2, <2>5 DEF Mine
  <2>7. \A q \in A : q # head => \E p \in A : b.rec[p].next = q
    BY <1>1, <2>2, <2>5 DEF Mine
  <2>8. Chain(b, head) = A
    <3> HIDE DEF A
    <3> QED BY <1>1, <2>3, <2>4, <2>6, <2>7, WalkExact DEF ListsOK
  <2> QED BY <2>8 DEF head
<1>3. Chain(b, b.resfree) = {r \in Record : Free(b, r)}
  <2> DEFINE A == {r \in Record : Free(b, r)}
  <2>1. A \subseteq b.alloc
    BY DEF Free
  <2>2. b.resfree \in A \cup {Null}
    BY <1>1 DEF FreeOK
  <2>3. \A q \in A : b.rec[q].next \in A \cup {Null}
    BY <1>1 DEF FreeOK
  <2>4. \A q \in A : q # b.resfree => \E p \in A : b.rec[p].next = q
    BY DEF ListsOK, Followed
  <2> HIDE DEF A
  <2>5. Chain(b, b.resfree) = A
    BY <1>1, <2>1, <2>2, <2>3, <2>4, WalkExact DEF ListsOK
  <2> QED BY <2>5 DEF A
<1> QED BY <1>2, <1>3

(* No acquire, release, growth or reset makes a counter disagree with the
   resources it owns: at every moment its value is the sum of their sizes and
   its ticks their number, but for the one resource that an acquire() waiting
   for a larger table has already counted (Accounting, the ASSERTs at
   profile-trace.h:374-375). *)
THEOREM CountersAgree ==
  ASSUME Zero \notin Address
  PROVE  Spec => []Accounting
<1>1. IInv /\ Books => Accounting
  <2> SUFFICES ASSUME IInv, Books, NEW c \in Counter
               PROVE  LET n == IF pc # "idle" /\ req.counter = c THEN 1 ELSE 0
                          v == IF pc # "idle" /\ req.counter = c THEN req.size ELSE 0
                      IN  Ahead(buf, c, v, n)
    BY Zenon DEF Accounting, Ahead, Mine, SizeOf
  <2>1. CASE pc = "idle"
    BY <2>1 DEF Books, Even
  <2>2. CASE pc # "idle"
    BY <2>2 DEF Books, Due
  <2> QED BY <2>1, <2>2
<1>2. IInv /\ Books /\ [Next]_vars => IInv' /\ Books'
  BY NextOK, NextBooks
<1> QED BY <1>1, <1>2, InitOK, InitBooks, PTL DEF Spec

(* No record is lost or shared: at every moment the walk that the dump and
   mergeFrom take along a counter's list meets exactly the live resources of
   that counter, and the walk along the free list exactly the records that can
   be used again. *)
THEOREM NoRecordLost ==
  ASSUME Zero \notin Address
  PROVE  Spec => []ListsComplete
<1>1. IInv /\ Books => ListsComplete
  <2> SUFFICES ASSUME IInv, Books, pc # "aborted"
               PROVE  /\ \A c \in Counter : Chain(buf, buf.ctr[c].resources) = Mine(buf, c)
                      /\ Chain(buf, buf.resfree) = {r \in Record : Free(buf, r)}
    BY DEF ListsComplete, Mine
  <2>1. BufferType(buf) /\ ChainOK(buf) /\ FreeOK(buf)
    BY DEF IInv, TypeOK, TableInv, BufferOK
  <2>2. ListsOK(buf) /\ IsFiniteSet(buf.alloc)
    BY DEF Books, Even, Due
  <2> QED BY <2>1, <2>2, ChainsExact
<1>2. IInv /\ Books /\ [Next]_vars => IInv' /\ Books'
  BY NextOK, NextBooks
<1> QED BY <1>1, <1>2, InitOK, InitBooks, PTL DEF Spec

-----------------------------------------------------------------------------
(* The table implements the map. *)

Entry(b, r) == [counter |-> b.rec[r].counter, size |-> b.rec[r].size]
At(b, a) == {s \in Busy(b) : b.table[s].resource = a}

(* What the table knows of a resource, from the slot that holds it. *)
LEMMA LiveKnown ==
  ASSUME NEW b, SlotsOK(b), NEW a \in Address, NEW s \in At(b, a)
  PROVE  LiveOf(b)[a] = Entry(b, b.table[s].record)
<1>1. s \in Busy(b) /\ b.table[s].resource = a
  BY DEF At
<1>2. (CHOOSE t \in Busy(b) : b.table[t].resource = a) = s
  BY <1>1 DEF SlotsOK
<1> QED BY <1>1, <1>2 DEF LiveOf, Entry

(* A resource that is in no slot is not known. *)
LEMMA LiveUnknown ==
  ASSUME NEW b, NEW a \in Address, At(b, a) = {}
  PROVE  LiveOf(b)[a] = Null
  BY DEF LiveOf, At

(* Two buffers that hold a resource in the same record, or both do not, know the
   same of it. *)
LEMMA SameLive ==
  ASSUME NEW b, NEW B, SlotsOK(b), SlotsOK(B), NEW a \in Address,
         \A s \in At(b, a) : \E t \in At(B, a) :
           Entry(B, B.table[t].record) = Entry(b, b.table[s].record),
         At(b, a) = {} => At(B, a) = {}
  PROVE  LiveOf(B)[a] = LiveOf(b)[a]
<1>1. CASE At(b, a) = {}
  BY <1>1, LiveUnknown
<1>2. CASE At(b, a) # {}
  <2>1. PICK s \in At(b, a) : TRUE
    BY <1>2
  <2>2. PICK t \in At(B, a) : Entry(B, B.table[t].record) = Entry(b, b.table[s].record)
    BY <2>1
  <2> QED BY <2>1, <2>2, LiveKnown
<1> QED BY <1>1, <1>2

(* Only the slots and the records matter. *)
LEMMA LiveFrame ==
  ASSUME NEW b, NEW B, B.table = b.table, B.size = b.size, B.rec = b.rec
  PROVE  LiveOf(B) = LiveOf(b)
  BY DEF LiveOf, Busy, Occupied

(* The map of live resources is a function on the resources. *)
LEMMA LiveDomain ==
  ASSUME NEW b
  PROVE  LiveOf(b) = [a \in Address |-> LiveOf(b)[a]]
  BY DEF LiveOf

(* releaseResource() removes the resource of its slot from the map. *)
LEMMA ReleaseLive ==
  ASSUME NEW b, BufferType(b), BufferOK(b), Zero \notin Address, NEW a \in Address,
         NEW s \in At(b, a)
  PROVE  LiveOf(ReleaseResource(b, s)) = Abstract!Removed(LiveOf(b), a)
<1> DEFINE R == ReleaseResource(b, s)
           r == b.table[s].record
<1>1. s \in Busy(b) /\ s \in Slots(b.size) /\ b.table[s].resource = a /\ r # Null
  BY DEF At, Busy, Occupied
<1>2. SlotsOK(b) /\ Live(b, r)
  BY <1>1 DEF BufferOK, SlotsOK
<1>3. ReleaseEffect(b, s, R)
  BY <1>1, <1>2, ReleaseFields
<1>4. SlotsOK(R) /\ R.size = b.size /\ R.table = [b.table EXCEPT ![s] = EmptySlot]
  BY <1>1, ReleaseOK DEF BufferOK
<1> HIDE DEF R
<1>5. /\ R.table[s] = EmptySlot
      /\ \A t \in Slots(b.size) \ {s} : R.table[t] = b.table[t]
  BY <1>1, <1>4 DEF BufferType
<1>6. Busy(R) = Busy(b) \ {s}
  BY <1>4, <1>5 DEF Busy, Occupied, EmptySlot
<1>7. LiveOf(R)[a] = Null
  <2>1. At(R, a) = {}
    BY <1>1, <1>2, <1>5, <1>6 DEF At, SlotsOK, Busy
  <2> QED BY <2>1, LiveUnknown
<1>8. ASSUME NEW d \in Address, d # a PROVE LiveOf(R)[d] = LiveOf(b)[d]
  <2>1. At(R, d) = At(b, d)
    BY <1>1, <1>5, <1>6, <1>8 DEF At, Busy
  <2>2. ASSUME NEW t \in At(b, d)
        PROVE  Entry(R, R.table[t].record) = Entry(b, b.table[t].record)
    <3>1. t \in Slots(b.size) \ {s} /\ t \in Busy(b)
      BY <1>1, <1>8, <2>2 DEF At, Busy
    <3>2. b.table[t].record # r /\ b.table[t].record \in Record
      BY <1>1, <1>2, <3>1 DEF SlotsOK, Busy, Occupied, BufferType, SlotType
    <3>3. /\ R.rec[b.table[t].record].counter = b.rec[b.table[t].record].counter
          /\ R.rec[b.table[t].record].size = b.rec[b.table[t].record].size
      BY <1>3, <3>2 DEF ReleaseEffect
    <3> QED BY <1>5, <3>1, <3>3 DEF Entry
  <2>3. \A t \in At(b, d) : \E u \in At(R, d) :
          Entry(R, R.table[u].record) = Entry(b, b.table[t].record)
    BY <2>1, <2>2
  <2>4. At(b, d) = {} => At(R, d) = {}
    BY <2>1
  <2>5. SlotsOK(R)
    BY <1>4
  <2> HIDE DEF r
  <2> QED BY <1>2, <2>3, <2>4, <2>5, SameLive, ZenonT(60)
<1>9. LiveOf(R) = [d \in Address |-> IF d = a THEN Null ELSE LiveOf(b)[d]]
  <2>1. LiveOf(R) = [d \in Address |-> LiveOf(R)[d]]
    BY LiveDomain, Zenon
  <2>2. \A d \in Address : LiveOf(R)[d] = IF d = a THEN Null ELSE LiveOf(b)[d]
    BY <1>7, <1>8, Zenon
  <2> QED BY <2>1, <2>2, Zenon
<1>10. Abstract!Removed(LiveOf(b), a) = [d \in Address |-> IF d = a THEN Null ELSE LiveOf(b)[d]]
  BY DEF Abstract!Removed, LiveOf
<1> QED BY <1>9, <1>10 DEF R

(* The end of acquire() enters the resource into the map. *)
LEMMA InsertLive ==
  ASSUME NEW b, BufferType(b), BufferOK(b), Zero \notin Address,
         NEW a \in Address, NEW s \in Slots(b.size), ~ Occupied(b, s),
         InWindow(a, s, b.size), At(b, a) = {},
         NEW r \in NewRecord(b), NEW c \in Counter, NEW sz \in Nat
  PROVE  LiveOf(Insert(b, s, r, c, a, sz)) = Abstract!Entered(LiveOf(b), c, a, sz)
<1> DEFINE I == Insert(b, s, r, c, a, sz)
           new == [counter |-> c, size |-> sz]
<1>1. r \in Record /\ ~ Live(b, r)
  BY DEF NewRecord, BufferType, BufferOK, FreeOK, Free
<1>2. \A t \in Busy(b) : b.table[t].resource # a
  BY DEF At
<1>3. InsertEffect(b, s, r, c, a, sz, I)
  BY <1>1, InsertFields
<1>4. SlotsOK(I) /\ I.size = b.size
      /\ I.table = [b.table EXCEPT ![s] = [resource |-> a, record |-> r]]
  BY <1>2, InsertOK DEF BufferOK
<1> HIDE DEF I
<1>5. /\ I.table[s] = [resource |-> a, record |-> r]
      /\ \A t \in Slots(b.size) \ {s} : I.table[t] = b.table[t]
  BY <1>4 DEF BufferType
<1>6. r # Null
  BY <1>1, NullAssumption
<1>7. Busy(I) = Busy(b) \cup {s}
  BY <1>4, <1>5, <1>6 DEF Busy, Occupied
<1>8. LiveOf(I)[a] = new
  <2>1. s \in At(I, a)
    BY <1>5, <1>7 DEF At
  <2>2. LiveOf(I)[a] = Entry(I, I.table[s].record)
    BY <1>4, <2>1, LiveKnown, Zenon
  <2>3. LiveOf(I)[a] = Entry(I, r)
    BY <1>5, <2>2
  <2> QED BY <1>3, <2>3 DEF InsertEffect, Entry
<1>9. ASSUME NEW d \in Address, d # a PROVE LiveOf(I)[d] = LiveOf(b)[d]
  <2>1. At(I, d) = At(b, d)
    BY <1>5, <1>7, <1>9 DEF At, Busy, Occupied
  <2>2. ASSUME NEW t \in At(b, d)
        PROVE  Entry(I, I.table[t].record) = Entry(b, b.table[t].record)
    <3>1. t \in Slots(b.size) \ {s} /\ t \in Busy(b)
      BY <2>2 DEF At, Busy
    <3>2. b.table[t].record # r /\ b.table[t].record \in Record
      BY <1>1, <3>1 DEF BufferOK, SlotsOK, Busy, Occupied, BufferType, SlotType
    <3>3. /\ I.rec[b.table[t].record].counter = b.rec[b.table[t].record].counter
          /\ I.rec[b.table[t].record].size = b.rec[b.table[t].record].size
      BY <1>3, <3>2 DEF InsertEffect
    <3> QED BY <1>5, <3>1, <3>3 DEF Entry
  <2>3. SlotsOK(b)
    BY DEF BufferOK
  <2>4. \A t \in At(b, d) : \E u \in At(I, d) :
          Entry(I, I.table[u].record) = Entry(b, b.table[t].record)
    BY <2>1, <2>2
  <2>5. At(b, d) = {} => At(I, d) = {}
    BY <2>1
  <2>6. SlotsOK(I)
    BY <1>4
  <2> HIDE DEF new
  <2> QED BY <2>3, <2>4, <2>5, <2>6, SameLive, SMTT(60)
<1>10. LiveOf(I) = [d \in Address |-> IF d = a THEN new ELSE LiveOf(b)[d]]
  <2>1. LiveOf(I) = [d \in Address |-> LiveOf(I)[d]]
    BY LiveDomain, Zenon
  <2>2. \A d \in Address : LiveOf(I)[d] = IF d = a THEN new ELSE LiveOf(b)[d]
    BY <1>8, <1>9, Zenon
  <2> QED BY <2>1, <2>2, Zenon
<1>11. Abstract!Entered(LiveOf(b), c, a, sz) =
         [d \in Address |-> IF d = a THEN new ELSE LiveOf(b)[d]]
  BY DEF Abstract!Entered, LiveOf
<1> QED BY <1>10, <1>11 DEF I

-----------------------------------------------------------------------------
(* Each action performs a call of the map, or none. *)

(* A call with its history is a step of the table or a stutter. *)
LEMMA HNextType == [HNext]_<<vars, last>> => [Next]_vars
  BY DEF HNext, Next, Growing, ReleaseUnknown, vars

(* acquire() of an unknown resource enters it. *)
LEMMA AcquireNewMaps ==
  ASSUME IInv, Zero \notin Address, NEW c \in Counter, NEW a \in Address,
         NEW sz \in Sizes, AcquireNew(c, a, sz)
  PROVE  LiveOf(buf') = Abstract!Entered(LiveOf(buf), c, a, sz)
<1> DEFINE b == Tick(buf, c, sz)
           s == FindResource(b.table, b.size, a)
<1>1. /\ pc = "idle" /\ s # Null /\ ~ Occupied(b, s)
      /\ \E r \in NewRecord(b) : buf' = Insert(b, s, r, c, a, sz)
  BY DEF AcquireNew
<1>2. BufferType(buf) /\ BufferOK(buf) /\ sz \in Nat
  BY <1>1, SizeAssumption DEF IInv, TypeOK, TableInv
<1>3. BufferType(b) /\ b.table = buf.table /\ b.size = buf.size /\ b.rec = buf.rec
  BY <1>2, TickFields
<1>4. BufferOK(b)
  BY <1>2, TickOK DEF BufferOK
<1> HIDE DEF b
<1>5. s \in Slots(b.size) /\ InWindow(a, s, b.size) /\ At(b, a) = {}
  BY <1>1, <1>3, <1>4, FindOK DEF BufferOK, At
<1> HIDE DEF s
<1>6. LiveOf(b) = LiveOf(buf)
  BY <1>3, LiveFrame
<1>7. PICK r \in NewRecord(b) : buf' = Insert(b, s, r, c, a, sz)
  BY <1>1
<1>8. LiveOf(buf') = Abstract!Entered(LiveOf(b), c, a, sz)
  BY <1>1, <1>2, <1>3, <1>4, <1>5, <1>7, InsertLive
<1> QED BY <1>6, <1>8

(* acquire() of a known resource replaces its entry. *)
LEMMA AcquireKnownMaps ==
  ASSUME IInv, Zero \notin Address, NEW c \in Counter, NEW a \in Address,
         NEW sz \in Sizes, AcquireKnown(c, a, sz)
  PROVE  LiveOf(buf') = Abstract!Entered(LiveOf(buf), c, a, sz)
<1> DEFINE s == FindResource(buf.table, buf.size, a)
           t == Tick(buf, c, sz)
           b == ReleaseResource(t, s)
<1>1. /\ pc = "idle" /\ s # Null /\ Occupied(buf, s)
      /\ \E r \in NewRecord(b) : buf' = Insert(b, s, r, c, a, sz)
  BY DEF AcquireKnown
<1>2. BufferType(buf) /\ BufferOK(buf) /\ sz \in Nat
  BY <1>1, SizeAssumption DEF IInv, TypeOK, TableInv
<1>3. s \in Slots(buf.size) /\ InWindow(a, s, buf.size) /\ s \in At(buf, a)
  BY <1>1, <1>2, FindOK DEF BufferOK, At
<1>4. BufferType(t) /\ t.table = buf.table /\ t.size = buf.size /\ t.rec = buf.rec
  BY <1>2, TickFields
<1>5. BufferOK(t)
  BY <1>2, TickOK DEF BufferOK
<1> HIDE DEF s, t
<1>6. s \in At(t, a) /\ s \in Busy(t) /\ LiveOf(t) = LiveOf(buf)
  BY <1>3, <1>4, LiveFrame DEF At, Busy, Occupied
<1>7. /\ BufferType(b) /\ BufferOK(b) /\ b.size = t.size
      /\ b.table = [t.table EXCEPT ![s] = EmptySlot]
  BY <1>4, <1>5, <1>6, ReleaseOK
<1>8. LiveOf(b) = Abstract!Removed(LiveOf(t), a)
  BY <1>4, <1>5, <1>6, ReleaseLive
<1> HIDE DEF b
<1>9. ~ Occupied(b, s)
  BY <1>3, <1>4, <1>7 DEF Occupied, EmptySlot, BufferType
<1>10. At(b, a) = {}
  BY <1>3, <1>4, <1>5, <1>6, <1>7 DEF At, Busy, Occupied, EmptySlot, BufferType,
     BufferOK, SlotsOK
<1>11. PICK r \in NewRecord(b) : buf' = Insert(b, s, r, c, a, sz)
  BY <1>1
<1>12. s \in Slots(b.size) /\ InWindow(a, s, b.size)
  BY <1>3, <1>4, <1>7
<1>13. LiveOf(buf') = Abstract!Entered(LiveOf(b), c, a, sz)
  BY <1>2, <1>7, <1>9, <1>10, <1>11, <1>12, InsertLive
<1>14. Abstract!Entered(Abstract!Removed(LiveOf(t), a), c, a, sz)
         = Abstract!Entered(LiveOf(t), c, a, sz)
  BY DEF Abstract!Entered, Abstract!Removed, LiveOf
<1> QED BY <1>6, <1>8, <1>13, <1>14

(* acquire() that finds no hole changes no entry before the hash has grown. *)
LEMMA AcquireFullMaps ==
  ASSUME IInv, NEW c \in Counter, NEW a \in Address, NEW sz \in Sizes,
         AcquireFull(c, a, sz)
  PROVE  LiveOf(buf') = LiveOf(buf)
<1>1. BufferType(buf) /\ sz \in Nat /\ buf' = Tick(buf, c, sz)
  BY SizeAssumption DEF IInv, TypeOK, AcquireFull
<1> QED BY <1>1, TickFields, LiveFrame

(* After the hash has grown the resource that waited is entered. *)
LEMMA RetryInsertMaps ==
  ASSUME IInv, Zero \notin Address, RetryInsert
  PROVE  /\ req \in RequestType
         /\ LiveOf(buf') = Abstract!Entered(LiveOf(buf), req.counter, req.address, req.size)
<1> DEFINE s == FindResource(buf.table, buf.size, req.address)
<1>1. /\ pc = "retry" /\ s # Null
      /\ \E r \in NewRecord(buf) :
           buf' = Insert(buf, s, r, req.counter, req.address, req.size)
  BY DEF RetryInsert
<1>2. BufferType(buf) /\ BufferOK(buf) /\ RequestOK /\ req \in RequestType
  BY <1>1 DEF IInv, TypeOK, TableInv
<1>3. req.counter \in Counter /\ req.address \in Address /\ req.size \in Nat
  BY <1>2, SizeAssumption DEF RequestType
<1>4. At(buf, req.address) = {}
  BY <1>2 DEF RequestOK, At, Busy
<1>5. /\ s \in Slots(buf.size) /\ InWindow(req.address, s, buf.size)
      /\ ~ Occupied(buf, s)
  BY <1>1, <1>2, <1>3, <1>4, FindOK DEF BufferOK, At
<1> HIDE DEF s
<1>6. PICK r \in NewRecord(buf) :
        buf' = Insert(buf, s, r, req.counter, req.address, req.size)
  BY <1>1
<1> QED BY <1>2, <1>3, <1>4, <1>5, <1>6, InsertLive

(* release() of a known resource removes it. *)
LEMMA ReleaseMaps ==
  ASSUME IInv, Zero \notin Address, NEW a \in Address, Release(a)
  PROVE  LiveOf(buf') = Abstract!Removed(LiveOf(buf), a)
<1> DEFINE s == FindResource(buf.table, buf.size, a)
<1>1. /\ pc = "idle" /\ s # Null /\ Occupied(buf, s)
      /\ buf' = ReleaseResource(buf, s)
  BY DEF Release
<1>2. BufferType(buf) /\ BufferOK(buf)
  BY <1>1 DEF IInv, TypeOK, TableInv
<1>3. s \in At(buf, a)
  BY <1>1, <1>2, FindOK DEF BufferOK, At
<1> HIDE DEF s
<1> QED BY <1>1, <1>2, <1>3, ReleaseLive

(* release() of an unknown resource changes nothing. *)
LEMMA ReleaseUnknownMaps ==
  ASSUME IInv, Zero \notin Address, NEW a \in Address, ReleaseUnknown(a)
  PROVE  LiveOf(buf') = Abstract!Removed(LiveOf(buf), a)
<1> DEFINE s == FindResource(buf.table, buf.size, a)
<1>1. pc = "idle" /\ (s = Null \/ ~ Occupied(buf, s)) /\ buf' = buf
  BY DEF ReleaseUnknown, vars
<1>2. BufferType(buf) /\ BufferOK(buf)
  BY <1>1 DEF IInv, TypeOK, TableInv
<1>3. At(buf, a) = {}
  BY <1>1, <1>2, FindOK DEF BufferOK, At
<1>4. LiveOf(buf)[a] = Null
  BY <1>3, LiveUnknown
<1>5. LiveOf(buf) = Abstract!Removed(LiveOf(buf), a)
  BY <1>4 DEF Abstract!Removed, LiveOf
<1> QED BY <1>1, <1>5

(* A record whose resource moves to another slot stays the record it is. *)
LEMMA RehashPlaceMaps ==
  ASSUME IInv, Zero \notin Address, RehashPlace
  PROVE  LiveOf(buf') = LiveOf(buf)
<1> DEFINE e == buf.table[cursor]
           s == FindHole(newTable, newSize, e.resource)
<1>1. /\ pc = "rehash" /\ pc' = pc
      /\ buf' = [buf EXCEPT !.rec = [buf.rec EXCEPT ![e.record].hashslot = s]]
  BY DEF RehashPlace
<1>2. BufferType(buf) /\ SlotsOK(buf)
  BY <1>1, RehashFacts
<1>3. SlotsOK(buf')
  BY <1>1, RehashPlaceOK DEF IInv, TableInv
<1>4. /\ (buf').table = buf.table /\ (buf').size = buf.size
      /\ (buf').rec = [buf.rec EXCEPT ![e.record].hashslot = s]
  BY <1>1, <1>2 DEF BufferType
<1> HIDE DEF s, e
<1>5. \A r \in Record : Entry(buf', r) = Entry(buf, r)
  BY <1>2, <1>4 DEF BufferType, RecordType, Entry
<1>6. ASSUME NEW a \in Address PROVE LiveOf(buf')[a] = LiveOf(buf)[a]
  <2>1. At(buf', a) = At(buf, a)
    BY <1>4 DEF At, Busy, Occupied
  <2>2. \A t \in At(buf, a) : buf.table[t].record \in Record
    BY <1>2 DEF At, Busy, Occupied, BufferType, SlotType
  <2>3. \A t \in At(buf, a) : \E u \in At(buf', a) :
          Entry(buf', (buf').table[u].record) = Entry(buf, buf.table[t].record)
    BY <1>4, <1>5, <2>1, <2>2
  <2>4. At(buf, a) = {} => At(buf', a) = {}
    BY <2>1
  <2> QED BY <1>2, <1>3, <2>3, <2>4, SameLive
<1> QED BY <1>6 DEF LiveOf

(* The new table holds what the old one held. *)
LEMMA RehashDoneMaps ==
  ASSUME IInv, Zero \notin Address, RehashDone
  PROVE  LiveOf(buf') = LiveOf(buf)
<1>1. /\ pc = "rehash" /\ pc' = "retry" /\ cursor = buf.size
      /\ buf' = [buf EXCEPT !.table = newTable, !.size = newSize]
  BY DEF RehashDone
<1>2. BufferType(buf) /\ SlotsOK(buf) /\ RehashOK /\ buf.size \in Nat
  BY <1>1, RehashFacts
<1>3. SlotsOK(buf')
  BY <1>1, RehashDoneOK DEF IInv, TableInv, BufferOK
<1>4. /\ (buf').table = newTable /\ (buf').size = newSize /\ (buf').rec = buf.rec
  BY <1>1, <1>2 DEF BufferType
<1>5. \A t \in Busy(buf) : \E u \in Busy(buf') : newTable[u] = buf.table[t]
  BY <1>1, <1>2, <1>4 DEF RehashOK, Busy, Occupied, Slots
<1>6. \A u \in Busy(buf') : \E t \in Busy(buf) : buf.table[t] = newTable[u]
  BY <1>2, <1>4 DEF RehashOK, Busy, Occupied
<1>7. ASSUME NEW a \in Address PROVE LiveOf(buf')[a] = LiveOf(buf)[a]
  <2>1. \A t \in At(buf, a) : \E u \in At(buf', a) :
          Entry(buf', (buf').table[u].record) = Entry(buf, buf.table[t].record)
    BY <1>4, <1>5 DEF At, Entry
  <2>2. At(buf, a) = {} => At(buf', a) = {}
    BY <1>4, <1>6 DEF At
  <2> QED BY <1>2, <1>3, <2>1, <2>2, SameLive
<1> QED BY <1>7 DEF LiveOf

(* An empty buffer knows no resource. *)
LEMMA EmptyLive ==
  ASSUME NEW n \in Nat
  PROVE  LiveOf(EmptyBuffer(n)) = Abstract!Nothing
<1> DEFINE b == EmptyBuffer(n)
<1>1. b.size = n /\ b.table = EmptyTable(n)
  BY DEF EmptyBuffer
<1>2. Busy(b) = {}
  BY <1>1 DEF Busy, Occupied, EmptyTable, EmptySlot
<1>3. \A a \in Address : LiveOf(b)[a] = Null
  BY <1>2 DEF LiveOf
<1> QED BY <1>3 DEF Abstract!Nothing, LiveOf

(* The initial table is the empty map. *)
LEMMA InitMaps == HInit => Abstract!Init
  BY EmptyLive, SizeAssumption DEF HInit, Init, Abstract!Init

(* Every step of the table is a step of the map, or changes no entry. *)
LEMMA NextMaps ==
  ASSUME Zero \notin Address
  PROVE  IInv /\ [HNext]_<<vars, last>> => [Abstract!Next]_<<LiveOf(buf), last>>
<1> SUFFICES ASSUME IInv, [HNext]_<<vars, last>>
             PROVE  Abstract!Next \/ (LiveOf(buf') = LiveOf(buf) /\ last' = last)
  OBVIOUS
<1>1. ASSUME NEW c \in Counter, NEW a \in Address, NEW sz \in Sizes,
             AcquireNew(c, a, sz) \/ AcquireKnown(c, a, sz),
             last' = Abstract!Acquired(c, a, sz)
      PROVE  Abstract!Next
  <2>1. LiveOf(buf') = Abstract!Entered(LiveOf(buf), c, a, sz)
    BY <1>1, AcquireNewMaps, AcquireKnownMaps
  <2> QED BY <1>1, <2>1 DEF Abstract!Next, Abstract!Acquire
<1>2. ASSUME NEW c \in Counter, NEW a \in Address, NEW sz \in Sizes, AcquireFull(c, a, sz)
      PROVE  LiveOf(buf') = LiveOf(buf)
  BY <1>2, AcquireFullMaps
<1>3. RehashSkip \/ RehashRetry \/ RetryExpand => LiveOf(buf') = LiveOf(buf)
  BY DEF RehashSkip, RehashRetry, RetryExpand
<1>4. RehashPlace \/ RehashDone => LiveOf(buf') = LiveOf(buf)
  BY RehashPlaceMaps, RehashDoneMaps
<1>5. ASSUME RetryInsert, last' = Abstract!Acquired(req.counter, req.address, req.size)
      PROVE  Abstract!Next
  <2>1. /\ req.counter \in Counter /\ req.address \in Address /\ req.size \in Sizes
        /\ LiveOf(buf') = Abstract!Entered(LiveOf(buf), req.counter, req.address, req.size)
    BY <1>5, RetryInsertMaps DEF RequestType
  <2> QED BY <1>5, <2>1 DEF Abstract!Next, Abstract!Acquire
<1>6. ASSUME NEW a \in Address, Release(a) \/ ReleaseUnknown(a),
             last' = Abstract!Released(a)
      PROVE  Abstract!Next
  <2>1. LiveOf(buf') = Abstract!Removed(LiveOf(buf), a)
    BY <1>6, ReleaseMaps, ReleaseUnknownMaps
  <2> QED BY <1>6, <2>1 DEF Abstract!Next, Abstract!Release
<1>7. ASSUME Reset, last' = Abstract!Cleared PROVE Abstract!Next
  <2>1. buf' = EmptyBuffer(buf.size) /\ buf.size \in Nat
    BY <1>7 DEF Reset, IInv, TypeOK, BufferType
  <2> QED BY <1>7, <2>1, EmptyLive DEF Abstract!Next, Abstract!Reset
<1>8. UNCHANGED <<vars, last>> => LiveOf(buf') = LiveOf(buf) /\ last' = last
  BY DEF vars
<1> QED BY <1>1, <1>2, <1>3, <1>4, <1>5, <1>6, <1>7, <1>8 DEF HNext

(* As long as no profiler acquires the resource 0: whatever the hash function,
   the collisions and the growth of the table, every call of acquire(), release()
   and reset() does to the live resources what it does to a plain map. *)
THEOREM TableIsLiveMap ==
  ASSUME Zero \notin Address
  PROVE  HSpec => ImplementsLiveMap
<1>1. HInit => IInv /\ Abstract!Init
  BY InitOK, InitMaps DEF HInit
<1>2. IInv /\ [HNext]_<<vars, last>> => IInv'
  BY NextOK, HNextType
<1>3. IInv /\ [HNext]_<<vars, last>> => [Abstract!Next]_<<LiveOf(buf), last>>
  BY NextMaps
<1> QED BY <1>1, <1>2, <1>3, PTL DEF HSpec, ImplementsLiveMap, Abstract!Spec

===============================================================================

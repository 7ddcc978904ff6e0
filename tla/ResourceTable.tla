---------------------------- MODULE ResourceTable ----------------------------
(***************************************************************************)
(* The resource accounting of one trace buffer (IgProfTrace): the open     *)
(* addressed hash of live resources, the doubly linked list of resources   *)
(* of every counter, the free list of resource records, and the growth of  *)
(* the hash.                                                               *)
(*                                                                         *)
(* Every operation runs with the buffer locked, so an operation is one     *)
(* step, except that the growth of the hash is taken apart into the        *)
(* iterations of its loop.  The `&' masks of the code are `%' here: table  *)
(* sizes are powers of two.                                                *)
(***************************************************************************)
EXTENDS Integers, FiniteSets, Functions

CONSTANTS
  Address,    \* resource identities the profilers pass in
  Zero,       \* the value 0, which marks an empty hash slot
  Counter,    \* counters that own resources
  Record,     \* Resource records the memory pools can provide
  Sizes,      \* resource sizes
  Home,       \* Home[a] = hash(a, 8)
  MaxProbes,  \* MAX_HASH_PROBES
  InitSize,   \* slots of a new table, 1 << 20 in the code
  Unsigned,   \* 2^32: sizes are worked out in an unsigned, 1u << log
  Null        \* the null pointer

ASSUME NullAssumption == Null \notin Record \cup Counter \cup Nat
ASSUME HashAssumption == Home \in [Address \cup {Zero} -> Nat]
ASSUME ProbeAssumption == MaxProbes \in Nat \ {0}
ASSUME SizeAssumption == /\ Unsigned \in Nat
                         /\ InitSize \in 1 .. (Unsigned - 1)
                         /\ Sizes \subseteq Nat

VARIABLES
  buf,        \* the buffer: hash, records, free list, counters
  pc,         \* "idle"; "rehash" and "retry" inside acquire; "aborted"
  newTable,   \* expandResourceHash: the table being filled
  newSize,    \* expandResourceHash: its number of slots
  cursor,     \* expandResourceHash: next slot of the old table, i
  req         \* the acquire() that needs the larger table

vars == <<buf, pc, newTable, newSize, cursor, req>>

-----------------------------------------------------------------------------
(* Hash slots and probing *)

Slots(n) == 0 .. (n - 1)
EmptySlot == [resource |-> Zero, record |-> Null]
EmptyTable(n) == [s \in Slots(n) |-> EmptySlot]

(* The slots visited for resource a in a table of n slots, in order. *)
Window == 0 .. (MaxProbes - 1)
Probe(a, i, n) == (Home[a] + i) % n

Least(S) == CHOOSE i \in S : \A j \in S : i <= j

Hits(t, n, a) == {i \in Window : t[Probe(a, i, n)].resource = a}
Holes(t, n, a) == {i \in Window : t[Probe(a, i, n)].record = Null}

(* The first free slot of a's window, or Null. *)
FindHole(t, n, a) ==
  IF Holes(t, n, a) = {} THEN Null ELSE Probe(a, Least(Holes(t, n, a)), n)

(* Mutant: the search stops at the first free slot. *)
FindResource_StopsAtHole(t, n, a) ==
  LET ends == Hits(t, n, a) \cup Holes(t, n, a)
  IN  IF ends = {} THEN Null ELSE Probe(a, Least(ends), n)

(* The slot of a if its window has one, else the first free slot, else Null. *)
FindResource(t, n, a) ==
  IF Hits(t, n, a) = {} THEN FindHole(t, n, a)
                        ELSE Probe(a, Least(Hits(t, n, a)), n)

-----------------------------------------------------------------------------
(* Operations on the buffer.  b.alloc are the records carved from the pool. *)

FreedRecord(next) ==
  [hashslot |-> Null, prev |-> Null, next |-> next, counter |-> Null, size |-> 0]

EmptyBuffer(n) ==
  [table   |-> EmptyTable(n),
   size    |-> n,
   used    |-> 0,
   rec     |-> [r \in Record |-> FreedRecord(Null)],
   resfree |-> Null,
   alloc   |-> {},
   ctr     |-> [c \in Counter |->
                 [ticks |-> 0, value |-> 0, peak |-> 0, resources |-> Null]]]

(* tick() of a TICK counter by sz and one tick, before the acquire(). *)
Tick(b, c, sz) ==
  LET y == b.ctr[c]
      v == y.value + sz
  IN  [b EXCEPT !.ctr[c] =
         [ticks |-> y.ticks + 1, value |-> v,
          peak |-> IF v > y.peak THEN v ELSE y.peak,
          resources |-> y.resources]]

(* Mutant: the resource's ticks stay on the counter. *)
ReleaseResource_KeepsTicks(b, s) ==
  LET r == b.table[s].record
      x == b.rec[r]
      y == b.ctr[x.counter]
  IN  [b EXCEPT
        !.ctr[x.counter] =
           [ticks |-> y.ticks, value |-> y.value - x.size, peak |-> y.peak,
            resources |-> IF x.prev = Null THEN x.next ELSE y.resources],
        !.table[s] = EmptySlot,
        !.rec = [q \in Record |->
                  IF q = r THEN FreedRecord(b.resfree)
                  ELSE [b.rec[q] EXCEPT
                         !.next = IF q = x.prev THEN x.next ELSE @,
                         !.prev = IF q = x.next THEN x.prev ELSE @]],
        !.resfree = r,
        !.used = @ - 1]

(* Mutant: next->prevlive is not updated. *)
ReleaseResource_KeepsPrev(b, s) ==
  LET r == b.table[s].record
      x == b.rec[r]
      y == b.ctr[x.counter]
  IN  [b EXCEPT
        !.ctr[x.counter] =
           [ticks |-> y.ticks - 1, value |-> y.value - x.size, peak |-> y.peak,
            resources |-> IF x.prev = Null THEN x.next ELSE y.resources],
        !.table[s] = EmptySlot,
        !.rec = [q \in Record |->
                  IF q = r THEN FreedRecord(b.resfree)
                  ELSE [b.rec[q] EXCEPT
                         !.next = IF q = x.prev THEN x.next ELSE @]],
        !.resfree = r,
        !.used = @ - 1]

(* Deduct the resource in slot s from its counter, unlink it, free both. *)
ReleaseResource(b, s) ==
  LET r == b.table[s].record
      x == b.rec[r]
      y == b.ctr[x.counter]
  IN  [b EXCEPT
        !.ctr[x.counter] =
           [ticks |-> y.ticks - 1, value |-> y.value - x.size, peak |-> y.peak,
            resources |-> IF x.prev = Null THEN x.next ELSE y.resources],
        !.table[s] = EmptySlot,
        !.rec = [q \in Record |->
                  IF q = r THEN FreedRecord(b.resfree)
                  ELSE [b.rec[q] EXCEPT
                         !.next = IF q = x.prev THEN x.next ELSE @,
                         !.prev = IF q = x.next THEN x.prev ELSE @]],
        !.resfree = r,
        !.used = @ - 1]

(* The records acquire() may take: the free list's head, else a new one. *)
NewRecord(b) ==
  IF b.resfree # Null THEN {b.resfree} ELSE Record \ b.alloc

(* Mutant: the new record does not link to the old head of the list. *)
Insert_CutsList(b, s, r, c, a, sz) ==
  [b EXCEPT
    !.resfree = IF @ = r THEN b.rec[r].next ELSE @,
    !.alloc = @ \cup {r},
    !.table[s] = [resource |-> a, record |-> r],
    !.rec[r] = [hashslot |-> s, prev |-> Null, next |-> Null,
                counter |-> c, size |-> sz],
    !.ctr[c].resources = r,
    !.used = @ + 1]

(* Enter resource a into slot s and at the head of the list of c. *)
Insert(b, s, r, c, a, sz) ==
  LET head == b.ctr[c].resources
  IN  [b EXCEPT
        !.resfree = IF @ = r THEN b.rec[r].next ELSE @,
        !.alloc = @ \cup {r},
        !.table[s] = [resource |-> a, record |-> r],
        !.rec = [q \in Record |->
                  IF q = r THEN [hashslot |-> s, prev |-> Null, next |-> head,
                                 counter |-> c, size |-> sz]
                  ELSE [b.rec[q] EXCEPT !.prev = IF q = head THEN r ELSE @]],
        !.ctr[c].resources = r,
        !.used = @ + 1]

Occupied(b, s) == b.table[s].record # Null

-----------------------------------------------------------------------------
NoRequest == [counter |-> Null, address |-> Zero, size |-> 0]

Init ==
  /\ buf = EmptyBuffer(InitSize)
  /\ pc = "idle"
  /\ newTable = <<>>
  /\ newSize = 0
  /\ cursor = 0
  /\ req = NoRequest

Growth == <<pc, newTable, newSize, cursor, req>>

(* tick() and acquire() of a resource whose window has a free slot *)
AcquireNew(c, a, sz) ==
  LET b == Tick(buf, c, sz)
      s == FindResource(b.table, b.size, a)
  IN  /\ pc = "idle"
      /\ s # Null
      /\ ~ Occupied(b, s)
      /\ \E r \in NewRecord(b) : buf' = Insert(b, s, r, c, a, sz)
      /\ UNCHANGED Growth

(* ... of a resource still known: its release was missed, so release it now
   and enter the new one into the same slot *)
AcquireKnown(c, a, sz) ==
  LET s == FindResource(buf.table, buf.size, a)
      b == ReleaseResource(Tick(buf, c, sz), s)
  IN  /\ pc = "idle"
      /\ s # Null
      /\ Occupied(buf, s)
      /\ \E r \in NewRecord(b) : buf' = Insert(b, s, r, c, a, sz)
      /\ UNCHANGED Growth

(* The size after n, 1u << newLogSize with two added to the logarithm.  A shift by
   the width of an unsigned or more is undefined: on x86 and AArch64 it goes
   round, on ARM nothing is left. *)
Grown(n) == IF 4 * n < Unsigned THEN {4 * n} ELSE {(4 * n) \div Unsigned, 0}

(* Mutant: a failed allocation goes unnoticed. *)
Expand_Unchecked(n) ==
  \E size \in Grown(n), mapped \in BOOLEAN :
    /\ size = 0 => ~ mapped
    /\ pc' = "rehash"
    /\ newSize' = size
    /\ newTable' = IF mapped THEN EmptyTable(size) ELSE <<>>
    /\ cursor' = 0

(* expandResourceHash from TRY_AGAIN, with a table larger than n; mmap may fail,
   and does for no bytes, and then allocateRaw ends the program *)
Expand(n) ==
  \E size \in Grown(n), mapped \in BOOLEAN :
    /\ size = 0 => ~ mapped
    /\ pc' = IF mapped THEN "rehash" ELSE "aborted"
    /\ newSize' = size
    /\ newTable' = IF mapped THEN EmptyTable(size) ELSE <<>>
    /\ cursor' = 0

(* ... of a resource whose window is full *)
AcquireFull(c, a, sz) ==
  /\ pc = "idle"
  /\ FindResource(buf.table, buf.size, a) = Null
  /\ buf' = Tick(buf, c, sz)
  /\ req' = [counter |-> c, address |-> a, size |-> sz]
  /\ Expand(buf.size)

RehashSkip ==
  /\ pc = "rehash"
  /\ cursor < buf.size
  /\ ~ Occupied(buf, cursor)
  /\ cursor' = cursor + 1
  /\ UNCHANGED <<buf, pc, newTable, newSize, req>>

RehashPlace ==
  LET e == buf.table[cursor]
      s == FindHole(newTable, newSize, e.resource)
  IN  /\ pc = "rehash"
      /\ cursor < buf.size
      /\ Occupied(buf, cursor)
      /\ s # Null
      /\ newTable' = [newTable EXCEPT ![s] = e]
      /\ buf' = [buf EXCEPT !.rec[e.record].hashslot = s]
      /\ cursor' = cursor + 1
      /\ UNCHANGED <<pc, newSize, req>>

(* Mutant: every attempt starts from the old size. *)
RehashRetry_SameSize ==
  /\ pc = "rehash"
  /\ cursor < buf.size
  /\ Occupied(buf, cursor)
  /\ FindHole(newTable, newSize, buf.table[cursor].resource) = Null
  /\ Expand(buf.size)
  /\ UNCHANGED <<buf, req>>

(* the window is full in the new table as well: TRY_AGAIN *)
RehashRetry ==
  /\ pc = "rehash"
  /\ cursor < buf.size
  /\ Occupied(buf, cursor)
  /\ FindHole(newTable, newSize, buf.table[cursor].resource) = Null
  /\ Expand(newSize)
  /\ UNCHANGED <<buf, req>>

(* all moved: swap the tables *)
RehashDone ==
  /\ pc = "rehash"
  /\ cursor = buf.size
  /\ buf' = [buf EXCEPT !.table = newTable, !.size = newSize]
  /\ pc' = "retry"
  /\ newTable' = <<>>
  /\ newSize' = 0
  /\ cursor' = 0
  /\ UNCHANGED req

(* acquire() searches again and inserts, or expands again *)
RetryInsert ==
  LET s == FindResource(buf.table, buf.size, req.address)
  IN  /\ pc = "retry"
      /\ s # Null
      /\ \E r \in NewRecord(buf) :
           buf' = Insert(buf, s, r, req.counter, req.address, req.size)
      /\ pc' = "idle"
      /\ req' = NoRequest
      /\ UNCHANGED <<newTable, newSize, cursor>>

RetryExpand ==
  /\ pc = "retry"
  /\ FindResource(buf.table, buf.size, req.address) = Null
  /\ Expand(buf.size)
  /\ UNCHANGED <<buf, req>>

(* release() of a known resource; an unknown one is ignored, a stutter *)
Release(a) ==
  LET s == FindResource(buf.table, buf.size, a)
  IN  /\ pc = "idle"
      /\ s # Null
      /\ Occupied(buf, s)
      /\ buf' = ReleaseResource(buf, s)
      /\ UNCHANGED Growth

(* reset() keeps the grown table but clears it *)
Reset ==
  /\ pc = "idle"
  /\ buf' = EmptyBuffer(buf.size)
  /\ UNCHANGED Growth

Growing == \/ RehashSkip \/ RehashPlace \/ RehashRetry \/ RehashDone
           \/ RetryInsert \/ RetryExpand

Next ==
  \/ \E c \in Counter, a \in Address, sz \in Sizes :
       \/ AcquireNew(c, a, sz)
       \/ AcquireKnown(c, a, sz)
       \/ AcquireFull(c, a, sz)
  \/ Growing
  \/ \E a \in Address : Release(a)
  \/ Reset

Spec == Init /\ [][Next]_vars

(* acquire() is straight-line code: once begun it runs to its end *)
FairSpec == Spec /\ WF_vars(Growing)

-----------------------------------------------------------------------------
(* Type invariant *)

SlotType == [resource : Address \cup {Zero}, record : Record \cup {Null}]
RecordType == [hashslot : Nat \cup {Null},
               prev : Record \cup {Null}, next : Record \cup {Null},
               counter : Counter \cup {Null}, size : Nat]
CounterType == [ticks : Int, value : Int, peak : Int,
                resources : Record \cup {Null}]
RequestType == [counter : Counter, address : Address, size : Sizes]

BufferType(b) ==
  /\ b = [table |-> b.table, size |-> b.size, used |-> b.used, rec |-> b.rec,
          resfree |-> b.resfree, alloc |-> b.alloc, ctr |-> b.ctr]
  /\ b.size \in Nat \ {0}
  /\ b.table \in [Slots(b.size) -> SlotType]
  /\ b.used \in Int
  /\ b.rec \in [Record -> RecordType]
  /\ b.resfree \in Record \cup {Null}
  /\ b.alloc \in SUBSET Record
  /\ b.ctr \in [Counter -> CounterType]

(* Every pointer of the buffer, of the growing table and of the interrupted
   acquire() has its type: the structs of profile-trace.h:105-192. *)
TypeOK ==
  /\ BufferType(buf)
  /\ pc \in {"idle", "rehash", "retry", "aborted"}
  /\ newSize \in Nat
  /\ cursor \in Nat
  /\ pc = "rehash" => /\ newSize \in Nat \ {0}
                      /\ newTable \in [Slots(newSize) -> SlotType]
                      /\ cursor \in 0 .. buf.size
  /\ pc # "idle" => req \in RequestType
  /\ pc = "idle" => req = NoRequest

-----------------------------------------------------------------------------
(* The inductive invariant *)

Live(b, r) == b.rec[r].counter # Null
Busy(b) == {s \in Slots(b.size) : Occupied(b, s)}

(* A slot is either empty or holds an allocated, live record, and no two
   slots hold the same resource or record. *)
SlotsOK(b) ==
  /\ \A s \in Slots(b.size) :
       (b.table[s].record = Null) <=> (b.table[s].resource = Zero)
  /\ \A s \in Busy(b) : Live(b, b.table[s].record)
  /\ \A s, t \in Busy(b) :
       \/ b.table[s].resource = b.table[t].resource
       \/ b.table[s].record = b.table[t].record
       => s = t

InWindow(a, s, n) == \E i \in Window : s = Probe(a, i, n)

(* A resource lies in its probe window, where findResource looks for it. *)
WindowOK(b) ==
  \A s \in Busy(b) : InWindow(b.table[s].resource, s, b.size)

(* A live record points back to the hash slot that points to it. *)
BackOK(b) ==
  \A r \in Record : Live(b, r) =>
    /\ b.rec[r].hashslot \in Slots(b.size)
    /\ b.table[b.rec[r].hashslot].record = r

(* During a rehash the back pointers move to the new table one by one, so
   only the other direction is left: each live record has a slot. *)
CoveredOK(b) ==
  \A r \in Record : Live(b, r) =>
    \E s \in Slots(b.size) : b.table[s].record = r

(* The lists of the counters: next and prev are inverse, stay within one
   counter, and the head is the record without a predecessor. *)
ChainOK(b) ==
  /\ \A r \in Record : Live(b, r) =>
       LET x == b.rec[r] IN
       /\ (x.prev = Null) <=> (b.ctr[x.counter].resources = r)
       /\ x.prev # Null => /\ b.rec[x.prev].counter = x.counter
                           /\ b.rec[x.prev].next = r
       /\ x.next # Null => /\ b.rec[x.next].counter = x.counter
                           /\ b.rec[x.next].prev = r
  /\ \A c \in Counter : b.ctr[c].resources # Null =>
       b.rec[b.ctr[c].resources].counter = c

Free(b, r) == r \in b.alloc /\ ~ Live(b, r)

(* The free list: only free records, and nobody points to its head or to a
   record another one points to. *)
FreeOK(b) ==
  /\ \A r \in Record : Live(b, r) => r \in b.alloc
  /\ b.resfree # Null => Free(b, b.resfree)
  /\ \A r \in Record : Free(b, r) /\ b.rec[r].next # Null =>
       /\ Free(b, b.rec[r].next)
       /\ b.rec[r].next # b.resfree
       /\ \A q \in Record : Free(b, q) /\ b.rec[q].next = b.rec[r].next => q = r

(* The structure of the buffer between two operations. *)
BufferOK(b) ==
  /\ SlotsOK(b) /\ WindowOK(b) /\ BackOK(b) /\ ChainOK(b) /\ FreeOK(b)

(* While growing: each entry of the new table is an entry the cursor has
   passed, in its window, with the back pointer set; none is lost. *)
RehashOK ==
  LET moved == {s \in Slots(newSize) : newTable[s].record # Null} IN
  /\ \A s \in Slots(newSize) : newTable[s].record = Null =>
       newTable[s].resource = Zero
  /\ \A s \in moved :
       /\ InWindow(newTable[s].resource, s, newSize)
       /\ buf.rec[newTable[s].record].hashslot = s
       /\ \E t \in Slots(buf.size) : t < cursor /\ buf.table[t] = newTable[s]
  /\ \A t \in Slots(buf.size) : t < cursor /\ Occupied(buf, t) =>
       \E s \in moved : newTable[s] = buf.table[t]

(* The resource of an interrupted acquire() is not in the table. *)
RequestOK ==
  \A s \in Slots(buf.size) :
    Occupied(buf, s) => buf.table[s].resource # req.address

(* The hash, the lists of all counters and the free list agree with one
   another after every operation and at every point of a growth of the
   hash (the comment at profile-trace.h:153-175). *)
TableInv ==
  /\ pc \in {"idle", "retry"} => BufferOK(buf)
  /\ pc = "rehash" => /\ SlotsOK(buf) /\ WindowOK(buf) /\ CoveredOK(buf)
                      /\ ChainOK(buf) /\ FreeOK(buf)
                      /\ RehashOK
  /\ pc \in {"rehash", "retry"} => RequestOK

-----------------------------------------------------------------------------
(* What the structure is for *)

(* The records met from r on by following next, in at most as many steps as
   there are records. *)
Chain(b, r) ==
  LET most == Cardinality(b.alloc)
      reach[n \in 0 .. most] ==
        IF n = 0 THEN {r} \ {Null}
        ELSE reach[n - 1] \cup ({b.rec[q].next : q \in reach[n - 1]} \ {Null})
  IN  reach[most]

(* No record is lost: walking a counter's list meets exactly the live records
   of that counter (the dump and mergeFrom report leaks this way), and
   walking the free list meets exactly the free ones. *)
ListsComplete ==
  pc # "aborted" =>
    /\ \A c \in Counter : Chain(buf, buf.ctr[c].resources) =
                            {r \in Record : buf.rec[r].counter = c}
    /\ Chain(buf, buf.resfree) = {r \in Record : Free(buf, r)}

(* A counter's value is the total size of its live resources and its ticks
   their number, so that no release can drive either below zero; an acquire()
   that still grows the hash has already ticked (the ASSERTs at
   profile-trace.h:374-375 and the live counters of the dump). *)
Accounting ==
  \A c \in Counter :
    LET mine == {r \in Record : buf.rec[r].counter = c}
        pending == pc # "idle" /\ req.counter = c
        size == [r \in Record |-> buf.rec[r].size]
    IN  /\ buf.ctr[c].value =
             SumFunctionOnSet(size, mine) + (IF pending THEN req.size ELSE 0)
        /\ buf.ctr[c].ticks = Cardinality(mine) + (IF pending THEN 1 ELSE 0)
        /\ buf.ctr[c].peak >= buf.ctr[c].value

(* Growing the hash ends: with room, or without memory; or the size goes round,
   and a table is tried that is not larger than the old one.  From there on it may
   go on for ever, through the same sizes again. *)
GrowthEnds ==
  (pc \in {"rehash", "retry"}) ~>
    (pc \in {"idle", "aborted"} \/ (pc = "rehash" /\ newSize <= buf.size))
=============================================================================

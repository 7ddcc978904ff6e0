------------------------------ MODULE StackTree ------------------------------
(***************************************************************************)
(* The call trees of the trace buffers (IgProfTrace): push() with its call *)
(* cache, childStackNode(), tick(), and mergeFrom() which folds the buffer *)
(* of a finished thread into the master buffer.                            *)
(*                                                                         *)
(* A tree node is named by its path of call addresses, outermost first;    *)
(* the root is <<>>.  Pushed stacks are written outermost first too, the   *)
(* order in which push() walks them.  Every operation runs with its        *)
(* buffers locked; the loops of push(), of the tick() calls and the        *)
(* recursion of mergeFrom() are taken apart into their iterations.         *)
(***************************************************************************)
EXTENDS Integers, Sequences, FiniteSets, FiniteSetsExt, Functions

CONSTANTS
  Address,      \* instruction addresses of stack frames
  Buffer,       \* trace buffers
  Master,       \* the buffer the others are merged into
  Stacks,       \* stacks a sample may push; 0 is a null address
  Profilers,    \* profilers, one of which is active: the counters a sample
                \* ticks, the amounts, and whether threads have own buffers
  MaxDefs,      \* counters of type MAX, the others are of type TICK
  MaxDepth,     \* MAX_DEPTH
  MaxCounters,  \* MAX_COUNTERS
  MaxSamples    \* bound on the number of samples between two resets

ASSUME AddressAssumption == Address \subseteq Nat \ {0}
ASSUME MasterAssumption == Master \in Buffer /\ IsFiniteSet(Buffer)
ASSUME StackAssumption ==
  Stacks \subseteq Seq(Address \cup {0}) /\ IsFiniteSet(Stacks)
ASSUME LimitAssumption == MaxDepth \in Nat /\ MaxCounters \in Nat
ASSUME ProfilerAssumption ==
  \A p \in Profilers :
    /\ p.counters \in Seq({p.counters[i] : i \in DOMAIN p.counters})
    /\ \A i, j \in DOMAIN p.counters : p.counters[i] = p.counters[j] => i = j
    /\ p.amounts \subseteq Nat /\ p.perThread \in BOOLEAN

VARIABLES
  profiler, \* the profiler of this process; igprof_init refuses a second
  kids,    \* kids[b][n]: addresses of the children of node n, in list order
  ctrs,    \* ctrs[b][n]: the counters of node n, in order
  cache,   \* cache[b][i]: callcache_ of buffer b
  call,    \* the push() and tick()s in progress
  src,     \* the buffer being merged into Master, or none
  todo,    \* mergeFrom: nodes of src still to be merged, next one first
  failed,  \* has tick() found no room for a counter?
  cost,    \* history: what the samples since the last reset should add up to
  longest, \* history: length of the longest stack pushed into each buffer
  shrunk   \* history: buffers that had a shorter push after a longer one

vars == <<profiler, kids, ctrs, cache, call, src, todo, failed, cost, longest, shrunk>>
tree == <<kids, ctrs, cache>>
merge == <<src, todo>>
history == <<cost, longest, shrunk>>

-----------------------------------------------------------------------------
(* The tree *)

Root == <<>>
NoEntry == [address |-> 0, frame |-> Root]
EmptyKids == [n \in {Root} |-> <<>>]
EmptyCtrs == [n \in {Root} |-> <<>>]
EmptyCache == [i \in 0 .. (MaxDepth - 1) |-> NoEntry]
NoBuffer == "none"
NoCall == [active |-> FALSE, buf |-> Master, stack |-> <<>>, i |-> 0,
           valid |-> TRUE, frame |-> Root, ticks |-> <<>>]

Nodes(b) == DOMAIN kids[b]
Elems(s) == {s[i] : i \in 1 .. Len(s)}

(* Where the search of a child list for address a ends: at the first address
   not below a, or behind the last one. *)
Place(s, a) == LET stops == {i \in 1 .. Len(s) : s[i] >= a}
               IN  IF stops = {} THEN Len(s) + 1
                   ELSE CHOOSE i \in stops : \A j \in stops : i <= j

Known(s, a) == Place(s, a) <= Len(s) /\ s[Place(s, a)] = a

(* The child list s with a linked in at its place. *)
Linked(s, a) ==
  LET p == Place(s, a)
  IN  [i \in 1 .. (Len(s) + 1) |->
         IF i < p THEN s[i] ELSE IF i = p THEN a ELSE s[i - 1]]

(* The child lists t with a new child of node f. *)
Grown(t, f, a) ==
  [n \in DOMAIN t \cup {Append(f, a)} |->
     IF n = f THEN Linked(t[f], a) ELSE IF n \in DOMAIN t THEN t[n] ELSE <<>>]

(* childStackNode: find the child of node f called at a, or create it. *)
ChildStackNode(b, f, a) ==
  LET new == Append(f, a)
  IN  IF Known(kids[b][f], a) THEN UNCHANGED <<kids, ctrs>>
      ELSE /\ kids' = [kids EXCEPT ![b] = Grown(@, f, a)]
           /\ ctrs' = [ctrs EXCEPT ![b] =
                         [n \in Nodes(b) \cup {new} |->
                            IF n = new THEN <<>> ELSE ctrs[b][n]]]

-----------------------------------------------------------------------------
(* Counters *)

NewCounter(d) == [def |-> d, ticks |-> 0, value |-> 0, peak |-> 0]

Places(cs, d) == {i \in 1 .. Len(cs) : cs[i].def = d}

(* Mutant: one counter too many. *)
Roomy_OffByOne(cs, d) == Places(cs, d) # {} \/ Len(cs) <= MaxCounters

(* tick() finds counter d, or a free place for it. *)
Roomy(cs, d) == Places(cs, d) # {} \/ Len(cs) < MaxCounters

(* Mutant: the type of the counter is not looked at. *)
Raised_Cumulates(c, amount, ticks) ==
  LET v == c.value + amount
  IN  [c EXCEPT !.value = v, !.peak = IF v > @ THEN v ELSE @,
                !.ticks = @ + ticks]

(* A counter raised by amount and ticks, by its type. *)
Raised(c, amount, ticks) ==
  LET v == c.value + amount
  IN  IF c.def \in MaxDefs
      THEN [c EXCEPT !.value = IF @ < amount THEN amount ELSE @,
                     !.ticks = @ + ticks]
      ELSE [c EXCEPT !.value = v, !.peak = IF v > @ THEN v ELSE @,
                     !.ticks = @ + ticks]

(* tick(): the counters cs of a frame with counter d, made if necessary,
   raised.  The code is given no room for it only if Roomy is false. *)
Tick(cs, d, amount, ticks) ==
  IF Places(cs, d) = {}
  THEN Append(cs, Raised(NewCounter(d), amount, ticks))
  ELSE [i \in 1 .. Len(cs) |->
          IF cs[i].def = d THEN Raised(cs[i], amount, ticks) ELSE cs[i]]

(* Mutant: a merged counter counts as one tick. *)
Merged_OneTick(cs, c) ==
  LET here == IF c.ticks = 0 THEN cs ELSE Tick(cs, c.def, c.value, 1)
  IN  IF c.def \notin MaxDefs /\ c.peak > c.value
      THEN Tick(here, c.def, c.peak - c.value, 0) ELSE here

(* What one counter of a merged or sampled frame adds to the counters cs.
   Only per-thread buffers are merged; they hold no resources. *)
Merged(cs, c) ==
  LET here == IF c.ticks = 0 THEN cs ELSE Tick(cs, c.def, c.value, c.ticks)
  IN  IF c.def \notin MaxDefs /\ c.peak > c.value
      THEN Tick(here, c.def, c.peak - c.value, 0) ELSE here

(* A sample ticks every counter once by the amount. *)
SampleTicks(amount) ==
  [i \in 1 .. Len(profiler.counters) |->
     [def |-> profiler.counters[i], ticks |-> 1, value |-> amount, peak |-> 0]]

-----------------------------------------------------------------------------
(* History *)

(* The part of a stack that push() looks at. *)
Effective(s) ==
  LET stops == {i \in 0 .. Len(s) :
                  i = Len(s) \/ i = MaxDepth \/ s[i + 1] = 0}
  IN  SubSeq(s, 1, Min(stops))

Paths == {Effective(s) : s \in Stacks}
NoCost == [n \in Paths |-> [ticks |-> 0, value |-> 0, largest |-> 0]]
Samples == MapThenSumSet(LAMBDA n : cost[n].ticks, Paths)

-----------------------------------------------------------------------------
Init ==
  /\ profiler \in Profilers
  /\ kids = [b \in Buffer |-> EmptyKids]
  /\ ctrs = [b \in Buffer |-> EmptyCtrs]
  /\ cache = [b \in Buffer |-> EmptyCache]
  /\ call = NoCall
  /\ src = NoBuffer
  /\ todo = <<>>
  /\ failed = FALSE
  /\ cost = NoCost
  /\ longest = [b \in Buffer |-> 0]
  /\ shrunk = {}

AtRest == ~ call.active /\ src = NoBuffer /\ ~ failed

Begin(b, stack, ticks) ==
  /\ call' = [active |-> TRUE, buf |-> b, stack |-> stack, i |-> 0,
              valid |-> TRUE, frame |-> Root, ticks |-> ticks]
  /\ longest' = [longest EXCEPT ![b] = Max({@, Len(Effective(stack))})]
  /\ shrunk' = IF Len(Effective(stack)) < longest[b] THEN shrunk \cup {b}
                                                     ELSE shrunk

(* A profiler samples a stack into the buffer of its thread. *)
Sample(b, stack, amount) ==
  LET n == Effective(stack)
  IN  /\ AtRest
      /\ profiler.perThread <=> b # Master
      /\ Samples < MaxSamples
      /\ Begin(b, stack, SampleTicks(amount))
      /\ cost' = [cost EXCEPT ![n] =
                    [ticks |-> @.ticks + 1, value |-> @.value + amount,
                     largest |-> Max({@.largest, amount})]]
      /\ UNCHANGED <<profiler, tree, merge, failed>>

Walking == /\ call.active
           /\ call.i < Len(call.stack)
           /\ call.i < MaxDepth
           /\ call.stack[call.i + 1] # 0

Cached == call.valid /\ cache[call.buf][call.i].address = call.stack[call.i + 1]

(* push(): the call cache knows the frame *)
PushHit ==
  /\ Walking
  /\ Cached
  /\ call' = [call EXCEPT !.frame = cache[call.buf][call.i].frame,
                          !.i = @ + 1]
  /\ UNCHANGED <<profiler, tree, merge, failed, history>>

(* Mutant: the rest of the cache still counts as valid after a miss. *)
PushMiss_StaysValid ==
  LET a == call.stack[call.i + 1]
      new == Append(call.frame, a)
  IN  /\ Walking
      /\ ~ Cached
      /\ ChildStackNode(call.buf, call.frame, a)
      /\ cache' = [cache EXCEPT ![call.buf][call.i] =
                     [address |-> a, frame |-> new]]
      /\ call' = [call EXCEPT !.frame = new, !.i = @ + 1]
      /\ UNCHANGED <<profiler, merge, failed, history>>

(* push(): look the frame up among the children, and cache it *)
PushMiss ==
  LET a == call.stack[call.i + 1]
      new == Append(call.frame, a)
  IN  /\ Walking
      /\ ~ Cached
      /\ ChildStackNode(call.buf, call.frame, a)
      /\ cache' = [cache EXCEPT ![call.buf][call.i] =
                     [address |-> a, frame |-> new]]
      /\ call' = [call EXCEPT !.frame = new, !.i = @ + 1, !.valid = FALSE]
      /\ UNCHANGED <<profiler, merge, failed, history>>

Pushed == call.active /\ ~ Walking
Here == ctrs[call.buf][call.frame]

(* the frame is found; the caller ticks one counter after the other *)
TickFrame ==
  /\ Pushed
  /\ ~ failed
  /\ call.ticks # <<>>
  /\ Roomy(Here, Head(call.ticks).def)
  /\ ctrs' = [ctrs EXCEPT ![call.buf][call.frame] =
                Merged(Here, Head(call.ticks))]
  /\ call' = [call EXCEPT !.ticks = Tail(@)]
  /\ UNCHANGED <<profiler, kids, cache, merge, failed, history>>

(* a frame has no room for another counter: tick() goes through a null
   pointer, or stops at ASSERT(c) *)
TickFails ==
  /\ Pushed
  /\ ~ failed
  /\ call.ticks # <<>>
  /\ ~ Roomy(Here, Head(call.ticks).def)
  /\ failed' = TRUE
  /\ UNCHANGED <<profiler, tree, call, merge, history>>

Return ==
  /\ Pushed
  /\ call.ticks = <<>>
  /\ call' = NoCall
  /\ UNCHANGED <<profiler, tree, merge, failed, history>>

(* A thread exits: disposeTraceBuffer merges its buffer into Master. *)
MergeBegin(b) ==
  /\ AtRest
  /\ b # Master
  /\ src' = b
  /\ todo' = <<Root>>
  /\ UNCHANGED <<profiler, tree, call, failed, history>>

(* mergeFrom of one frame: push its path, tick its counters, then recurse
   into its children *)
MergeFrame ==
  LET n == Head(todo)
      ks == kids[src][n]
  IN  /\ src # NoBuffer
      /\ ~ call.active
      /\ todo # <<>>
      /\ Begin(Master, n, ctrs[src][n])
      /\ todo' = [i \in 1 .. Len(ks) |-> Append(n, ks[i])] \o Tail(todo)
      /\ UNCHANGED <<profiler, tree, src, failed, cost>>

(* Mutant: a reset leaves the call cache alone. *)
Emptied_KeepsCache(B) ==
  /\ kids' = [b \in Buffer |-> IF b \in B THEN EmptyKids ELSE kids[b]]
  /\ ctrs' = [b \in Buffer |-> IF b \in B THEN EmptyCtrs ELSE ctrs[b]]
  /\ longest' = [b \in Buffer |-> IF b \in B THEN 0 ELSE longest[b]]
  /\ UNCHANGED cache

(* The buffers in B start over with a root frame and a zeroed cache. *)
Emptied(B) ==
  /\ kids' = [b \in Buffer |-> IF b \in B THEN EmptyKids ELSE kids[b]]
  /\ ctrs' = [b \in Buffer |-> IF b \in B THEN EmptyCtrs ELSE ctrs[b]]
  /\ cache' = [b \in Buffer |-> IF b \in B THEN EmptyCache ELSE cache[b]]
  /\ longest' = [b \in Buffer |-> IF b \in B THEN 0 ELSE longest[b]]

(* the merged buffer is deleted; a later thread gets a new one *)
MergeEnd ==
  /\ src # NoBuffer
  /\ ~ call.active
  /\ todo = <<>>
  /\ Emptied({src})
  /\ src' = NoBuffer
  /\ UNCHANGED <<profiler, call, todo, failed, cost, shrunk>>

(* igprof_reset_profiles: every buffer starts over *)
Reset ==
  /\ AtRest
  /\ Emptied(Buffer)
  /\ cost' = NoCost
  /\ shrunk' = {}
  /\ UNCHANGED <<profiler, call, merge, failed>>

Next ==
  \/ \E b \in Buffer, s \in Stacks, v \in profiler.amounts : Sample(b, s, v)
  \/ PushHit \/ PushMiss
  \/ TickFrame \/ TickFails \/ Return
  \/ \E b \in Buffer : MergeBegin(b)
  \/ MergeFrame \/ MergeEnd
  \/ Reset

Spec == Init /\ [][Next]_vars

-----------------------------------------------------------------------------
(* Properties *)

Defs == Elems(profiler.counters)
CounterValue == [def : Defs, ticks : Nat, value : Nat, peak : Nat]

(* tick: the counters of a node are of different kinds, at most MaxCounters,
   so a search by definition finds the one counter there is. *)
CountersDistinct ==
  \A b \in Buffer : \A n \in Nodes(b) :
    LET cs == ctrs[b][n]
    IN  /\ Len(cs) <= MaxCounters
        /\ \A i, j \in 1 .. Len(cs) : cs[i].def = cs[j].def => i = j

(* Types: paths of addresses, at most MaxCounters counters of the sampled
   kinds in a node and no two of a kind, and a call that stands in a node of
   its buffer. *)
TypeOK ==
  /\ \A b \in Buffer :
       /\ Nodes(b) \subseteq Seq(Address) /\ DOMAIN ctrs[b] = Nodes(b)
       /\ \A n \in Nodes(b) : /\ kids[b][n] \in Seq(Address)
                              /\ ctrs[b][n] \in Seq(CounterValue)
       /\ cache[b] \in [0 .. (MaxDepth - 1) ->
                          [address : Address \cup {0}, frame : Nodes(b)]]
  /\ call.buf \in Buffer /\ call.frame \in Nodes(call.buf)
  /\ src \in Buffer \cup {NoBuffer}
  /\ src # NoBuffer => Elems(todo) \subseteq Nodes(src)
  /\ failed \in BOOLEAN
  /\ CountersDistinct

(* childStackNode: the nodes of a buffer form one tree.  Every node but the
   root is in the child list of its parent, every listed child exists, and
   the lists are sorted, which is what the search for a child relies on. *)
Rooted(t) == Root \in DOMAIN t
Up(n) == SubSeq(n, 1, Len(n) - 1)
Closed(t) == \A n \in DOMAIN t \ {Root} :
               Up(n) \in DOMAIN t /\ n[Len(n)] \in Elems(t[Up(n)])
Listed(t) == \A n \in DOMAIN t : \A a \in Elems(t[n]) :
               Append(n, a) \in DOMAIN t
Ascending(s) == \A i, j \in 1 .. Len(s) : i < j => s[i] < s[j]
Sorted(t) == \A n \in DOMAIN t : Ascending(t[n])

(* push: a cached frame belongs to the current tree, at the depth of its cache
   slot, and was entered at the cached address. *)
CacheGood(b) == \A i \in 0 .. (MaxDepth - 1) :
                  LET e == cache[b][i]
                  IN  e.address # 0 => /\ e.frame \in Nodes(b)
                                       /\ Len(e.frame) = i + 1
                                       /\ e.frame[i + 1] = e.address

(* push: the walk stands in a node of the current tree, as deep as the number
   of addresses walked. *)
CallGood == call.active => /\ call.frame \in Nodes(call.buf)
                           /\ Len(call.frame) = call.i
                           /\ call.i <= MaxDepth

TreeInv == /\ \A b \in Buffer : /\ Rooted(kids[b]) /\ Closed(kids[b])
                                /\ Listed(kids[b]) /\ Sorted(kids[b])
                                /\ CacheGood(b)
           /\ CallGood

(* Counter d of a node: the one there is, or one that has never been ticked. *)
Counter(cs, d) == IF Places(cs, d) = {} THEN NewCounter(d)
                  ELSE cs[CHOOSE i \in Places(cs, d) : TRUE]

(* The frames <<buffer, node>> of the nodes in N, and what their counters d
   add up to. *)
Frames == UNION {{b} \X Nodes(b) : b \in Buffer}
FramesOf(N) == {x \in Frames : x[2] \in N}
At(x, d) == Counter(ctrs[x[1]][x[2]], d)
SumTicks(N, d) == SumFunctionOnSet([x \in Frames |-> At(x, d).ticks], FramesOf(N))
SumValue(N, d) == SumFunctionOnSet([x \in Frames |-> At(x, d).value], FramesOf(N))
Largest(N, d) == Max({0} \cup {At(x, d).value : x \in FramesOf(N)})

(* The counters of the nodes in N, in all buffers, add up to the samples taken
   with the stacks in N: the sum of a TICK counter, the largest of a MAX. *)
Agree(N) ==
  \A d \in Defs :
    /\ SumTicks(N, d) = SumFunctionOnSet([n \in Paths |-> cost[n].ticks], N \cap Paths)
    /\ IF d \in MaxDefs
       THEN Largest(N, d) = Max({0} \cup {cost[n].largest : n \in N \cap Paths})
       ELSE SumValue(N, d) =
              SumFunctionOnSet([n \in Paths |-> cost[n].value], N \cap Paths)

AllNodes == UNION {Nodes(b) : b \in Buffer}
Like(n) == {m \in AllNodes \cup Paths :
              /\ Len(m) = Len(n)
              /\ n # Root => m[Len(m)] = n[Len(n)]}

(* Self costs: whatever the call cache did, and however often buffers were
   merged, the innermost function of every sample is charged at its depth,
   once, with the sampled amount. *)
SelfCosts == AtRest => \A n \in AllNodes \cup Paths : Agree(Like(n))

(* Callers: as long as no buffer had a push that was shorter than an earlier
   one, every sample is charged to the very call path it was taken at. *)
CallersUnlessShrunk ==
  AtRest /\ shrunk = {} => \A n \in AllNodes \cup Paths : Agree({n})
=============================================================================

----------------------------- MODULE MemProfiler -----------------------------
(***************************************************************************)
(* The memory profiler (profile-mem.cc) and the empty-memory profiler      *)
(* (profile-empty.cc): the hooks around the allocator, called by many      *)
(* threads, and the live map they keep in the one buffer.                  *)
(*                                                                         *)
(* A hook is a sequence of phases: `remove' and `add' update the buffer    *)
(* under its lock, `chain' is the real function.  Other threads run        *)
(* between the phases.  The buffer is used through the map it implements   *)
(* (LiveMap); the allocator is external and only as wide as the program    *)
(* can tell.                                                               *)
(***************************************************************************)
EXTENDS LiveHooks, Integers, FiniteSets

CONSTANTS
  Address,    \* memory blocks the allocator can hand out
  Sizes,      \* sizes asked for
  Usable,     \* Usable[n]: malloc_usable_size of a block of n bytes
  Untouched,  \* bytes of untouched pages a freed block may have
  Modulus,    \* size_t wraps at this number
  Modes       \* the profilers with their programs: records of
              \*   profiler  "mem" or "empty"
              \*   overhead  s_overhead: "none", "with", "delta"
              \*   sizes     the sizes the program asks for
              \*   sites     the call stacks from which it asks
              \*   calls     the functions it calls
              \*   outcomes  what may come of them: "moved", "kept", "failed"
              \*   toggles   may kill() switch the profilers off for a while?
              \*   ends      may threads end, and the process?

Blocks == [size : Sizes, site : Site, on : BOOLEAN, stale : BOOLEAN]
Records == [counter : Site, size : 0 .. (Modulus - 1)]

ASSUME NullAssumption == Null \notin Address \cup Site \cup Blocks \cup Records
ASSUME ModesAssumption ==
  \A m \in Modes : /\ m.profiler \in {"mem", "empty"}
                   /\ m.overhead \in {"none", "with", "delta"}
                   /\ m.sizes \subseteq Sizes /\ m.sites \subseteq Site
                   /\ m.calls \subseteq {"malloc", "free", "realloc", "memalign"}
                   /\ m.toggles \in BOOLEAN /\ m.ends \in BOOLEAN
ASSUME SizeAssumption == /\ Sizes \subseteq Nat /\ Modulus \in Nat \ {0}
                         /\ Usable \in [Sizes -> 0 .. (Modulus - 1)]
                         /\ \A n \in Sizes : n <= Usable[n]
                         /\ Untouched \subseteq Nat

VARIABLES
  mode,       \* the profiler, its options, and the program under it
  heap,       \* heap[a]: an allocated block, or Null: its size and site, was
              \* it made with the profilers on, and did a realloc() fail so
  value,      \* value[s]: the counter MEM_LIVE of the empty-memory profiler
  excused,    \* history: blocks that the known defects may leave behind
  lost,       \* history: blocks whose record a late realloc() has removed,
              \* or for which add() found no buffer
  blind       \* history: has a hook run with the profilers off, or found no buffer?

vars == <<mode, heap, live, enabled, th, value, excused, lost, blind, access>>

Buffer == INSTANCE LiveMap WITH Counter <- Site, last <- <<>>

Idle == [call |-> "none", todo |-> <<>>, ptr |-> Null, size |-> 0,
         site |-> Null, result |-> Null]

-----------------------------------------------------------------------------
(* The hooks *)

(* Mutant: free() forgets the block after it has been freed. *)
Phases_FreeLate(call, on) ==
  CASE call = "free" -> <<"chain", "remove">>
    [] call = "realloc" -> IF on THEN <<"remove", "chain", "add">>
                                 ELSE <<"chain">>
    [] OTHER -> IF on THEN <<"chain", "add">> ELSE <<"chain">>

(* Mutant: realloc() forgets the old block after the call. *)
Phases_ReallocLate(call, on) ==
  CASE call = "free" -> <<"remove", "chain">>
    [] call = "realloc" -> IF on THEN <<"chain", "remove", "add">>
                                 ELSE <<"chain">>
    [] OTHER -> IF on THEN <<"chain", "add">> ELSE <<"chain">>

(* Mutant: free() does nothing while the profilers are off. *)
Phases_FreeIfOn(call, on) ==
  CASE call = "free" -> IF on THEN <<"remove", "chain">> ELSE <<"chain">>
    [] call = "realloc" /\ mode.profiler = "empty" ->
         IF on THEN <<"chain", "remove", "add">> ELSE <<"chain", "remove">>
    [] call = "realloc" /\ mode.profiler = "mem" ->
         IF on THEN <<"remove", "chain", "add">> ELSE <<"chain">>
    [] OTHER -> IF on THEN <<"chain", "add">> ELSE <<"chain">>

(* What a hook does, and in which order; on is igprof_disable()'s result.
   The empty-memory profiler forgets the old block of a realloc() afterwards,
   because it must not if the call fails. *)
Phases(call, on) ==
  CASE call = "free" -> <<"remove", "chain">>
    [] call = "realloc" /\ mode.profiler = "empty" ->
         IF on THEN <<"chain", "remove", "add">> ELSE <<"chain", "remove">>
    [] call = "realloc" /\ mode.profiler = "mem" ->
         IF on THEN <<"remove", "chain", "add">> ELSE <<"chain">>
    [] OTHER -> IF on THEN <<"chain", "add">> ELSE <<"chain">>

Advance(x) == IF Len(x.todo) = 1 THEN Idle ELSE [x EXCEPT !.todo = Tail(@)]

(* Blocks that no running call is about, and blocks the program may pass on:
   posix_memalign() is given a variable, which may hold any old pointer. *)
Settled(a) == \A t \in Thread : a \notin {th[t].ptr, th[t].result}
Owned(x) == IF x.call = "memalign" THEN {x.result} ELSE {x.ptr, x.result}
Held == {a \in Address : heap[a] # Null /\ \A t \in Thread : a \notin Owned(th[t])}

Pointers(call) == CASE call = "malloc" -> {Null}
                    [] call = "free" -> Held
                    [] call = "realloc" -> Held \cup {Null}
                    [] call = "memalign" -> Address \cup {Null}

-----------------------------------------------------------------------------
Init ==
  /\ mode \in Modes
  /\ heap = [a \in Address |-> Null]
  /\ live = [a \in Address |-> Null]
  /\ enabled = TRUE
  /\ th = [t \in Thread |-> Idle]
  /\ value = [s \in Site |-> 0]
  /\ excused = {}
  /\ lost = {}
  /\ blind = FALSE
  /\ AccessInit

(* A thread enters the hook of an allocator function. *)
Enter(t, call, p, n, s) ==
  /\ th[t] = Idle
  /\ th' = [th EXCEPT ![t] = [call |-> call, todo |-> Phases(call, On(t)),
                              ptr |-> p, size |-> n, site |-> s,
                              result |-> Null]]
  /\ blind' = (blind \/ ~ On(t))
  /\ UNCHANGED <<mode, heap, live, enabled, value, excused, lost, access>>

(* A realloc() of the empty-memory profiler that meets the record of the next
   owner of the block. *)
Late(t) ==
  /\ mode.profiler = "empty"
  /\ th[t].call = "realloc" /\ th[t].ptr \notin {Null, th[t].result}
  /\ heap[th[t].ptr] # Null
  /\ \A u \in Thread : th[u].result # th[t].ptr

(* remove(): the block is released from the live map; a null pointer is not.
   The empty-memory profiler charges the untouched pages of the block, and adds
   the size that release() subtracts. *)
Remove(t) ==
  LET p == th[t].ptr
  IN  /\ In(t, "remove")
      /\ Buffered(t)
      /\ IF p = Null \/ live[p] = Null THEN UNCHANGED <<live, value>>
         ELSE /\ live' = Buffer!Removed(live, p)
              /\ IF mode.profiler = "mem" THEN UNCHANGED value
                 ELSE \E e \in Untouched :
                        value' = [value EXCEPT ![live[p].counter] = (@ + e) % Modulus]
      /\ lost' = IF Late(t) THEN lost \cup {p} ELSE lost
      /\ th' = [th EXCEPT ![t] = Advance(@)]
      /\ UNCHANGED <<mode, heap, enabled, excused, blind>>

(* The block add() is called with: the result, else the old pointer. *)
Target(x) == IF x.result # Null THEN x.result ELSE x.ptr

(* remove() and add() return at once if the buffer is null: the one leaves a
   record behind, the other does not make it. *)
NoBuffer(t) ==
  LET x == th[t]
  IN  /\ Updating(t)
      /\ t \notin bufs
      /\ excused' = excused \cup
                     {a \in Address : In(t, "remove") /\ a = x.ptr /\ live[a] # Null}
      /\ lost' = IF In(t, "add") THEN lost \cup {Target(x)} ELSE lost
      /\ blind' = TRUE
      /\ th' = [th EXCEPT ![t] = Advance(@)]
      /\ UNCHANGED <<mode, heap, live, enabled, value, access>>

Free(t) ==
  /\ In(t, "chain")
  /\ th[t].call = "free"
  /\ heap' = [heap EXCEPT ![th[t].ptr] = Null]
  /\ lost' = lost \ {th[t].ptr}
  /\ th' = [th EXCEPT ![t] = Advance(@)]
  /\ UNCHANGED <<mode, live, enabled, value, excused, blind, access>>

Recording(t) == In(t, "chain") /\ th[t].todo[Len(th[t].todo)] = "add"
ForgetsLater(t) == Len(th[t].todo) > 1 /\ th[t].todo[2] = "remove"
Block(t) == [size |-> th[t].size, site |-> th[t].site, on |-> Recording(t),
             stale |-> FALSE]

(* A new block; realloc() frees the old one. *)
Allocate(t, a) ==
  LET x == th[t]
      gone == IF x.call = "realloc" THEN {x.ptr} ELSE {}
  IN  /\ In(t, "chain")
      /\ x.call # "free"
      /\ x.call = "realloc" => x.ptr = Null \/ (x.size # 0 /\ "moved" \in mode.outcomes)
      /\ heap[a] = Null
      /\ heap' = [b \in Address |-> IF b = a THEN Block(t)
                                    ELSE IF b \in gone THEN Null ELSE heap[b]]
      /\ excused' = IF Recording(t) \/ ForgetsLater(t) THEN excused
                    ELSE excused \cup (gone \ {Null})
      /\ lost' = lost \ gone
      /\ th' = [th EXCEPT ![t] = Advance([x EXCEPT !.result = a])]
      /\ UNCHANGED <<mode, live, enabled, value, blind, access>>

(* realloc() in place *)
Resize(t) ==
  LET x == th[t]
  IN  /\ In(t, "chain")
      /\ x.call = "realloc" /\ x.ptr # Null /\ x.size # 0
      /\ "kept" \in mode.outcomes
      /\ heap' = [heap EXCEPT ![x.ptr] = Block(t)]
      /\ th' = [th EXCEPT ![t] = Advance([x EXCEPT !.result = x.ptr])]
      /\ UNCHANGED <<mode, live, enabled, value, excused, lost, blind, access>>

(* A null result ends the empty-memory profiler's hook of realloc(), and that
   of malloc(); the memory profiler then enters the old block again. *)
GivesUp(x) == x.ptr = Null \/ (x.call = "realloc" /\ mode.profiler = "empty")

(* realloc(p, 0) frees the block and returns null *)
ReallocZero(t) ==
  LET x == th[t]
  IN  /\ In(t, "chain")
      /\ x.call = "realloc" /\ x.ptr # Null /\ x.size = 0
      /\ heap' = [heap EXCEPT ![x.ptr] = Null]
      /\ excused' = excused \cup {x.ptr}
      /\ lost' = lost \ {x.ptr}
      /\ th' = [th EXCEPT ![t] = IF GivesUp(x) THEN Idle ELSE Advance(x)]
      /\ UNCHANGED <<mode, live, enabled, value, blind, access>>

(* No memory: malloc() returns null and its hook is done; realloc() leaves
   the old block alone, posix_memalign() its argument. *)
Refuse(t) ==
  LET x == th[t]
      old == x.call = "realloc" /\ x.ptr # Null
  IN  /\ In(t, "chain")
      /\ x.call # "free"
      /\ x.ptr # Null => "failed" \in mode.outcomes
      /\ old => x.size # 0
      /\ heap' = IF old /\ Recording(t) /\ ~ GivesUp(x)
                 THEN [heap EXCEPT ![x.ptr].stale = TRUE, ![x.ptr].on = TRUE]
                 ELSE heap
      /\ excused' = IF x.call = "memalign" /\ Recording(t)
                    THEN excused \cup ({x.ptr} \ {Null}) ELSE excused
      /\ th' = [th EXCEPT ![t] = IF GivesUp(x) THEN Idle ELSE Advance(x)]
      /\ UNCHANGED <<mode, live, enabled, value, lost, blind, access>>

(* Mutant: the difference is taken as a signed number. *)
Recorded_Signed(p, n) ==
  LET actual == IF heap[p] # Null THEN {Usable[heap[p].size]}
                                  ELSE {Usable[m] : m \in Sizes}
  IN  CASE mode.overhead = "none"  -> {n}
        [] mode.overhead = "with"  -> actual
        [] mode.overhead = "delta" -> {n - u : u \in actual}

(* The size add() records: what was asked for, or what malloc_usable_size()
   says, or their difference as a size_t.  The usable size of memory that is
   not allocated is anything. *)
Recorded(p, n) ==
  LET actual == IF heap[p] # Null THEN {Usable[heap[p].size]}
                                  ELSE {Usable[m] : m \in Sizes}
  IN  CASE mode.overhead = "none"  -> {n}
        [] mode.overhead = "with"  -> actual
        [] mode.overhead = "delta" -> {(u - n) % Modulus : u \in actual}

(* acquire() first releases a record that is still there, and so subtracts its
   size from its counter; in the empty-memory profiler nothing was added. *)
Add(t) ==
  LET x == th[t]
      p == Target(x)
  IN  /\ In(t, "add")
      /\ Buffered(t)
      /\ \E size \in Recorded(p, x.size) :
           live' = IF mode.overhead = "delta" /\ size = 0 THEN live
                   ELSE Buffer!Entered(live, x.site, p, size)
      /\ value' = IF mode.profiler = "mem" \/ live[p] = Null THEN value
                  ELSE [value EXCEPT ![live[p].counter] = (@ - live[p].size) % Modulus]
      /\ lost' = lost \ {p}
      /\ th' = [th EXCEPT ![t] = Advance(@)]
      /\ UNCHANGED <<mode, heap, enabled, excused, blind>>

(* Another thread is in kill() and dumps with the profilers switched off. *)
Toggle ==
  /\ mode.toggles
  /\ enabled' = ~ enabled
  /\ UNCHANGED <<mode, heap, live, th, value, excused, lost, blind, access>>

(* A thread or the process ends. *)
Ends ==
  /\ mode.ends
  /\ Disable \/ Deactivate \/ \E t \in Thread : KeysDestroyed(t)
  /\ UNCHANGED <<mode, heap, live, th, value, excused, lost, blind>>

Next ==
  \/ \E t \in Thread, c \in mode.calls, n \in mode.sizes, s \in mode.sites :
       \E p \in Pointers(c) : Enter(t, c, p, n, s)
  \/ \E t \in Thread : \/ Remove(t)
                       \/ NoBuffer(t)
                       \/ Free(t)
                       \/ \E a \in Address : Allocate(t, a)
                       \/ Resize(t)
                       \/ ReallocZero(t)
                       \/ Refuse(t)
                       \/ Add(t)
  \/ Toggle
  \/ Ends

Spec == Init /\ [][Next]_vars

-----------------------------------------------------------------------------
(* Properties *)

(* Types of the live map, the heap and the hooks in progress. *)
TypeOK ==
  /\ mode \in Modes
  /\ live \in [Address -> Records \cup {Null}]
  /\ heap \in [Address -> Blocks \cup {Null}]
  /\ enabled \in BOOLEAN
  /\ value \in [Site -> 0 .. (Modulus - 1)]
  /\ excused \subseteq Address /\ lost \subseteq Address
  /\ \A t \in Thread :
       /\ {th[t].ptr, th[t].result} \subseteq Address \cup {Null}
       /\ th[t].size \in Sizes \cup {0} /\ th[t].site \in Site \cup {Null}
       /\ \A i \in DOMAIN th[t].todo : th[t].todo[i] \in {"remove", "chain", "add"}

(* Programs that neither call realloc() for zero bytes or with the profilers
   off, nor fail in posix_memalign(), under the memory profiler. *)
Plain == mode.profiler = "mem" /\ 0 \notin mode.sizes /\ ~ mode.toggles
         /\ "memalign" \notin mode.calls

(* A block is known to the buffer exactly if it is allocated, once no call is
   about it any more, and with its size and site: until a hook runs in the
   destructor of another key or while exit() switches the profilers off.  After a failed realloc() the
   size is that of the failed call (the comment at profile-mem.cc:364); blocks
   without overhead are left out where the overhead is what is recorded. *)
Matches(a) ==
  IF heap[a] = Null THEN live[a] = Null
  ELSE LET h == heap[a] IN
       \/ /\ mode.overhead = "delta" /\ live[a] = Null
          /\ h.stale \/ Usable[h.size] = h.size
       \/ /\ live[a] # Null
          /\ h.stale \/ /\ live[a].counter = h.site
                        /\ live[a].size \in Recorded(a, h.size)
LiveExact == Plain /\ ~ blind => \A a \in Address : Settled(a) => Matches(a)

(* The hooks of the memory profiler order their phases so that an address
   another thread has just got is never still known: acquire() has no missed
   release to make up for (the comment at profile-mem.cc:349-352), until a
   hook runs with the profilers off, or finds no buffer. *)
AddsUnknown ==
  Plain /\ ~ blind => \A t \in Thread : In(t, "add") => live[Target(th[t])] = Null

(* No leak is missed, whatever fails and whenever the profilers are switched
   off: a block that was allocated while they were on is known, once no call is
   about it.  There are two exceptions: a block under the empty-memory profiler
   that was handed out again, and recorded, between another thread's realloc()
   and the update that follows it; and one whose hook had seen the profilers on
   when exit() took the buffer from it. *)
AllocatedIsKnown ==
  \A a \in Address :
    Settled(a) /\ heap[a] # Null /\ heap[a].on /\ mode.overhead # "delta" =>
      live[a] # Null \/ a \in lost

(* The only false leaks are those of realloc() to zero bytes, of realloc()
   while the memory profiler is switched off, of a failed posix_memalign(), and
   of a block that was freed, or moved, when there was no buffer: by a thread
   whose keys are destroyed, or after exit(). *)
FalseLeaksExcused ==
  \A a \in Address : Settled(a) /\ live[a] # Null /\ heap[a] = Null => a \in excused

(* What releaseResource() asserts (profile-trace.h:374) holds when acquire()
   releases a record that is still there: the counter covers the size. *)
ReleaseCovered ==
  \A t \in Thread :
    In(t, "add") /\ mode.profiler = "empty" /\ live[Target(th[t])] # Null =>
      LET res == live[Target(th[t])] IN value[res.counter] >= res.size
=============================================================================

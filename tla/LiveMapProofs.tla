---------------------------- MODULE LiveMapProofs ----------------------------
(***************************************************************************)
(* Proofs about the profilers that keep a live map, MemProfiler and        *)
(* FdProfiler, for any number of threads, blocks and descriptors.          *)
(*                                                                         *)
(* The first part is about plain programs, under the memory profiler: its  *)
(* hooks never meet an address that is still known, and the live map       *)
(* agrees with the allocator about every block that no call is about, as   *)
(* long as every hook runs with the profilers on and finds the buffer.     *)
(*                                                                         *)
(* The second is about every program, whatever it calls, whatever fails,   *)
(* and whenever the profilers are switched off, under either of the memory *)
(* profilers: its types, that no leak is missed and that there are no      *)
(* false leaks but the excused ones.                                       *)
(*                                                                         *)
(* The third is about the file descriptor profiler: its live map has its   *)
(* types and holds no false leak, although every hook updates it only      *)
(* after the real function has returned, except where an update is missed. *)
(***************************************************************************)
EXTENDS MemProfiler, FdProfiler, WellFoundedInduction, TLAPS

-----------------------------------------------------------------------------
(* Plain programs *)

(* The hooks of a plain program, and how far each can be. *)
PlainHook == [call : {"none", "free", "malloc", "realloc"},
              todo : {<<>>, <<"remove", "chain">>, <<"chain">>, <<"add">>,
                      <<"remove", "chain", "add">>, <<"chain", "add">>},
              ptr : Address \cup {Null}, size : Sizes \cup {0},
              site : Site \cup {Null}, result : Address \cup {Null}]

PlainStage(x) ==
  \/ x = Idle
  \/ /\ x.call = "free" /\ x.ptr # Null /\ x.result = Null
     /\ x.todo \in {<<"remove", "chain">>, <<"chain">>}
  \/ /\ x.call = "malloc" /\ x.ptr = Null
     /\ \/ x.todo = <<"chain", "add">> /\ x.result = Null
        \/ x.todo = <<"add">> /\ x.result # Null
  \/ /\ x.call = "realloc"
     /\ \/ x.todo \in {<<"remove", "chain", "add">>, <<"chain", "add">>} /\ x.result = Null
        \/ x.todo = <<"add">> /\ (x.ptr # Null \/ x.result # Null)

PlainActive(x) == x # Idle => x.size \in Sizes \ {0} /\ x.site \in Site

(* The block a call owns: the one it was given until the real call, then the
   one add() is to enter. *)
Owns(x) == IF x.todo = <<"add">> THEN Target(x) ELSE x.ptr

(* No two calls own a block, and what a call owns is allocated. *)
OwnersOK ==
  /\ \A t \in Thread : Owns(th[t]) # Null => heap[Owns(th[t])] # Null
  /\ \A t, u \in Thread : t # u /\ Owns(th[t]) # Null => Owns(th[t]) # Owns(th[u])

(* The live map: nothing but allocated blocks; not the block of a call that is
   past `remove'; every block that no call owns. *)
LiveOK ==
  /\ \A a \in Address : heap[a] = Null => live[a] = Null
  /\ \A t \in Thread : (In(t, "chain") \/ In(t, "add")) /\ Owns(th[t]) # Null =>
       live[Owns(th[t])] = Null
  /\ \A t \in Thread : In(t, "add") => LET h == heap[Owns(th[t])] IN
       h.stale \/ (h.size = th[t].size /\ h.site = th[t].site)
  /\ \A a \in Address : heap[a] # Null /\ (\A t \in Thread : Owns(th[t]) # a) => Matches(a)

PlainTypes ==
  /\ mode \in Modes
  /\ heap \in [Address -> Blocks \cup {Null}]
  /\ live \in [Address -> Records \cup {Null}]
  /\ th \in [Thread -> PlainHook]
  /\ \A t \in Thread : PlainStage(th[t]) /\ PlainActive(th[t])

PlainIInv == PlainTypes /\ OwnersOK /\ LiveOK

TInv == Plain /\ ~ blind => PlainIInv

-----------------------------------------------------------------------------
(* The lists of phases, unrolled. *)
LEMMA Phasing ==
  /\ Len(<<"remove", "chain">>) = 2 /\ Len(<<"chain", "add">>) = 2
  /\ Len(<<"chain">>) = 1 /\ Len(<<"add">>) = 1
  /\ Len(<<"remove", "chain", "add">>) = 3
  /\ Head(<<"remove", "chain">>) = "remove" /\ Head(<<"chain">>) = "chain"
  /\ Head(<<"chain", "add">>) = "chain" /\ Head(<<"add">>) = "add"
  /\ Head(<<"remove", "chain", "add">>) = "remove"
  /\ Tail(<<"remove", "chain">>) = <<"chain">>
  /\ Tail(<<"chain", "add">>) = <<"add">>
  /\ Tail(<<"remove", "chain", "add">>) = <<"chain", "add">>
  /\ <<"remove", "chain">> # <<"add">> /\ <<"chain">> # <<"add">>
  /\ <<"chain", "add">> # <<"add">> /\ <<"remove", "chain", "add">> # <<"add">>
  /\ <<>> # <<"add">>
  /\ <<"remove", "chain">> # <<>> /\ <<"chain">> # <<>>
  /\ <<"chain", "add">> # <<>> /\ <<"remove", "chain", "add">> # <<>> /\ <<"add">> # <<>>
  OBVIOUS

(* The phases that are left of a call, by what is left of it. *)
LEMMA PlainLengths ==
  ASSUME NEW s
  PROVE  /\ s = <<"remove", "chain">> => Len(s) = 2 /\ Tail(s) = <<"chain">>
         /\ s = <<"chain", "add">> => Len(s) = 2 /\ Tail(s) = <<"add">>
         /\ s = <<"remove", "chain", "add">> => Len(s) = 3 /\ Tail(s) = <<"chain", "add">>
         /\ s = <<"chain">> => Len(s) = 1
         /\ s = <<"add">> => Len(s) = 1
<1>1. s = <<"remove", "chain">> => Len(s) = 2 /\ Tail(s) = <<"chain">>
  BY Phasing, Zenon
<1>2. s = <<"chain", "add">> => Len(s) = 2 /\ Tail(s) = <<"add">>
  BY Phasing, Zenon
<1>3. s = <<"remove", "chain", "add">> => Len(s) = 3 /\ Tail(s) = <<"chain", "add">>
  BY Phasing, Zenon
<1>4. (s = <<"chain">> => Len(s) = 1) /\ (s = <<"add">> => Len(s) = 1)
  BY Phasing, Zenon
<1> QED BY <1>1, <1>2, <1>3, <1>4, Zenon

(* What a hook has been through tells what is next. *)
LEMMA Places ==
  ASSUME NEW x \in PlainHook, PlainStage(x)
  PROVE  /\ x.todo # <<>> /\ Head(x.todo) = "remove" =>
              /\ x.result = Null /\ x # Idle
              /\ \/ x.call = "free" /\ x.todo = <<"remove", "chain">> /\ x.ptr # Null
                 \/ x.call = "realloc" /\ x.todo = <<"remove", "chain", "add">>
         /\ x.todo # <<>> /\ Head(x.todo) = "chain" =>
              /\ x.result = Null /\ x # Idle
              /\ \/ x.call = "free" /\ x.todo = <<"chain">> /\ x.ptr # Null
                 \/ x.call = "malloc" /\ x.todo = <<"chain", "add">> /\ x.ptr = Null
                 \/ x.call = "realloc" /\ x.todo = <<"chain", "add">>
         /\ x.todo # <<>> /\ Head(x.todo) = "add" =>
              /\ x.call \in {"malloc", "realloc"} /\ x.todo = <<"add">> /\ x # Idle
              /\ Target(x) # Null
  BY Phasing, SMTT(30) DEF PlainStage, Idle, PlainHook, Target

(* An entry that is not touched goes on to agree with the allocator. *)
LEMMA MatchesKept ==
  ASSUME NEW a \in Address, heap'[a] = heap[a], live'[a] = live[a], mode' = mode,
         Matches(a)
  PROVE  Matches(a)'
<1>1. \A n : Recorded(a, n)' = Recorded(a, n)
  BY DEF Recorded
<1>2. Recorded(a, heap[a].size)' = Recorded(a, heap[a].size)
  BY DEF Recorded
<1> QED BY <1>2 DEF Matches

(* A step of one thread disturbs only the blocks it owns before and after it;
   it is enough to look at those. *)
LEMMA PlainFramed ==
  ASSUME PlainIInv, NEW t \in Thread, NEW y \in PlainHook, PlainStage(y), PlainActive(y),
         th' = [th EXCEPT ![t] = y], mode' = mode,
         heap' \in [Address -> Blocks \cup {Null}],
         live' \in [Address -> Records \cup {Null}],
         \A a \in Address : a \notin {Owns(th[t]), Owns(y)} =>
           heap'[a] = heap[a] /\ live'[a] = live[a],
         \A a \in Address : heap'[a] = Null => live'[a] = Null,
         Owns(y) # Null => heap'[Owns(y)] # Null,
         \A u \in Thread : u # t /\ Owns(y) # Null => Owns(th[u]) # Owns(y),
         y.todo # <<>> /\ Head(y.todo) \in {"chain", "add"} /\ Owns(y) # Null =>
           live'[Owns(y)] = Null,
         y.todo # <<>> /\ Head(y.todo) = "add" =>
           LET h == heap'[Owns(y)] IN h.stale \/ (h.size = y.size /\ h.site = y.site),
         \A a \in Address : a = Owns(th[t]) /\ a # Owns(y) /\ heap'[a] # Null => Matches(a)'
  PROVE  PlainIInv'
<1> USE DEF PlainIInv, PlainTypes
<1>1. \A u \in Thread : th'[u] = IF u = t THEN y ELSE th[u]
  OBVIOUS
<1>2. \A x \in PlainHook : PlainStage(x) => Owns(x) \in Address \cup {Null}
  BY DEF PlainHook, Owns, Target
<1>3. \A u \in Thread : Owns(th[u]) \in Address \cup {Null} /\ Owns(y) \in Address \cup {Null}
  BY <1>2
<1>4. PlainTypes'
  BY <1>1
<1>5. \A u \in Thread : u # t /\ Owns(th[u]) # Null =>
        /\ Owns(th[u]) \notin {Owns(th[t]), Owns(y)}
        /\ heap'[Owns(th[u])] = heap[Owns(th[u])]
        /\ live'[Owns(th[u])] = live[Owns(th[u])]
  BY <1>3 DEF OwnersOK
<1>6. OwnersOK'
  <2>1. \A u \in Thread : Owns(th'[u]) # Null => heap'[Owns(th'[u])] # Null
    BY <1>1, <1>5 DEF OwnersOK
  <2>2. ASSUME NEW u \in Thread, NEW v \in Thread, u # v, Owns(th'[u]) # Null
        PROVE  Owns(th'[u]) # Owns(th'[v])
    BY <1>1, <1>5, <2>2 DEF OwnersOK
  <2> QED BY <2>1, <2>2, <1>1 DEF OwnersOK, Owns, Target
<1>7. LiveOK'
  <2>1. ASSUME NEW u \in Thread, In(u, "chain")' \/ In(u, "add")', Owns(th'[u]) # Null
        PROVE  live'[Owns(th'[u])] = Null
    BY <1>1, <1>5, <2>1 DEF LiveOK, In
  <2>2. ASSUME NEW u \in Thread, In(u, "add")'
        PROVE  LET h == heap'[Owns(th'[u])] IN
                 h.stale \/ (h.size = th'[u].size /\ h.site = th'[u].site)
    <3>1. CASE u = t
      BY <1>1, <2>2, <3>1 DEF In
    <3>2. CASE u # t
      <4>1. Owns(th[u]) # Null
        BY <1>1, <2>2, <3>2, Places DEF In, Owns
      <4> QED BY <1>1, <1>5, <2>2, <3>2, <4>1 DEF LiveOK, In
    <3> QED BY <3>1, <3>2
  <2>3. ASSUME NEW a \in Address, heap'[a] # Null, \A u \in Thread : Owns(th'[u]) # a
        PROVE  Matches(a)'
    <3>1. CASE a = Owns(th[t])
      BY <1>1, <2>3, <3>1, NullAssumption
    <3>2. CASE a # Owns(th[t])
      <4>1. heap'[a] = heap[a] /\ live'[a] = live[a]
        BY <1>1, <2>3, <3>2
      <4>2. Matches(a)
        BY <1>1, <2>3, <3>2, <4>1 DEF LiveOK
      <4> QED BY <4>1, <4>2, MatchesKept
    <3> QED BY <3>1, <3>2
  <2> QED BY <2>1, <2>2, <2>3 DEF LiveOK, Owns, Target
<1> QED BY <1>4, <1>6, <1>7

-----------------------------------------------------------------------------
(* The actions *)

(* What a plain program under the memory profiler can call, and with what. *)
LEMMA PlainFacts ==
  ASSUME PlainIInv, Plain
  PROVE  /\ mode.profiler = "mem" /\ mode.toggles = FALSE
         /\ mode.calls \subseteq {"malloc", "free", "realloc"}
         /\ mode.sizes \subseteq Sizes \ {0} /\ mode.sites \subseteq Site
         /\ mode.overhead \in {"none", "with", "delta"}
  BY ModesAssumption DEF PlainIInv, PlainTypes, Plain

(* The types of a thread's hook and of the block it owns. *)
LEMMA OwnTypes ==
  ASSUME PlainIInv, NEW t \in Thread
  PROVE  /\ th[t] \in PlainHook /\ PlainStage(th[t]) /\ PlainActive(th[t])
         /\ th[t].ptr \in Address \cup {Null} /\ th[t].result \in Address \cup {Null}
         /\ Owns(th[t]) \in Address \cup {Null}
  BY DEF PlainIInv, PlainTypes, PlainHook, Owns, Target

(* A call begins with the profilers on: it owns the block it was given. *)
LEMMA PlainEnterOK ==
  ASSUME PlainIInv, Plain, ~ blind', NEW t \in Thread, NEW c \in mode.calls, NEW n \in mode.sizes,
         NEW s \in mode.sites, NEW p \in Pointers(c), Enter(t, c, p, n, s)
  PROVE  PlainIInv'
<1> DEFINE y == [call |-> c, todo |-> Phases(c, On(t)), ptr |-> p, size |-> n,
                 site |-> s, result |-> Null]
<1>1. /\ c \in {"malloc", "free", "realloc"} /\ n \in Sizes \ {0} /\ s \in Site
      /\ mode.profiler = "mem"
  BY PlainFacts
<1>0. On(t)
  <2>1. blind' = (blind \/ ~ On(t))
    BY DEF Enter
  <2> QED BY <2>1, Zenon
<1>2. p \in Address \cup {Null} /\ (c = "malloc" => p = Null) /\ (c = "free" => p # Null)
  BY <1>1, NullAssumption DEF Pointers, Held
<1>3. y.todo = CASE c = "free" -> <<"remove", "chain">>
                 [] c = "realloc" -> <<"remove", "chain", "add">>
                 [] OTHER -> <<"chain", "add">>
  BY <1>0, <1>1 DEF Phases
<1>4. y \in PlainHook
  BY <1>1, <1>2, <1>3 DEF PlainHook
<1>5. PlainStage(y) /\ PlainActive(y)
  BY <1>1, <1>2, <1>3 DEF PlainStage, PlainActive
<1>6. Owns(y) = p /\ Owns(th[t]) = Null
  <2>1. th[t].todo = <<>> /\ th[t].ptr = Null
    BY DEF Enter, Idle
  <2>2. y.todo # <<"add">>
    BY <1>1, <1>3, Phasing
  <2> QED BY <2>1, <2>2, Phasing DEF Owns
<1>7. p # Null => heap[p] # Null /\ \A u \in Thread : p \notin {th[u].ptr, th[u].result}
  <2>1. \A u \in Thread : th[u].call # "memalign"
    BY OwnTypes DEF PlainHook
  <2> QED BY <2>1, <1>1 DEF Pointers, Held, Owned
<1>8. p # Null => \A u \in Thread : Owns(th[u]) # p
  BY <1>7 DEF Owns, Target
<1>9. y.todo # <<>> /\ Head(y.todo) \in {"chain", "add"} => p = Null
  BY <1>1, <1>2, <1>3, Phasing
<1>10. Head(y.todo) # "add"
  BY <1>3, Phasing
<1>11. /\ th' = [th EXCEPT ![t] = y] /\ mode' = mode /\ heap' = heap
       /\ live' = live
  BY DEF Enter
<1> HIDE DEF y
<1>12. /\ heap' \in [Address -> Blocks \cup {Null}]
       /\ live' \in [Address -> Records \cup {Null}]
       /\ \A a \in Address : heap'[a] = Null => live'[a] = Null
  BY <1>11 DEF PlainIInv, PlainTypes, LiveOK
<1> QED
  BY <1>4, <1>5, <1>6, <1>7, <1>8, <1>9, <1>10, <1>11, <1>12, PlainFramed, NullAssumption

(* What is left of a call after remove(). *)
LEMMA AfterRemove ==
  ASSUME NEW x \in PlainHook, PlainStage(x), PlainActive(x), x.todo # <<>>, Head(x.todo) = "remove"
  PROVE  LET y == Advance(x) IN
         /\ y \in PlainHook /\ PlainStage(y) /\ PlainActive(y)
         /\ Owns(y) = x.ptr /\ Owns(x) = x.ptr
         /\ y.todo # <<>> /\ Head(y.todo) = "chain"
<1> DEFINE y == [x EXCEPT !.todo = Tail(x.todo)]
<1>1. /\ x.result = Null /\ x # Idle
      /\ \/ x.call = "free" /\ x.todo = <<"remove", "chain">> /\ x.ptr # Null
         \/ x.call = "realloc" /\ x.todo = <<"remove", "chain", "add">>
  BY Places
<1>2. Advance(x) = y
  <2>1. Len(x.todo) = 2 \/ Len(x.todo) = 3
    BY <1>1, PlainLengths, Zenon
  <2>2. Len(x.todo) # 1
    <3> HIDE DEF y
    <3> QED BY <2>1
  <2> QED BY <2>2, Zenon DEF Advance
<1>3. /\ y.todo = Tail(x.todo) /\ y.ptr = x.ptr /\ y.call = x.call
      /\ y.result = x.result /\ y.size = x.size /\ y.site = x.site
  BY DEF PlainHook
<1>4. \/ x.call = "free" /\ y.todo = <<"chain">> /\ x.ptr # Null
      \/ x.call = "realloc" /\ y.todo = <<"chain", "add">>
  BY <1>1, <1>3, Phasing
<1>5. y \in PlainHook
  BY <1>3, <1>4 DEF PlainHook
<1> HIDE DEF y
<1>6. PlainStage(y) /\ PlainActive(y)
  BY <1>1, <1>3, <1>4 DEF PlainStage, PlainActive
<1>7. y.todo # <<>> /\ Head(y.todo) = "chain" /\ y.todo # <<"add">> /\ x.todo # <<"add">>
  BY <1>1, <1>4, Phasing
<1> QED BY <1>2, <1>3, <1>5, <1>6, <1>7 DEF Owns

(* remove() makes the profiler forget the block that its call owns. *)
LEMMA PlainRemoveOK ==
  ASSUME PlainIInv, Plain, NEW t \in Thread, Remove(t)
  PROVE  PlainIInv'
<1> DEFINE x == th[t]
           y == Advance(x)
<1>1. /\ x \in PlainHook /\ PlainStage(x) /\ PlainActive(x) /\ mode.profiler = "mem"
      /\ x.ptr \in Address \cup {Null}
  BY OwnTypes, PlainFacts
<1>2. /\ y \in PlainHook /\ PlainStage(y) /\ PlainActive(y) /\ Owns(y) = x.ptr /\ Owns(x) = x.ptr
      /\ y.todo # <<>> /\ Head(y.todo) = "chain"
  BY <1>1, AfterRemove DEF Remove, In
<1>3. /\ th' = [th EXCEPT ![t] = y] /\ mode' = mode /\ heap' = heap
      /\ live' = IF x.ptr = Null \/ live[x.ptr] = Null THEN live
                 ELSE [live EXCEPT ![x.ptr] = Null]
  BY DEF Remove, Buffer!Removed
<1> HIDE DEF x, y
<1>4. /\ heap' \in [Address -> Blocks \cup {Null}]
      /\ live' \in [Address -> Records \cup {Null}]
      /\ \A a \in Address : heap'[a] = Null => live'[a] = Null
      /\ \A a \in Address : a # x.ptr => live'[a] = live[a]
      /\ x.ptr # Null => live'[x.ptr] = Null
  BY <1>1, <1>3 DEF PlainIInv, PlainTypes, LiveOK
<1>5. /\ x.ptr # Null => heap'[x.ptr] # Null
      /\ \A u \in Thread : u # t /\ x.ptr # Null => Owns(th[u]) # x.ptr
  BY <1>2, <1>3 DEF PlainIInv, OwnersOK, x
<1>6. Owns(th[t]) = x.ptr
  BY <1>2 DEF x
<1>7. \A a \in Address : a \notin {Owns(th[t]), Owns(y)} =>
        heap'[a] = heap[a] /\ live'[a] = live[a]
  BY <1>2, <1>3, <1>4, <1>6
<1>8. \A a \in Address : a = Owns(th[t]) /\ a # Owns(y) /\ heap'[a] # Null => Matches(a)'
  BY <1>2, <1>6
<1>9. /\ Owns(y) # Null => heap'[Owns(y)] # Null
      /\ \A u \in Thread : u # t /\ Owns(y) # Null => Owns(th[u]) # Owns(y)
  BY <1>2, <1>5
<1>10. y.todo # <<>> /\ Head(y.todo) \in {"chain", "add"} /\ Owns(y) # Null =>
         live'[Owns(y)] = Null
  BY <1>2, <1>4
<1>11. y.todo # <<>> /\ Head(y.todo) = "add" =>
         LET h == heap'[Owns(y)] IN h.stale \/ (h.size = y.size /\ h.site = y.site)
  BY <1>2
<1> QED BY <1>2, <1>3, <1>4, <1>7, <1>8, <1>9, <1>10, <1>11, PlainFramed, Zenon

(* What is left of a hook after the real call: nothing of free(), and `add'. *)
LEMMA PlainAfterChain ==
  ASSUME NEW x \in PlainHook, PlainStage(x), PlainActive(x), x.todo # <<>>, Head(x.todo) = "chain",
         x.call # "free", NEW r \in Address \cup {Null}
  PROVE  LET y == Advance([x EXCEPT !.result = r]) IN
         /\ y \in PlainHook /\ PlainActive(y) /\ ((x.ptr # Null /\ x.call = "realloc") \/ r # Null => PlainStage(y))
         /\ y.todo = <<"add">> /\ y.ptr = x.ptr /\ y.result = r
         /\ y.size = x.size /\ y.site = x.site
         /\ Owns(x) = x.ptr /\ x.todo = <<"chain", "add">>
<1> DEFINE z == [x EXCEPT !.result = r]
           y == [z EXCEPT !.todo = Tail(z.todo)]
<1>1. /\ x.result = Null /\ x # Idle /\ x.todo = <<"chain", "add">>
      /\ \/ x.call = "malloc" /\ x.ptr = Null
         \/ x.call = "realloc"
  BY Places
<1>2. /\ z.todo = x.todo /\ z.ptr = x.ptr /\ z.call = x.call
      /\ z.result = r /\ z.size = x.size /\ z.site = x.site /\ z \in PlainHook
  BY DEF PlainHook
<1>3. Advance(z) = y
  <2>1. Len(z.todo) \in {2}
    BY <1>1, <1>2, PlainLengths, Zenon
  <2> QED BY <2>1 DEF Advance
<1>4. Tail(z.todo) = <<"add">>
  BY <1>1, <1>2, PlainLengths, Zenon
<1> HIDE DEF z
<1>5. /\ y.todo = <<"add">> /\ y.ptr = x.ptr /\ y.call = x.call
      /\ y.result = r /\ y.size = x.size /\ y.site = x.site /\ y \in PlainHook
  BY <1>2, <1>4 DEF PlainHook
<1> HIDE DEF y
<1>6. PlainActive(y)
  BY <1>1, <1>5 DEF PlainActive
<1>7. (x.ptr # Null /\ x.call = "realloc") \/ r # Null => PlainStage(y)
  BY <1>1, <1>5 DEF PlainStage
<1>8. Owns(x) = x.ptr
  BY <1>1, Phasing DEF Owns
<1> QED BY <1>1, <1>3, <1>5, <1>6, <1>7, <1>8 DEF z

(* A thread without a call owns no block. *)
LEMMA PlainIdleHook ==
  /\ Idle \in PlainHook /\ PlainStage(Idle) /\ PlainActive(Idle) /\ Owns(Idle) = Null
  /\ Idle.todo = <<>>
  BY Phasing DEF Idle, PlainHook, PlainStage, PlainActive, Owns

(* The real free() gives up a block that has been forgotten. *)
LEMMA PlainFreeOK ==
  ASSUME PlainIInv, Plain, NEW t \in Thread, Free(t)
  PROVE  PlainIInv'
<1> DEFINE x == th[t]
<1>1. /\ x \in PlainHook /\ PlainStage(x) /\ PlainActive(x) /\ x.ptr \in Address \cup {Null}
  BY OwnTypes
<1>2. x.todo = <<"chain">> /\ x.ptr # Null
  BY <1>1, Places DEF Free, In
<1>3. Advance(x) = Idle /\ Owns(x) = x.ptr
  BY <1>2, PlainLengths, Phasing, Zenon DEF Advance, Owns
<1>4. /\ th' = [th EXCEPT ![t] = Idle] /\ mode' = mode /\ live' = live
      /\ heap' = [heap EXCEPT ![x.ptr] = Null]
  BY <1>3 DEF Free
<1>5. live[x.ptr] = Null
  BY <1>2, <1>3 DEF PlainIInv, LiveOK, Free
<1> HIDE DEF x
<1>6. /\ heap' \in [Address -> Blocks \cup {Null}]
      /\ live' \in [Address -> Records \cup {Null}]
      /\ heap'[x.ptr] = Null
      /\ \A a \in Address : a # x.ptr => heap'[a] = heap[a] /\ live'[a] = live[a]
  BY <1>1, <1>2, <1>4 DEF PlainIInv, PlainTypes
<1>7. \A a \in Address : heap'[a] = Null => live'[a] = Null
  BY <1>4, <1>5, <1>6 DEF PlainIInv, LiveOK
<1>8. Owns(th[t]) = x.ptr
  BY <1>3 DEF x
<1>9. /\ \A a \in Address : a \notin {Owns(th[t]), Owns(Idle)} => heap'[a] = heap[a] /\ live'[a] = live[a]
      /\ \A a \in Address : a = Owns(th[t]) /\ a # Owns(Idle) /\ heap'[a] # Null => Matches(a)'
  BY <1>6, <1>8
<1> QED BY <1>4, <1>6, <1>7, <1>9, PlainIdleHook, PlainFramed, Zenon

(* A block that realloc() or malloc() has just got *)
LEMMA PlainNewBlock ==
  ASSUME PlainIInv, NEW t \in Thread, In(t, "chain")
  PROVE  /\ Block(t) \in Blocks /\ Block(t) # Null
         /\ Block(t).size = th[t].size /\ Block(t).site = th[t].site
<1>1. Block(t) \in Blocks
  <2>1. th[t].size \in Sizes /\ th[t].site \in Site
    BY OwnTypes, Places DEF PlainActive, In
  <2>2. Recording(t) \in BOOLEAN
    BY DEF Recording, In
  <2> QED BY <2>1, <2>2 DEF Block, Blocks
<1> QED BY <1>1, NullAssumption DEF Block

(* The real malloc(), or a realloc() that moves, makes a block that nobody knows. *)
LEMMA PlainAllocateOK ==
  ASSUME PlainIInv, Plain, NEW t \in Thread, NEW a \in Address, Allocate(t, a)
  PROVE  PlainIInv'
<1> DEFINE x == th[t]
           y == Advance([x EXCEPT !.result = a])
<1>1. /\ x \in PlainHook /\ PlainStage(x) /\ PlainActive(x) /\ x.ptr \in Address \cup {Null}
      /\ x.todo # <<>> /\ Head(x.todo) = "chain" /\ x.call # "free"
      /\ heap[a] = Null /\ a # Null /\ In(t, "chain")
  BY OwnTypes, NullAssumption DEF Allocate, In
<1>2. /\ y \in PlainHook /\ PlainActive(y) /\ PlainStage(y) /\ y.todo = <<"add">> /\ y.result = a
      /\ y.size = x.size /\ y.site = x.site /\ Owns(x) = x.ptr
  BY <1>1, PlainAfterChain
<1>3. x.call = "realloc" \/ x.ptr = Null
  BY <1>1, Places
<1>4. /\ th' = [th EXCEPT ![t] = y] /\ mode' = mode /\ live' = live
      /\ heap' = [b \in Address |-> IF b = a THEN Block(t)
                                    ELSE IF x.call = "realloc" /\ b = x.ptr THEN Null
                                    ELSE heap[b]]
  <2>1. \A b : b \in (IF x.call = "realloc" THEN {x.ptr} ELSE {})
                 <=> x.call = "realloc" /\ b = x.ptr
    OBVIOUS
  <2> QED BY <2>1 DEF Allocate
<1>5. Owns(y) = a
  BY <1>1, <1>2 DEF Owns, Target
<1>6. x.ptr # Null => heap[x.ptr] # Null /\ live[x.ptr] = Null /\ x.ptr # a
  BY <1>1, <1>2 DEF PlainIInv, OwnersOK, LiveOK
<1>7. \A u \in Thread : Owns(th[u]) # a
  BY <1>1 DEF PlainIInv, OwnersOK
<1>8. Owns(th[t]) = x.ptr
  BY <1>2
<1> HIDE DEF x, y
<1>9. /\ heap' \in [Address -> Blocks \cup {Null}]
      /\ live' \in [Address -> Records \cup {Null}]
      /\ heap'[a] = Block(t) /\ heap'[a] # Null
      /\ \A b \in Address : b \notin {a, x.ptr} => heap'[b] = heap[b]
      /\ x.ptr # Null => heap'[x.ptr] = Null
  BY <1>1, <1>3, <1>4, <1>6, PlainNewBlock DEF PlainIInv, PlainTypes
<1>10. \A b \in Address : heap'[b] = Null => live'[b] = Null
  <2>1. \A b \in Address : b # Null /\ (heap[b] = Null => live[b] = Null)
    BY NullAssumption DEF PlainIInv, LiveOK
  <2>2. \A b \in Address : b \notin {a, x.ptr} => (heap'[b] = Null => live'[b] = Null)
    BY <1>4, <1>9, <2>1
  <2>3. \A b \in Address : b = x.ptr => live'[b] = Null
    BY <1>4, <1>6, <2>1
  <2> QED BY <1>9, <2>2, <2>3
<1>11. /\ \A b \in Address : b \notin {Owns(th[t]), Owns(y)} => heap'[b] = heap[b] /\ live'[b] = live[b]
       /\ \A b \in Address : b = Owns(th[t]) /\ b # Owns(y) /\ heap'[b] # Null => Matches(b)'
  <2>1. \A b \in Address : b # Null
    BY NullAssumption
  <2>2. \A b \in Address : b \notin {x.ptr, a} => heap'[b] = heap[b] /\ live'[b] = live[b]
    BY <1>4, <1>9
  <2>3. \A b \in Address : b = x.ptr => heap'[b] = Null
    BY <1>9, <2>1
  <2> QED BY <2>2, <2>3, <1>5, <1>8, Zenon
<1>12. /\ Owns(y) # Null => heap'[Owns(y)] # Null
       /\ \A u \in Thread : u # t /\ Owns(y) # Null => Owns(th[u]) # Owns(y)
       /\ y.todo # <<>> /\ Head(y.todo) \in {"chain", "add"} /\ Owns(y) # Null =>
            live'[Owns(y)] = Null
  BY <1>1, <1>4, <1>5, <1>7, <1>9 DEF PlainIInv, LiveOK
<1>13. y.todo # <<>> /\ Head(y.todo) = "add" =>
         LET h == heap'[Owns(y)] IN h.stale \/ (h.size = y.size /\ h.site = y.site)
  BY <1>1, <1>2, <1>5, <1>9, PlainNewBlock DEF x
<1> QED BY <1>2, <1>4, <1>9, <1>10, <1>11, <1>12, <1>13, PlainFramed, Zenon

(* The real realloc() in place keeps the block its own. *)
LEMMA PlainResizeOK ==
  ASSUME PlainIInv, Plain, NEW t \in Thread, Resize(t)
  PROVE  PlainIInv'
<1> DEFINE x == th[t]
           y == Advance([x EXCEPT !.result = x.ptr])
<1>1. /\ x \in PlainHook /\ PlainStage(x) /\ PlainActive(x) /\ x.ptr \in Address /\ x.ptr # Null
      /\ x.todo # <<>> /\ Head(x.todo) = "chain" /\ x.call = "realloc" /\ In(t, "chain")
  BY OwnTypes DEF Resize, In
<1>2. /\ y \in PlainHook /\ PlainActive(y) /\ PlainStage(y) /\ y.todo = <<"add">> /\ y.result = x.ptr
      /\ y.size = x.size /\ y.site = x.site /\ Owns(x) = x.ptr
  BY <1>1, PlainAfterChain
<1>3. /\ th' = [th EXCEPT ![t] = y] /\ mode' = mode /\ live' = live
      /\ heap' = [heap EXCEPT ![x.ptr] = Block(t)]
  BY DEF Resize
<1>4. Owns(y) = x.ptr
  BY <1>1, <1>2 DEF Owns, Target
<1>5. Owns(th[t]) = x.ptr
  BY <1>2
<1>6. /\ live[x.ptr] = Null /\ heap[x.ptr] # Null
      /\ \A u \in Thread : u # t => Owns(th[u]) # x.ptr
  BY <1>1, <1>2 DEF PlainIInv, OwnersOK, LiveOK
<1>7. Block(t) \in Blocks /\ Block(t) # Null /\ Block(t).size = x.size /\ Block(t).site = x.site
  BY <1>1, PlainNewBlock
<1> HIDE DEF x, y
<1>8. /\ heap' \in [Address -> Blocks \cup {Null}]
      /\ live' \in [Address -> Records \cup {Null}]
      /\ heap'[x.ptr] = Block(t) /\ heap'[x.ptr] # Null
      /\ \A a \in Address : a # x.ptr => heap'[a] = heap[a]
  BY <1>1, <1>3, <1>7 DEF PlainIInv, PlainTypes
<1>9. \A a \in Address : heap'[a] = Null => live'[a] = Null
  BY <1>3, <1>8 DEF PlainIInv, LiveOK
<1>10. /\ \A a \in Address : a \notin {Owns(th[t]), Owns(y)} => heap'[a] = heap[a] /\ live'[a] = live[a]
       /\ \A a \in Address : a = Owns(th[t]) /\ a # Owns(y) /\ heap'[a] # Null => Matches(a)'
  BY <1>3, <1>4, <1>5, <1>8
<1>11. /\ Owns(y) # Null => heap'[Owns(y)] # Null
       /\ \A u \in Thread : u # t /\ Owns(y) # Null => Owns(th[u]) # Owns(y)
       /\ y.todo # <<>> /\ Head(y.todo) \in {"chain", "add"} /\ Owns(y) # Null =>
            live'[Owns(y)] = Null
  BY <1>3, <1>4, <1>6, <1>8
<1>12. y.todo # <<>> /\ Head(y.todo) = "add" =>
         LET h == heap'[Owns(y)] IN h.stale \/ (h.size = y.size /\ h.site = y.site)
  BY <1>2, <1>4, <1>7, <1>8
<1> QED BY <1>2, <1>3, <1>8, <1>9, <1>10, <1>11, <1>12, PlainFramed, Zenon

(* A failed realloc() of the memory profiler goes on to add() with the old block. *)
LEMMA PlainRefuseOK ==
  ASSUME PlainIInv, Plain, NEW t \in Thread, Refuse(t)
  PROVE  PlainIInv'
<1> DEFINE x == th[t]
<1>1. /\ x \in PlainHook /\ PlainStage(x) /\ PlainActive(x) /\ x.ptr \in Address \cup {Null}
      /\ x.todo # <<>> /\ Head(x.todo) = "chain" /\ x.call # "free" /\ In(t, "chain")
      /\ mode.profiler = "mem"
  BY OwnTypes, PlainFacts DEF Refuse, In
<1>2. /\ x.todo = <<"chain", "add">> /\ x.result = Null /\ x # Idle
      /\ x.call = "realloc" \/ x.ptr = Null
  BY <1>1, Places
<1>3. /\ mode' = mode /\ live' = live
  BY DEF Refuse
<1>4. Owns(th[t]) = x.ptr
  BY <1>2, Phasing DEF Owns
<1>5. Recording(t)
  <2>1. x.todo[2] = "add" /\ Len(x.todo) = 2
    BY <1>2
  <2> QED BY <1>1, <2>1 DEF Recording
<1>6. CASE x.ptr = Null
  <2>1. th' = [th EXCEPT ![t] = Idle] /\ heap' = heap
    BY <1>6 DEF Refuse, GivesUp
  <2> HIDE DEF x
  <2>2. /\ heap' \in [Address -> Blocks \cup {Null}]
        /\ live' \in [Address -> Records \cup {Null}]
        /\ \A a \in Address : heap'[a] = Null => live'[a] = Null
    BY <1>3, <2>1 DEF PlainIInv, PlainTypes, LiveOK
  <2>3. \A a \in Address : a # Null
    BY NullAssumption
  <2>4. /\ \A a \in Address : a \notin {Owns(th[t]), Owns(Idle)} => heap'[a] = heap[a] /\ live'[a] = live[a]
        /\ \A a \in Address : a = Owns(th[t]) /\ a # Owns(Idle) /\ heap'[a] # Null => Matches(a)'
    BY <1>3, <1>4, <1>6, <2>1, <2>3, Zenon
  <2> QED BY <1>3, <2>1, <2>2, <2>4, PlainIdleHook, PlainFramed, Zenon
<1>7. CASE x.ptr # Null
  <2> DEFINE y == Advance([x EXCEPT !.result = Null])
  <2>1. /\ y \in PlainHook /\ PlainActive(y) /\ PlainStage(y) /\ y.todo = <<"add">> /\ y.result = Null
        /\ y.size = x.size /\ y.site = x.site /\ y.ptr = x.ptr
    BY <1>1, <1>2, <1>7, PlainAfterChain
  <2>2. [x EXCEPT !.result = Null] = x
    BY <1>1, <1>2 DEF PlainHook
  <2>3. ~ GivesUp(x) /\ x.call = "realloc"
    BY <1>1, <1>2, <1>7 DEF GivesUp
  <2>4. /\ th' = [th EXCEPT ![t] = y]
        /\ heap' = [heap EXCEPT ![x.ptr].stale = TRUE, ![x.ptr].on = TRUE]
    <3>1. th' = [th EXCEPT ![t] = Advance(x)]
      BY <2>3 DEF Refuse
    <3>2. heap' = [heap EXCEPT ![x.ptr].stale = TRUE, ![x.ptr].on = TRUE]
      BY <1>5, <1>7, <2>3 DEF Refuse
    <3> QED BY <2>2, <3>1, <3>2
  <2>5. Owns(y) = x.ptr
    BY <1>7, <2>1 DEF Owns, Target
  <2>6. /\ live[x.ptr] = Null /\ heap[x.ptr] # Null /\ x.ptr \in Address
        /\ \A u \in Thread : u # t => Owns(th[u]) # x.ptr
    BY <1>1, <1>4, <1>7 DEF PlainIInv, OwnersOK, LiveOK
  <2> HIDE DEF x, y
  <2>7. heap[x.ptr] \in Blocks
    BY <2>6 DEF PlainIInv, PlainTypes
  <2>8. heap'[x.ptr] \in Blocks /\ heap'[x.ptr].stale
    <3>1. heap'[x.ptr] = [heap[x.ptr] EXCEPT !.stale = TRUE, !.on = TRUE]
      BY <2>4, <2>6 DEF PlainIInv, PlainTypes
    <3> QED BY <2>7, <3>1 DEF Blocks
  <2>9. \A b \in Blocks : b # Null
    BY NullAssumption
  <2>10. /\ heap' \in [Address -> Blocks \cup {Null}]
         /\ live' \in [Address -> Records \cup {Null}]
         /\ \A a \in Address : a # x.ptr => heap'[a] = heap[a]
    BY <1>3, <2>4, <2>6, <2>8 DEF PlainIInv, PlainTypes
  <2>11. \A a \in Address : heap'[a] = Null => live'[a] = Null
    BY <1>3, <2>8, <2>9, <2>10 DEF PlainIInv, LiveOK
  <2>12. /\ \A a \in Address : a \notin {Owns(th[t]), Owns(y)} => heap'[a] = heap[a] /\ live'[a] = live[a]
         /\ \A a \in Address : a = Owns(th[t]) /\ a # Owns(y) /\ heap'[a] # Null => Matches(a)'
    BY <1>3, <1>4, <2>5, <2>10
  <2>13. /\ Owns(y) # Null => heap'[Owns(y)] # Null
         /\ \A u \in Thread : u # t /\ Owns(y) # Null => Owns(th[u]) # Owns(y)
         /\ y.todo # <<>> /\ Head(y.todo) \in {"chain", "add"} /\ Owns(y) # Null =>
              live'[Owns(y)] = Null
    BY <1>3, <2>5, <2>6, <2>8, <2>9
  <2>14. y.todo # <<>> /\ Head(y.todo) = "add" =>
           LET h == heap'[Owns(y)] IN h.stale \/ (h.size = y.size /\ h.site = y.site)
    BY <2>5, <2>8
  <2> QED BY <1>3, <2>1, <2>4, <2>10, <2>11, <2>12, <2>13, <2>14, PlainFramed, Zenon
<1> QED BY <1>6, <1>7

(* The overhead of a block as a size_t is zero only if it has none. *)
LEMMA Overhead ==
  ASSUME NEW u \in Nat, NEW n \in Nat, NEW m \in Nat \ {0}, n <= u, u < m
  PROVE  /\ (u - n) % m = u - n
         /\ (u - n) % m = 0 => u = n
<1>1. u - n \in 0 .. (m - 1)
  OBVIOUS
<1>2. \A d \in 0 .. (m - 1) : d % m = d
  BY SMT
<1> QED BY <1>1, <1>2

(* The size that add() records of a block, in each way to account overhead. *)
LEMMA PlainRecordedSizes ==
  ASSUME PlainIInv, Plain, NEW a \in Address, heap[a] # Null, NEW n \in Sizes,
         NEW size \in Recorded(a, n)
  PROVE  /\ size \in 0 .. (Modulus - 1)
         /\ heap[a].size \in Sizes
         /\ mode.overhead = "delta" /\ size = 0 /\ n = heap[a].size => Usable[heap[a].size] = heap[a].size
<1>1. heap[a] \in Blocks
  BY DEF PlainIInv, PlainTypes
<1>2. heap[a].size \in Sizes
  BY <1>1 DEF Blocks
<1> DEFINE k == heap[a].size
           u == Usable[k]
<1>3. /\ u \in 0 .. (Modulus - 1) /\ k \in Nat /\ k <= u /\ n \in Nat /\ Modulus \in Nat \ {0}
      /\ n <= Usable[n] /\ Usable[n] \in 0 .. (Modulus - 1)
  BY <1>2, SizeAssumption
<1>4. \/ mode.overhead = "none" /\ size = n
      \/ mode.overhead = "with" /\ size = u
      \/ mode.overhead = "delta" /\ size = (u - n) % Modulus
  BY PlainFacts DEF Recorded
<1> HIDE DEF u, k
<1>5. (u - n) % Modulus \in 0 .. (Modulus - 1)
  BY <1>3
<1>6. (u - k) % Modulus = 0 => u = k
  BY <1>3, Overhead
<1>7. size \in 0 .. (Modulus - 1)
  BY <1>3, <1>4, <1>5
<1>8. mode.overhead = "delta" /\ size = 0 /\ n = k => u = k
  BY <1>4, <1>6
<1> QED BY <1>2, <1>7, <1>8 DEF u, k

(* add() enters the block of its call as the allocator has it. *)
LEMMA PlainAddOK ==
  ASSUME PlainIInv, Plain, NEW t \in Thread, Add(t)
  PROVE  PlainIInv'
<1> DEFINE x == th[t]
           p == Target(x)
<1>1. /\ x \in PlainHook /\ PlainStage(x) /\ PlainActive(x) /\ In(t, "add")
      /\ x.todo # <<>> /\ Head(x.todo) = "add"
  BY OwnTypes DEF Add, In
<1>2. x.todo = <<"add">> /\ p # Null /\ x # Idle
  BY <1>1, Places
<1>3. Advance(x) = Idle
  BY <1>2, PlainLengths, Zenon DEF Advance
<1>4. Owns(th[t]) = p /\ p \in Address
  BY <1>1, <1>2, OwnTypes DEF Owns
<1>5. x.size \in Sizes /\ x.site \in Site
  BY <1>1, <1>2 DEF PlainActive
<1>6. /\ heap[p] # Null /\ live[p] = Null
      /\ heap[p].stale \/ (heap[p].size = x.size /\ heap[p].site = x.site)
  BY <1>1, <1>2, <1>4 DEF PlainIInv, OwnersOK, LiveOK
<1>7. /\ th' = [th EXCEPT ![t] = Idle] /\ mode' = mode /\ heap' = heap
  BY <1>3 DEF Add
<1>8. PICK size \in Recorded(p, x.size) :
        live' = IF mode.overhead = "delta" /\ size = 0 THEN live
                ELSE [live EXCEPT ![p] = [counter |-> x.site, size |-> size]]
  BY DEF Add, Buffer!Entered
<1> HIDE DEF x, p
<1>9. /\ size \in 0 .. (Modulus - 1) /\ heap[p].size \in Sizes
      /\ mode.overhead = "delta" /\ size = 0 /\ x.size = heap[p].size => Usable[heap[p].size] = heap[p].size
  BY <1>4, <1>5, <1>6, <1>8, PlainRecordedSizes
<1>10. [counter |-> x.site, size |-> size] \in Records
  BY <1>5, <1>9 DEF Records
<1>11. [counter |-> x.site, size |-> size] # Null
  BY <1>10, NullAssumption
<1>12. /\ heap' \in [Address -> Blocks \cup {Null}]
       /\ live' \in [Address -> Records \cup {Null}]
       /\ \A a \in Address : a # p => live'[a] = live[a]
  BY <1>4, <1>7, <1>8, <1>10 DEF PlainIInv, PlainTypes
<1>13. \A a \in Address : heap'[a] = Null => live'[a] = Null
  BY <1>6, <1>7, <1>12 DEF PlainIInv, LiveOK
<1>14. ASSUME NEW a \in Address, a = p PROVE Matches(a)'
  <2>1. CASE mode.overhead = "delta" /\ size = 0
    <3>1. live'[a] = Null /\ heap'[a] = heap[a] /\ heap'[a] # Null /\ mode' = mode
      BY <1>6, <1>7, <1>8, <1>14, <2>1
    <3>2. heap[a].stale \/ Usable[heap[a].size] = heap[a].size
      BY <1>6, <1>9, <1>14, <2>1
    <3> QED BY <2>1, <3>1, <3>2 DEF Matches
  <2>2. CASE ~ (mode.overhead = "delta" /\ size = 0)
    <3>1. live'[a] = [counter |-> x.site, size |-> size]
      BY <1>4, <1>8, <1>14, <2>2 DEF PlainIInv, PlainTypes
    <3>2. Recorded(a, heap[a].size)' = Recorded(a, heap[a].size)
      BY <1>7 DEF Recorded
    <3>3. heap[a].stale \/ (heap[a].site = x.site /\ size \in Recorded(a, heap[a].size))
      BY <1>6, <1>8, <1>14
    <3>4. /\ heap'[a] = heap[a] /\ heap'[a] # Null /\ live'[a] # Null
          /\ live'[a].counter = x.site /\ live'[a].size = size
      BY <1>6, <1>7, <1>11, <1>14, <3>1
    <3> QED BY <3>2, <3>3, <3>4, Zenon DEF Matches
  <2> QED BY <2>1, <2>2
<1>15. \A a \in Address : a = Owns(th[t]) /\ a # Owns(Idle) /\ heap'[a] # Null => Matches(a)'
  BY <1>4, <1>14
<1>16. \A a \in Address : a \notin {Owns(th[t]), Owns(Idle)} => heap'[a] = heap[a] /\ live'[a] = live[a]
  BY <1>4, <1>7, <1>12
<1> QED BY <1>7, <1>12, <1>13, <1>15, <1>16, PlainIdleHook, PlainFramed, Zenon

-----------------------------------------------------------------------------
(* The whole specification *)

(* At first there are no blocks, records or calls. *)
LEMMA PlainInitOK == Init => PlainIInv
<1> SUFFICES ASSUME Init PROVE PlainIInv
  OBVIOUS
<1>1. \A t \in Thread : th[t] = Idle
  BY DEF Init
<1>2. PlainTypes
  BY <1>1, PlainIdleHook DEF Init, PlainTypes
<1>3. OwnersOK
  BY <1>1, PlainIdleHook DEF OwnersOK
<1>4. LiveOK
  <2>1. \A t \in Thread : ~ In(t, "chain") /\ ~ In(t, "add")
    BY <1>1, PlainIdleHook DEF In
  <2> QED BY <2>1 DEF Init, LiveOK
<1> QED BY <1>2, <1>3, <1>4 DEF PlainIInv

(* The program and its options stay what they are. *)
LEMMA ModeKept == Next => mode' = mode
  BY DEF Next, Enter, Remove, NoBuffer, Free, Allocate, Resize, ReallocZero, Refuse,
         Add, Toggle, Ends

(* What a hook has met remains so. *)
LEMMA BlindKept == Next => (blind => blind')
  BY DEF Next, Enter, Remove, NoBuffer, Free, Allocate, Resize, ReallocZero, Refuse,
         Add, Toggle, Ends

(* Invariants are kept when no variable that they speak of changes. *)
LEMMA PlainSame ==
  ASSUME PlainIInv, mode' = mode, heap' = heap, live' = live, th' = th
  PROVE  PlainIInv'
<1>2. PlainTypes'
  BY DEF PlainIInv, PlainTypes
<1>3. OwnersOK'
  BY DEF PlainIInv, OwnersOK, Owns, Target
<1>4. LiveOK'
  <2>1. \A a \in Address : Matches(a) => Matches(a)'
    BY MatchesKept
  <2>2. \A a \in Address : heap'[a] # Null /\ (\A t \in Thread : Owns(th'[t]) # a) => Matches(a)'
    BY <2>1 DEF PlainIInv, LiveOK
  <2> QED BY <2>2 DEF PlainIInv, LiveOK, In, Owns, Target
<1> QED BY <1>2, <1>3, <1>4 DEF PlainIInv

(* Every step of a plain program keeps the invariant. *)
LEMMA StepOK ==
  ASSUME TInv, [Next]_vars
  PROVE  TInv'
<1> SUFFICES ASSUME Plain', ~ blind' PROVE PlainIInv'
  BY DEF TInv
<1>1. CASE UNCHANGED vars
  BY <1>1, PlainSame DEF vars, TInv, Plain
<1>2. CASE Next
  <2>1. Plain /\ PlainIInv
    BY <1>2, ModeKept, BlindKept DEF Plain, TInv
  <2>2. ASSUME NEW t \in Thread, ReallocZero(t) PROVE FALSE
    <3>1. th[t].size # 0
      BY <2>1, <2>2, OwnTypes, Places DEF ReallocZero, In, PlainActive
    <3> QED BY <2>2, <3>1 DEF ReallocZero
  <2>3. ~ Toggle
    BY <2>1, PlainFacts DEF Toggle
  <2>4. CASE \E t \in Thread, c \in mode.calls, n \in mode.sizes, s \in mode.sites :
               \E p \in Pointers(c) : Enter(t, c, p, n, s)
    BY <2>1, <2>4, PlainEnterOK
  <2>5. ASSUME NEW t \in Thread,
               \/ Remove(t) \/ Free(t) \/ \E a \in Address : Allocate(t, a)
               \/ Resize(t) \/ Refuse(t) \/ Add(t)
        PROVE  PlainIInv'
    BY <2>1, <2>5, PlainRemoveOK, PlainFreeOK, PlainAllocateOK, PlainResizeOK, PlainRefuseOK, PlainAddOK, Zenon
  <2>6. \A t \in Thread : ~ NoBuffer(t)
    BY DEF NoBuffer
  <2>7. CASE Ends
    BY <2>1, <2>7, PlainSame DEF Ends
  <2> QED BY <1>2, <2>2, <2>3, <2>4, <2>5, <2>6, <2>7, Zenon DEF Next
<1> QED BY <1>1, <1>2

(* For any threads, blocks, sizes and call stacks, and each way to account     *)
(* overhead, the inductive invariant holds in a plain program.                 *)
THEOREM PlainInductive == Spec => []TInv
<1>1. Init => TInv
  BY PlainInitOK DEF TInv
<1>2. TInv /\ [Next]_vars => TInv'
  BY StepOK
<1> QED BY <1>1, <1>2, PTL DEF Spec

(* add() never meets a block that is still known: remove() precedes the real   *)
(* function in the hooks of free() and realloc() (profile-mem.cc:349-352).     *)
THEOREM AddsUnknownHolds == Spec => []AddsUnknown
<1>1. TInv => AddsUnknown
  <2> SUFFICES ASSUME TInv, Plain, ~ blind, NEW t \in Thread, In(t, "add")
               PROVE  live[Target(th[t])] = Null
    BY DEF AddsUnknown
  <2>1. PlainIInv
    BY DEF TInv
  <2>2. th[t].todo = <<"add">> /\ Target(th[t]) # Null
    BY <2>1, OwnTypes, Places DEF In
  <2> QED BY <2>1, <2>2 DEF PlainIInv, LiveOK, Owns
<1> QED BY <1>1, PlainInductive, PTL

(* The live map agrees with the allocator about every block no call is about.  *)
THEOREM LiveExactHolds == Spec => []LiveExact
<1>1. TInv => LiveExact
  <2> SUFFICES ASSUME TInv, Plain, ~ blind, NEW a \in Address, Settled(a)
               PROVE  Matches(a)
    BY DEF LiveExact
  <2>1. PlainIInv
    BY DEF TInv
  <2>2. \A t \in Thread : Owns(th[t]) # a
    BY DEF Settled, Owns, Target
  <2>3. CASE heap[a] = Null
    BY <2>1, <2>3 DEF PlainIInv, LiveOK, Matches
  <2>4. CASE heap[a] # Null
    BY <2>1, <2>2, <2>4 DEF PlainIInv, LiveOK
  <2> QED BY <2>3, <2>4
<1> QED BY <1>1, PlainInductive, PTL

-----------------------------------------------------------------------------
(* Every program *)

(* What may be left of a hook: the initials of its phases. *)
RC == <<"remove", "chain">>
RCA == <<"remove", "chain", "add">>
CRA == <<"chain", "remove", "add">>
CR == <<"chain", "remove">>
CA == <<"chain", "add">>
RA == <<"remove", "add">>
C == <<"chain">>
R == <<"remove">>
A == <<"add">>
Chained == {RC, RCA, CRA, CR, CA, C}
Lists == Chained \cup {RA, R, A, <<>>}

Hook == [call : {"none", "free", "malloc", "realloc", "memalign"},
         todo : Lists, ptr : Address \cup {Null}, size : Sizes \cup {0},
         site : Site \cup {Null}, result : Address \cup {Null}]

(* How far the hook of which function can be, under which profiler. *)
Stage(x) ==
  \/ x = Idle
  \/ x.call = "free" /\ x.ptr # Null /\ x.todo \in {RC, C} /\ x.result = Null
  \/ /\ x.call \in {"malloc", "memalign"} /\ (x.call = "malloc" => x.ptr = Null)
     /\ \/ x.todo \in {CA, C} /\ x.result = Null
        \/ x.todo = A /\ Target(x) # Null
  \/ /\ x.call = "realloc" /\ mode.profiler = "mem"
     /\ \/ x.todo \in {RCA, CA, C} /\ x.result = Null
        \/ x.todo = A /\ Target(x) # Null
  \/ /\ x.call = "realloc" /\ mode.profiler = "empty"
     /\ \/ x.todo \in {CRA, CR} /\ x.result = Null
        \/ x.todo \in {RA, R, A} /\ x.result # Null

Active(x) == x # Idle => x.size \in Sizes /\ x.site \in Site

(* The block a call uses: until the real function the one it was given, if it is
   to be freed; then the one it is to enter, unless that one is excused. *)
Uses(x, ex) ==
  IF x.todo \in Chained THEN IF x.call \in {"free", "realloc"} THEN x.ptr ELSE Null
  ELSE IF x.result # Null THEN x.result
  ELSE IF x.ptr \in ex THEN Null ELSE x.ptr

(* The call will remove the record of a. *)
Removes(x, a) == x.ptr = a /\ x.todo \in {R, RA}

(* The call has removed the record of a, which the real function is to free, or
   is still to enter a. *)
Pending(x, a) == \/ x.todo = C /\ x.call = "free" /\ x.ptr = a
                 \/ x.todo = CA /\ x.call = "realloc" /\ x.ptr = a
                 \/ x.todo = A /\ Target(x) = a
                 \/ x.todo = RA /\ x.result = a

(* The call has removed the record of its block before the real function. *)
Forgetful(x) == \/ x.todo = C /\ x.call = "free"
                \/ x.todo = CA /\ x.call = "realloc"

-----------------------------------------------------------------------------
(* The inductive invariant *)

Types ==
  /\ mode \in Modes /\ enabled \in BOOLEAN
  /\ heap \in [Address -> Blocks \cup {Null}]
  /\ live \in [Address -> Records \cup {Null}]
  /\ value \in [Site -> 0 .. (Modulus - 1)]
  /\ excused \subseteq Address /\ lost \subseteq Address
  /\ th \in [Thread -> Hook]
  /\ \A t \in Thread : Stage(th[t]) /\ Active(th[t])

(* What a call uses is allocated, and no other call uses it. *)
UsesOK ==
  /\ \A t \in Thread : Uses(th[t], excused) # Null => heap[Uses(th[t], excused)] # Null
  /\ \A t, u \in Thread : t # u /\ Uses(th[t], excused) # Null =>
       Uses(th[t], excused) # Uses(th[u], excused)

(* A block is forgotten before it is freed. *)
ForgottenOK ==
  \A t \in Thread : Forgetful(th[t]) /\ th[t].ptr # Null =>
    live[th[t].ptr] = Null \/ th[t].ptr \in excused

(* Of a failed posix_memalign() the block entered is excused. *)
FailedOK ==
  \A t \in Thread : th[t].call \in {"malloc", "memalign"} /\ th[t].todo = A
                    /\ th[t].result = Null => th[t].ptr \in excused

(* A record without a block is excused or about to be removed. *)
LeaksOK ==
  \A a \in Address : heap[a] = Null /\ live[a] # Null =>
    a \in excused \/ \E t \in Thread : Removes(th[t], a)

(* A block that is to be known is known, lost, or somebody is at it. *)
KnownOK ==
  mode.overhead # "delta" =>
    \A a \in Address : heap[a] # Null /\ heap[a].on =>
      live[a] # Null \/ a \in lost \/ \E t \in Thread : Pending(th[t], a)

(* A realloc() with the profilers off leaves a block that need not be known. *)
OffOK == \A t \in Thread : th[t].todo = R => ~ heap[th[t].result].on

IInv == /\ Types /\ UsesOK /\ ForgottenOK /\ FailedOK
        /\ LeaksOK /\ KnownOK /\ OffOK

-----------------------------------------------------------------------------
(* Lists of phases *)

(* The lists differ. *)
LEMMA Distinct ==
  /\ Chained \cap {RA, R, A, <<>>} = {}
  /\ RC # C /\ RC # CA /\ RC # CR /\ RC # RCA /\ RC # CRA
  /\ RCA # C /\ RCA # CA /\ RCA # CR /\ RCA # CRA
  /\ CRA # C /\ CRA # CA /\ CRA # CR /\ CR # C /\ CR # CA /\ CA # C
  /\ RA # R /\ RA # A /\ RA # <<>> /\ R # A /\ R # <<>> /\ A # <<>>
BY DEF Chained, RC, RCA, CRA, CR, CA, RA, C, R, A

(* The phase each list begins with. *)
LEMMA Heads ==
  /\ Head(RC) = "remove" /\ Head(RCA) = "remove" /\ Head(RA) = "remove"
  /\ Head(R) = "remove" /\ Head(A) = "add"
  /\ Head(CRA) = "chain" /\ Head(CR) = "chain" /\ Head(CA) = "chain"
  /\ Head(C) = "chain"
BY DEF RC, RCA, CRA, CR, CA, RA, C, R, A

(* What each list leaves when its first phase is done. *)
LEMMA Tails ==
  /\ Tail(RC) = C /\ Tail(RCA) = CA /\ Tail(CRA) = RA /\ Tail(CR) = R
  /\ Tail(CA) = A /\ Tail(RA) = A
BY DEF RC, RCA, CRA, CR, CA, RA, C, R, A

(* How many phases each list has. *)
LEMMA Lengths ==
  /\ Len(RC) = 2 /\ Len(RCA) = 3 /\ Len(CRA) = 3 /\ Len(CR) = 2
  /\ Len(CA) = 2 /\ Len(RA) = 2 /\ Len(C) = 1 /\ Len(R) = 1 /\ Len(A) = 1
  /\ Len(<<>>) = 0
BY DEF RC, RCA, CRA, CR, CA, RA, C, R, A

(* The later phases of the lists that begin with the real function. *)
LEMMA Members ==
  /\ C[1] = "chain" /\ CA[2] = "add" /\ CR[2] = "remove" /\ CRA[3] = "add"
  /\ CA[2] # "remove" /\ CRA[2] = "remove"
BY DEF RC, RCA, CRA, CR, CA, RA, C, R, A

(* What is left of a hook after its next phase. *)
LEMMA Advanced ==
  ASSUME NEW x \in Hook
  PROVE  /\ x.todo \in {C, R, A} => Advance(x) = Idle
         /\ x.todo \in {RC, RCA, CRA, CR, CA, RA} =>
              /\ Advance(x) \in Hook
              /\ Advance(x).call = x.call /\ Advance(x).ptr = x.ptr
              /\ Advance(x).size = x.size /\ Advance(x).site = x.site
              /\ Advance(x).result = x.result
              /\ x.todo = RC => Advance(x).todo = C
              /\ x.todo = RCA => Advance(x).todo = CA
              /\ x.todo = CRA => Advance(x).todo = RA
              /\ x.todo = CR => Advance(x).todo = R
              /\ x.todo = CA => Advance(x).todo = A
              /\ x.todo = RA => Advance(x).todo = A
<1>1. x.todo \in {C, R, A} => Advance(x) = Idle
  BY Lengths, Zenon DEF Advance
<1>2. ASSUME x.todo \in {RC, RCA, CRA, CR, CA, RA}
      PROVE  /\ Advance(x) \in Hook
             /\ Advance(x).call = x.call /\ Advance(x).ptr = x.ptr
             /\ Advance(x).size = x.size /\ Advance(x).site = x.site
             /\ Advance(x).result = x.result
             /\ Advance(x).todo = Tail(x.todo)
  <2> DEFINE y == [x EXCEPT !.todo = Tail(x.todo)]
  <2>1. Len(x.todo) # 1
    <3>1. Len(x.todo) = 2 \/ Len(x.todo) = 3
      BY <1>2, Lengths, Zenon
    <3> QED BY <3>1
  <2>2. Advance(x) = y
    BY <2>1, Zenon DEF Advance
  <2>3. /\ y.call = x.call /\ y.ptr = x.ptr /\ y.size = x.size /\ y.site = x.site
        /\ y.result = x.result /\ y.todo = Tail(x.todo)
    BY DEF Hook
  <2>4. Tail(x.todo) \in Lists
    BY <1>2, Tails, Zenon DEF Lists, Chained
  <2>5. y \in Hook
    BY <2>4 DEF Hook
  <2> QED BY <2>2, <2>3, <2>5, Zenon
<1> QED BY <1>1, <1>2, Tails, Zenon

(* Nothing is left of no call. *)
LEMMA IdleHook ==
  /\ Idle \in Hook /\ Stage(Idle) /\ Active(Idle) /\ Idle.todo = <<>>
  /\ Idle.ptr = Null /\ Idle.result = Null
  /\ \A ex : Uses(Idle, ex) = Null
  /\ \A a : ~ Pending(Idle, a) /\ ~ Removes(Idle, a)
  /\ ~ Forgetful(Idle)
<1>1. /\ Idle \in Hook /\ Stage(Idle) /\ Active(Idle) /\ Idle.todo = <<>>
      /\ Idle.ptr = Null /\ Idle.result = Null
  BY DEF Idle, Hook, Stage, Active, Lists
<1>2. <<>> \notin Chained \cup {RA, R, A}
  BY Distinct
<1>3. <<>> \notin {C, CA}
  BY <1>2 DEF Chained
<1> QED BY <1>1, <1>2, <1>3 DEF Uses, Pending, Removes, Forgetful

(* The next phase of a hook tells how far it is. *)
LEMMA Stages ==
  ASSUME NEW x \in Hook, Stage(x), x.todo # <<>>
  PROVE  /\ x # Idle
         /\ Head(x.todo) = "remove" => x.todo \in {RC, RCA, RA, R}
         /\ Head(x.todo) = "chain" => x.todo \in {CRA, CR, CA, C} /\ x.result = Null
         /\ Head(x.todo) = "add" => x.todo = A /\ Target(x) # Null
<1>1. x.todo \in {RC, RCA, CRA, CR, CA, RA, C, R, A}
  BY DEF Hook, Lists, Chained
<1>2. x # Idle
  BY IdleHook
<1>3. /\ Head(x.todo) = "remove" => x.todo \in {RC, RCA, RA, R}
      /\ Head(x.todo) = "chain" => x.todo \in {CRA, CR, CA, C}
      /\ Head(x.todo) = "add" => x.todo = A
  BY <1>1, Heads, Zenon
<1>4. x.todo \in {CRA, CR, CA, C} => x.result = Null
  <2>1. {CRA, CR, CA, C} \cap {RA, R, A} = {}
    BY Distinct DEF Chained
  <2> QED BY <1>2, <2>1 DEF Stage
<1>5. x.todo = A => Target(x) # Null
  <2>1. A \notin {RC, RCA, CRA, CR, CA, C}
    BY Distinct DEF Chained
  <2> QED BY <1>2, <2>1 DEF Stage, Target
<1> QED BY <1>2, <1>3, <1>4, <1>5

(* Whether a call that is at the real function will record or forget a block. *)
LEMMA Later ==
  ASSUME NEW t \in Thread, th[t] \in Hook, Stage(th[t]), In(t, "chain")
  PROVE  /\ Recording(t) <=> th[t].todo \in {CA, CRA}
         /\ ForgetsLater(t) <=> th[t].todo \in {CR, CRA}
         /\ Recording(t) \in BOOLEAN
<1>1. th[t].todo \in {CRA, CR, CA, C}
  BY Stages DEF In
<1>2. /\ th[t].todo[Len(th[t].todo)] = "add" <=> th[t].todo \in {CA, CRA}
      /\ Len(th[t].todo) > 1 /\ th[t].todo[2] = "remove" <=> th[t].todo \in {CR, CRA}
  <2>1. CASE th[t].todo = C
    <3>1. Len(th[t].todo) = 1 /\ th[t].todo[Len(th[t].todo)] = "chain"
      BY <2>1, Lengths, Members, Zenon
    <3>2. C \notin {CA, CRA, CR}
      BY Distinct
    <3> QED BY <2>1, <3>1, <3>2
  <2>2. CASE th[t].todo = CA
    <3>1. Len(th[t].todo) = 2 /\ th[t].todo[2] = "add"
      BY <2>2, Lengths, Members, Zenon
    <3>2. CA \notin {CR, CRA}
      BY Distinct
    <3> QED BY <2>2, <3>1, <3>2
  <2>3. CASE th[t].todo = CR
    <3>1. Len(th[t].todo) = 2 /\ th[t].todo[2] = "remove"
      BY <2>3, Lengths, Members, Zenon
    <3>2. CR \notin {CA, CRA}
      BY Distinct
    <3> QED BY <2>3, <3>1, <3>2
  <2>4. CASE th[t].todo = CRA
    <3>1. Len(th[t].todo) = 3 /\ th[t].todo[2] = "remove" /\ th[t].todo[3] = "add"
      BY <2>4, Lengths, Members, Zenon
    <3> QED BY <2>4, <3>1
  <2> QED BY <1>1, <2>1, <2>2, <2>3, <2>4
<1> QED BY <1>2 DEF Recording, ForgetsLater

-----------------------------------------------------------------------------
(* Steps *)

(* The types of a thread's hook and of the block it uses. *)
LEMMA HookTypes ==
  ASSUME IInv, NEW t \in Thread
  PROVE  /\ th[t] \in Hook /\ Stage(th[t]) /\ Active(th[t])
         /\ th[t].ptr \in Address \cup {Null} /\ th[t].result \in Address \cup {Null}
         /\ Uses(th[t], excused) \in Address \cup {Null}
BY DEF IInv, Types, Hook, Uses

(* More excuses only make calls use less. *)
LEMMA UsesLess ==
  ASSUME NEW x, NEW ex, NEW more, ex \subseteq more
  PROVE  Uses(x, more) \in {Uses(x, ex), Null}
BY DEF Uses

(* A step of thread t from x to y: what has to be looked at. *)
LEMMA Framed ==
  ASSUME IInv, NEW t \in Thread, NEW y \in Hook, Stage(y), Active(y),
         th' = [th EXCEPT ![t] = y], mode' = mode, enabled' = enabled,
         heap' \in [Address -> Blocks \cup {Null}],
         live' \in [Address -> Records \cup {Null}],
         value' \in [Site -> 0 .. (Modulus - 1)],
         lost' \subseteq Address, excused' \subseteq Address, excused \subseteq excused',
         \A a \in Address : a \notin {Uses(th[t], excused), Uses(y, excused')} =>
           heap'[a] = heap[a] \/ heap[a] = Null,
         \A a \in Address : \/ live'[a] = live[a] \/ live'[a] = Null
                            \/ a = Uses(th[t], excused) \/ a \in excused',
         Uses(y, excused') # Null => heap'[Uses(y, excused')] # Null,
         \A u \in Thread : u # t /\ Uses(y, excused') # Null =>
           Uses(th[u], excused) # Uses(y, excused'),
         Forgetful(y) /\ y.ptr # Null => live'[y.ptr] = Null \/ y.ptr \in excused',
         y.call \in {"malloc", "memalign"} /\ y.todo = A /\ y.result = Null =>
           y.ptr \in excused',
         \A a \in Address : heap'[a] = Null /\ live'[a] # Null =>
           \/ a \in excused' \/ Removes(y, a)
           \/ heap[a] = Null /\ live[a] # Null /\ ~ Removes(th[t], a),
         mode.overhead # "delta" =>
           \A a \in Address : heap'[a] # Null /\ heap'[a].on =>
             \/ live'[a] # Null \/ a \in lost' \/ Pending(y, a)
             \/ \E u \in Thread : u # t /\ Pending(th[u], a)
             \/ /\ heap[a] # Null /\ heap[a].on /\ ~ Pending(th[t], a)
                /\ live[a] # Null => live'[a] # Null
                /\ a \in lost => a \in lost',
         y.todo = R => ~ heap'[y.result].on
  PROVE  IInv'
<1> DEFINE x == th[t]
           X == Uses(x, excused)
           Y == Uses(y, excused')
<1>1. \A u \in Thread : th'[u] = IF u = t THEN y ELSE th[u]
  BY DEF IInv, Types
<1>2. Types'
  BY <1>1 DEF IInv, Types, Stage
<1>3. \A u \in Thread : Uses(th[u], excused) \in Address \cup {Null}
  BY HookTypes
<1>4. \A u \in Thread : Uses(th[u], excused') \in {Uses(th[u], excused), Null}
  BY UsesLess
<1>5. \A u \in Thread : u # t /\ Uses(th[u], excused) # Null =>
        /\ Uses(th[u], excused) \notin {X, Y}
        /\ heap[Uses(th[u], excused)] # Null
        /\ heap'[Uses(th[u], excused)] = heap[Uses(th[u], excused)]
  <2> SUFFICES ASSUME NEW u \in Thread, u # t, Uses(th[u], excused) # Null
               PROVE  /\ Uses(th[u], excused) \notin {X, Y}
                      /\ heap[Uses(th[u], excused)] # Null
                      /\ heap'[Uses(th[u], excused)] = heap[Uses(th[u], excused)]
    OBVIOUS
  <2>1. Uses(th[u], excused) # X /\ Uses(th[u], excused) # Y
    BY DEF IInv, UsesOK
  <2>2. heap[Uses(th[u], excused)] # Null /\ Uses(th[u], excused) \in Address
    BY <1>3 DEF IInv, UsesOK
  <2> HIDE DEF X, Y
  <2> QED BY <2>1, <2>2 DEF X, Y
<1>6. UsesOK'
  <2>1. \A u \in Thread : Uses(th'[u], excused') # Null =>
          heap'[Uses(th'[u], excused')] # Null
    BY <1>1, <1>4, <1>5
  <2>2. ASSUME NEW u \in Thread, NEW v \in Thread, u # v,
               Uses(th'[u], excused') # Null
        PROVE  Uses(th'[u], excused') # Uses(th'[v], excused')
    <3>1. CASE u = t
      BY <1>1, <1>4, <2>2, <3>1
    <3>2. CASE v = t
      BY <1>1, <1>4, <1>5, <2>2, <3>2
    <3>3. CASE u # t /\ v # t
      <4>1. Uses(th[u], excused) # Null => Uses(th[u], excused) # Uses(th[v], excused)
        BY <2>2 DEF IInv, UsesOK
      <4> QED BY <1>1, <1>4, <2>2, <3>3, <4>1
    <3> QED BY <3>1, <3>2, <3>3
  <2> QED BY <2>1, <2>2 DEF UsesOK, Uses
<1>7. ForgottenOK'
  <2> SUFFICES ASSUME NEW u \in Thread, Forgetful(th'[u]), th'[u].ptr # Null
               PROVE  live'[th'[u].ptr] = Null \/ th'[u].ptr \in excused'
    BY DEF ForgottenOK, Forgetful
  <2>1. CASE u = t
    BY <1>1, <2>1
  <2>2. CASE u # t
    <3>1. Uses(th[u], excused) = th[u].ptr
      BY <1>1, <2>2 DEF Uses, Forgetful, Chained
    <3>2. live[th[u].ptr] = Null \/ th[u].ptr \in excused
      BY <1>1, <2>2 DEF IInv, ForgottenOK
    <3>3. th[u].ptr # X /\ th[u].ptr \in Address
      BY <1>1, <1>3, <1>5, <2>2, <3>1
    <3> QED BY <1>1, <2>2, <3>2, <3>3
  <2> QED BY <2>1, <2>2
<1>8. FailedOK'
  BY <1>1 DEF IInv, FailedOK
<1>9. LeaksOK'
  <2> SUFFICES ASSUME NEW a \in Address, heap'[a] = Null, live'[a] # Null,
                      a \notin excused'
               PROVE  \E u \in Thread : Removes(th'[u], a)
    BY DEF LeaksOK, Removes
  <2>1. CASE Removes(y, a)
    BY <1>1, <2>1
  <2>2. CASE ~ Removes(y, a)
    <3>1. heap[a] = Null /\ live[a] # Null /\ ~ Removes(th[t], a)
      BY <2>2
    <3>2. PICK u \in Thread : Removes(th[u], a)
      BY <3>1 DEF IInv, LeaksOK
    <3> QED BY <1>1, <3>1, <3>2
  <2> QED BY <2>1, <2>2
<1>10. KnownOK'
  <2> SUFFICES ASSUME mode.overhead # "delta", NEW a \in Address, heap'[a] # Null,
                      heap'[a].on, live'[a] = Null, a \notin lost'
               PROVE  \E u \in Thread : Pending(th'[u], a)
    BY DEF KnownOK, Pending, Target
  <2>1. CASE Pending(y, a)
    BY <1>1, <2>1
  <2>2. CASE \E u \in Thread : u # t /\ Pending(th[u], a)
    BY <1>1, <2>2
  <2>3. CASE /\ heap[a] # Null /\ heap[a].on /\ ~ Pending(th[t], a)
             /\ live[a] # Null => live'[a] # Null
             /\ a \in lost => a \in lost'
    <3>1. PICK u \in Thread : Pending(th[u], a)
      BY <2>3 DEF IInv, KnownOK
    <3> QED BY <1>1, <2>3, <3>1
  <2> QED BY <2>1, <2>2, <2>3
<1>11. OffOK'
  <2> SUFFICES ASSUME NEW u \in Thread, th'[u].todo = R
               PROVE  ~ heap'[th'[u].result].on
    BY DEF OffOK
  <2>1. CASE u = t
    BY <1>1, <2>1
  <2>2. CASE u # t
    <3>1. th[u].todo = R /\ th[u].todo \notin Chained
      BY <1>1, <2>2, Distinct
    <3>2. th[u].result # Null
      <4>1. R \notin {RC, C, CA, A, RCA, CRA, CR} /\ th[u] # Idle
        BY <3>1, Distinct, IdleHook DEF Chained
      <4>2. Stage(th[u])
        BY HookTypes
      <4> QED BY <3>1, <4>1, <4>2 DEF Stage
    <3>3. Uses(th[u], excused) = th[u].result
      BY <3>1, <3>2 DEF Uses
    <3> QED BY <1>1, <1>5, <2>2, <3>1, <3>2, <3>3 DEF IInv, OffOK
  <2> QED BY <2>1, <2>2
<1> QED BY <1>2, <1>6, <1>7, <1>8, <1>9, <1>10, <1>11 DEF IInv

-----------------------------------------------------------------------------
(* The actions *)

(* A call begins with a block that no other call uses. *)
LEMMA EnterOK ==
  ASSUME IInv, NEW t \in Thread, NEW c \in mode.calls, NEW n \in mode.sizes,
         NEW s \in mode.sites, NEW p \in Pointers(c), Enter(t, c, p, n, s)
  PROVE  IInv'
<1> DEFINE y == [call |-> c, todo |-> Phases(c, On(t)), ptr |-> p, size |-> n,
                 site |-> s, result |-> Null]
<1>1. /\ c \in {"malloc", "free", "realloc", "memalign"} /\ n \in Sizes /\ s \in Site
      /\ On(t) \in BOOLEAN /\ mode.profiler \in {"mem", "empty"}
  BY ModesAssumption DEF IInv, Types, On
<1>2. /\ p \in Address \cup {Null} /\ (c = "malloc" => p = Null) /\ (c = "free" => p # Null)
  BY <1>1, NullAssumption DEF Pointers, Held
<1>3. y.todo = CASE c = "free" -> RC
                 [] c = "realloc" /\ mode.profiler = "empty" -> IF On(t) THEN CRA ELSE CR
                 [] c = "realloc" /\ mode.profiler = "mem" -> IF On(t) THEN RCA ELSE C
                 [] OTHER -> IF On(t) THEN CA ELSE C
  BY DEF Phases, RC, CRA, CR, RCA, C, CA
<1>4. /\ c = "free" => y.todo = RC
      /\ c = "realloc" /\ mode.profiler = "empty" => y.todo \in {CRA, CR}
      /\ c = "realloc" /\ mode.profiler = "mem" => y.todo \in {RCA, C}
      /\ c \in {"malloc", "memalign"} => y.todo \in {CA, C}
      /\ y.todo \in Chained
  BY <1>1, <1>3 DEF Chained
<1>5. y \in Hook
  BY <1>1, <1>2, <1>4 DEF Hook, Lists
<1>6. /\ y.call = c /\ y.ptr = p /\ y.result = Null /\ y.size = n /\ y.site = s
      /\ th[t] = Idle
  BY DEF Enter
<1>7. /\ th' = [th EXCEPT ![t] = y] /\ mode' = mode /\ heap' = heap
      /\ live' = live /\ enabled' = enabled /\ value' = value /\ excused' = excused
      /\ lost' = lost
  BY DEF Enter
<1> HIDE DEF y
<1>8. Stage(y) /\ Active(y)
  BY <1>1, <1>2, <1>4, <1>6 DEF Stage, Active
<1>9. Uses(y, excused') = IF c \in {"free", "realloc"} THEN p ELSE Null
  BY <1>4, <1>6 DEF Uses
<1>10. y.todo \notin {RA, R, A, <<>>}
  BY <1>4, Distinct
<1>11. c = "realloc" /\ mode.profiler = "mem" => y.todo # CA
  BY <1>4, Distinct
<1>12. c = "realloc" /\ mode.profiler = "empty" => y.todo # CA
  BY <1>4, Distinct
<1>13. ~ Forgetful(y)
  BY <1>1, <1>4, <1>6, <1>11, <1>12, Distinct DEF Forgetful
<1>14. /\ \A a : ~ Removes(th[t], a) /\ ~ Pending(th[t], a)
       /\ Uses(th[t], excused) = Null
  BY <1>6, IdleHook
<1>15. c \in {"free", "realloc"} /\ p # Null =>
         /\ heap[p] # Null
         /\ \A u \in Thread : Uses(th[u], excused) # p
  <2> SUFFICES ASSUME c \in {"free", "realloc"}, p # Null
               PROVE  /\ heap[p] # Null
                      /\ \A u \in Thread : Uses(th[u], excused) # p
    OBVIOUS
  <2>1. heap[p] # Null /\ \A u \in Thread : p \notin Owned(th[u])
    BY DEF Pointers, Held
  <2>2. ASSUME NEW u \in Thread, th[u].call = "memalign", th[u].result # p
        PROVE  Uses(th[u], excused) # p
    <3>1. th[u].todo \in Chained \cup {A}
      BY <2>2, HookTypes, IdleHook DEF Stage, Chained, Idle
    <3>2. CASE th[u].todo \in Chained
      BY <2>2, <3>2 DEF Uses
    <3>3. CASE th[u].todo = A
      <4>1. th[u].result = Null => th[u].ptr \in excused
        BY <2>2, <3>3 DEF IInv, FailedOK
      <4> QED BY <2>2, <3>3, <4>1, Distinct DEF Uses
    <3> QED BY <3>1, <3>2, <3>3
  <2>3. ASSUME NEW u \in Thread, th[u].call # "memalign", p \notin {th[u].ptr, th[u].result}
        PROVE  Uses(th[u], excused) # p
    BY <2>3 DEF Uses
  <2> QED BY <2>1, <2>2, <2>3 DEF Owned
<1>16. /\ heap' \in [Address -> Blocks \cup {Null}]
       /\ live' \in [Address -> Records \cup {Null}]
       /\ value' \in [Site -> 0 .. (Modulus - 1)]
       /\ lost' \subseteq Address /\ excused' \subseteq Address
  BY <1>7 DEF IInv, Types
<1> QED
  BY <1>5, <1>7, <1>8, <1>9, <1>10, <1>13, <1>14, <1>15, <1>16, Framed

(* What is left of a call after remove(), whether it finds the buffer or not. *)
LEMMA Forgetting ==
  ASSUME IInv, NEW t \in Thread, In(t, "remove")
  PROVE  LET x == th[t]
             y == Advance(x)
         IN  /\ x \in Hook /\ x.ptr \in Address \cup {Null}
             /\ x.todo \in {RC, RCA, RA, R} /\ x # Idle
             /\ \/ /\ x.todo = RC /\ x.call = "free" /\ y.todo = C /\ x.result = Null
                \/ /\ x.todo = RCA /\ x.call = "realloc" /\ y.todo = CA /\ x.result = Null
                   /\ mode.profiler = "mem"
                \/ /\ x.todo = RA /\ x.call = "realloc" /\ y.todo = A /\ x.result # Null
                   /\ mode.profiler = "empty"
                \/ /\ x.todo = R /\ x.call = "realloc" /\ y = Idle /\ x.result # Null
                   /\ mode.profiler = "empty"
             /\ y # Idle => /\ y.call = x.call /\ y.ptr = x.ptr /\ y.size = x.size
                            /\ y.site = x.site /\ y.result = x.result
             /\ y \in Hook /\ Stage(y) /\ Active(y)
             /\ x.todo \in {RC, RCA} => \A ex : Uses(x, ex) = x.ptr /\ Uses(y, ex) = x.ptr
             /\ x.todo \in {RA, R} => \A ex : /\ Uses(x, ex) = x.result
                                              /\ Uses(y, ex) \in {x.result, Null}
<1> DEFINE x == th[t]
           y == Advance(x)
<1>1. /\ x \in Hook /\ Stage(x) /\ Active(x) /\ x.ptr \in Address \cup {Null}
      /\ x.todo # <<>> /\ Head(x.todo) = "remove"
  BY HookTypes DEF In
<1>2. x.todo \in {RC, RCA, RA, R} /\ x # Idle
  BY <1>1, Stages
<1>5. \/ /\ x.todo = RC /\ x.call = "free" /\ y.todo = C /\ x.result = Null
      \/ /\ x.todo = RCA /\ x.call = "realloc" /\ y.todo = CA /\ x.result = Null
         /\ mode.profiler = "mem"
      \/ /\ x.todo = RA /\ x.call = "realloc" /\ y.todo = A /\ x.result # Null
         /\ mode.profiler = "empty"
      \/ /\ x.todo = R /\ x.call = "realloc" /\ y = Idle /\ x.result # Null
         /\ mode.profiler = "empty"
  <2>1. \/ x.todo = RC /\ x.call = "free" /\ x.result = Null
        \/ x.todo = RCA /\ x.call = "realloc" /\ x.result = Null /\ mode.profiler = "mem"
        \/ x.todo \in {RA, R} /\ x.call = "realloc" /\ x.result # Null /\ mode.profiler = "empty"
    BY <1>1, <1>2, Distinct DEF Stage, Chained
  <2> QED BY <1>1, <2>1, Advanced
<1>6. /\ y \in Hook
      /\ y # Idle => /\ y.call = x.call /\ y.ptr = x.ptr /\ y.size = x.size
                     /\ y.site = x.site /\ y.result = x.result
  BY <1>1, <1>2, Advanced, IdleHook
<1> HIDE DEF y
<1>7. Stage(y) /\ Active(y)
  BY <1>1, <1>2, <1>5, <1>6, IdleHook DEF Stage, Active, Target
<1>8. /\ x.todo \in {RC, RCA} => \A ex : Uses(x, ex) = x.ptr /\ Uses(y, ex) = x.ptr
      /\ x.todo \in {RA, R} => \A ex : /\ Uses(x, ex) = x.result
                                       /\ Uses(y, ex) \in {x.result, Null}
  BY <1>5, <1>6, Distinct, IdleHook DEF Uses, Chained
<1> QED BY <1>1, <1>2, <1>5, <1>6, <1>7, <1>8, Zenon DEF y

(* remove() forgets a block: its call's, or one that has been freed. *)
LEMMA RemoveOK ==
  ASSUME IInv, NEW t \in Thread, Remove(t)
  PROVE  IInv'
<1> DEFINE x == th[t]
           y == Advance(x)
           p == x.ptr
<1>1. /\ x \in Hook /\ p \in Address \cup {Null}
      /\ x.todo \in {RC, RCA, RA, R} /\ x # Idle
  BY Forgetting DEF Remove
<1>2. x.todo \in {RC, RCA, RA, R}
  BY <1>1
<1>3. /\ th' = [th EXCEPT ![t] = y] /\ mode' = mode /\ heap' = heap /\ enabled' = enabled
      /\ excused' = excused
      /\ lost' = IF Late(t) THEN lost \cup {p} ELSE lost
      /\ live' = IF p = Null \/ live[p] = Null THEN live ELSE [live EXCEPT ![p] = Null]
  BY DEF Remove, Buffer!Removed
<1>4. value' \in [Site -> 0 .. (Modulus - 1)]
  <2>1. CASE value' = value
    BY <2>1 DEF IInv, Types
  <2>2. CASE value' # value
    <3>1. PICK e \in Untouched :
            value' = [value EXCEPT ![live[p].counter] = (@ + e) % Modulus]
      BY <2>2 DEF Remove
    <3>2. e \in Nat /\ Modulus \in Nat \ {0}
      BY SizeAssumption
    <3>3. \A v \in 0 .. (Modulus - 1) : (v + e) % Modulus \in 0 .. (Modulus - 1)
      BY <3>2
    <3>4. value \in [Site -> 0 .. (Modulus - 1)]
      BY DEF IInv, Types
    <3> QED BY <3>1, <3>3, <3>4
  <2> QED BY <2>1, <2>2
<1>5. \/ /\ x.todo = RC /\ x.call = "free" /\ y.todo = C /\ x.result = Null
      \/ /\ x.todo = RCA /\ x.call = "realloc" /\ y.todo = CA /\ x.result = Null
         /\ mode.profiler = "mem"
      \/ /\ x.todo = RA /\ x.call = "realloc" /\ y.todo = A /\ x.result # Null
         /\ mode.profiler = "empty"
      \/ /\ x.todo = R /\ x.call = "realloc" /\ y = Idle /\ x.result # Null
         /\ mode.profiler = "empty"
  BY Forgetting DEF Remove
<1>6. /\ y # Idle => /\ y.call = x.call /\ y.ptr = x.ptr /\ y.size = x.size
                     /\ y.site = x.site /\ y.result = x.result
      /\ y \in Hook
  BY Forgetting DEF Remove
<1>7. Stage(y) /\ Active(y)
  BY Forgetting DEF Remove
<1>8. /\ x.todo \in {RC, RCA} => Uses(x, excused) = p /\ Uses(y, excused) = p
      /\ x.todo \in {RA, R} => /\ Uses(x, excused) = x.result
                               /\ Uses(y, excused) \in {x.result, Null}
  BY Forgetting DEF Remove
<1> HIDE DEF y
<1>9. Uses(x, excused) # Null =>
        /\ heap[Uses(x, excused)] # Null
        /\ \A u \in Thread : u # t => Uses(th[u], excused) # Uses(x, excused)
  BY DEF IInv, UsesOK
<1>10. Uses(y, excused) \in {Uses(x, excused), Null}
  BY <1>2, <1>8
<1>11. /\ live' \in [Address -> Records \cup {Null}] /\ heap' \in [Address -> Blocks \cup {Null}]
       /\ \A a \in Address : a # p => live'[a] = live[a]
       /\ p # Null => live'[p] = Null
  BY <1>1, <1>3 DEF IInv, Types
<1>12. /\ lost' \subseteq Address /\ lost \subseteq lost' /\ excused \subseteq Address
  BY <1>1, <1>3, NullAssumption DEF IInv, Types, Late
<1>13. \A a \in Address : a # Null
  BY NullAssumption
<1>14. Forgetful(y) /\ y.ptr # Null => live'[y.ptr] = Null
  BY <1>5, <1>6, <1>11, IdleHook
<1>15. ~ (y.call \in {"malloc", "memalign"} /\ y.todo = A /\ y.result = Null)
  BY <1>5, <1>6, IdleHook, Distinct
<1>16. y.todo # R
  BY <1>5, IdleHook, Distinct DEF Chained
<1>17. \A a \in Address : heap'[a] = Null /\ live'[a] # Null =>
         heap[a] = Null /\ live[a] # Null /\ ~ Removes(x, a)
  BY <1>3, <1>11, <1>13 DEF Removes
<1>18. ASSUME NEW a \in Address, mode.overhead # "delta", heap'[a] # Null, heap'[a].on
       PROVE  \/ live'[a] # Null \/ a \in lost' \/ Pending(y, a)
              \/ \E u \in Thread : u # t /\ Pending(th[u], a)
              \/ /\ heap[a] # Null /\ heap[a].on /\ ~ Pending(x, a)
                 /\ live[a] # Null => live'[a] # Null
                 /\ a \in lost => a \in lost'
  <2>1. CASE Pending(x, a)
    <3>1. x.todo = RA /\ x.result = a
      BY <1>2, <2>1, Distinct DEF Pending, Chained
    <3>2. y.todo = A /\ Target(y) = a
      BY <1>5, <1>6, <1>13, <3>1, IdleHook, Distinct DEF Target, Chained
    <3> QED BY <3>2 DEF Pending
  <2>2. CASE a # p /\ ~ Pending(x, a)
    BY <1>3, <1>11, <1>12, <1>18, <2>2
  <2>3. CASE a = p /\ x.todo \in {RC, RCA}
    <3>1. Pending(y, a)
      BY <1>5, <1>6, <2>3, IdleHook, Distinct DEF Pending, Chained
    <3> QED BY <3>1
  <2>4. CASE a = p /\ x.todo \in {RA, R} /\ x.result = p
    <3>1. x.todo = R => ~ heap[x.result].on
      BY DEF IInv, OffOK
    <3>2. x.todo = RA
      BY <1>3, <1>18, <2>4, <3>1
    <3> QED BY <2>1, <2>4, <3>2 DEF Pending
  <2>5. CASE a = p /\ x.todo \in {RA, R} /\ x.result # p
    <3>1. x.call = "realloc" /\ mode.profiler = "empty" /\ p \notin {Null, x.result}
      BY <1>5, <1>13, <2>5, Distinct DEF Chained
    <3>2. CASE Late(t)
      BY <1>3, <2>5, <3>2
    <3>3. CASE ~ Late(t)
      <4>1. PICK u \in Thread : th[u].result = p
        BY <1>3, <1>18, <2>5, <3>1, <3>3 DEF Late
      <4>2. u # t /\ th[u].result # Null
        BY <2>5, <3>1, <4>1
      <4>3. th[u].todo \in {A, RA, R}
        <5>1. Stage(th[u]) /\ th[u] # Idle
          BY <4>2, HookTypes, IdleHook
        <5> QED BY <4>2, <5>1 DEF Stage
      <4>4. th[u].todo = R => ~ heap[a].on
        BY <2>5, <4>1 DEF IInv, OffOK
      <4>5. Pending(th[u], a)
        BY <1>3, <1>18, <2>5, <4>1, <4>2, <4>3, <4>4 DEF Pending, Target
      <4> QED BY <4>2, <4>5
    <3> QED BY <3>2, <3>3
  <2> QED BY <1>2, <2>1, <2>2, <2>3, <2>4, <2>5
<1>19. \A a \in Address : \/ live'[a] = live[a] \/ live'[a] = Null
  BY <1>11, <1>13
<1>20. /\ \A a \in Address : heap'[a] = heap[a]
       /\ Uses(y, excused') # Null => heap'[Uses(y, excused')] # Null
       /\ \A u \in Thread : u # t /\ Uses(y, excused') # Null =>
            Uses(th[u], excused) # Uses(y, excused')
  BY <1>3, <1>9, <1>10
<1> QED
  BY <1>3, <1>4, <1>6, <1>7, <1>11, <1>12, <1>14, <1>15, <1>16, <1>17, <1>18, <1>19,
     <1>20, Framed, Zenon

(* What a call uses while it is at the real function. *)
LEMMA ChainFacts ==
  ASSUME IInv, NEW t \in Thread, In(t, "chain")
  PROVE  LET x == th[t]
             X == Uses(x, excused)
         IN  /\ x \in Hook /\ Stage(x) /\ Active(x) /\ x # Idle
             /\ x.ptr \in Address \cup {Null} /\ x.result = Null
             /\ x.todo \in {CRA, CR, CA, C}
             /\ X = IF x.call \in {"free", "realloc"} THEN x.ptr ELSE Null
             /\ X # Null => heap[X] # Null
             /\ \A u \in Thread : u # t /\ X # Null => Uses(th[u], excused) # X
             /\ \A a : ~ Removes(x, a)
             /\ \A a : Pending(x, a) => x.ptr = a /\ x.call \in {"free", "realloc"}
             /\ x.todo \in {CRA, CR} => x.call = "realloc" /\ mode.profiler = "empty"
             /\ x.call = "realloc" /\ x.todo \in {CA, C} => mode.profiler = "mem"
             /\ x.call = "malloc" => x.ptr = Null
             /\ x.call \in {"malloc", "free", "realloc", "memalign"}
             /\ x.call = "free" => x.todo = C /\ x.ptr # Null
<1> DEFINE x == th[t]
           X == Uses(x, excused)
<1>1. /\ x \in Hook /\ Stage(x) /\ Active(x)
      /\ x.ptr \in Address \cup {Null} /\ x.todo # <<>> /\ Head(x.todo) = "chain"
  BY HookTypes DEF In
<1>2. x # Idle /\ x.todo \in {CRA, CR, CA, C} /\ x.result = Null
  BY <1>1, Stages
<1>3. /\ X = IF x.call \in {"free", "realloc"} THEN x.ptr ELSE Null
      /\ x.todo \notin {RA, R, A, RC, RCA}
  BY <1>2, Distinct DEF Uses, Chained
<1>4. /\ X # Null => heap[X] # Null
      /\ \A u \in Thread : u # t /\ X # Null => Uses(th[u], excused) # X
  BY DEF IInv, UsesOK
<1>5. /\ \A a : ~ Removes(x, a)
      /\ \A a : Pending(x, a) => x.ptr = a /\ x.call \in {"free", "realloc"}
  BY <1>3 DEF Removes, Pending
<1>6. /\ x.todo \in {CRA, CR} => x.call = "realloc" /\ mode.profiler = "empty"
      /\ x.call = "realloc" /\ x.todo \in {CA, C} => mode.profiler = "mem"
      /\ x.call = "malloc" => x.ptr = Null
      /\ x.call \in {"malloc", "free", "realloc", "memalign"}
      /\ x.call = "free" => x.todo = C /\ x.ptr # Null
  BY <1>1, <1>2, <1>3, Distinct DEF Stage
<1> QED BY <1>1, <1>2, <1>3, <1>4, <1>5, <1>6, Zenon

(* What is left of a call after a real function that may free or make a block. *)
LEMMA AfterChain ==
  ASSUME IInv, NEW t \in Thread, In(t, "chain"), th[t].call # "free",
         NEW r \in Address \cup {Null}
  PROVE  LET x == th[t]
             y == Advance([x EXCEPT !.result = r])
         IN  /\ y \in Hook /\ Active(y)
             /\ r # Null \/ (x.ptr # Null /\ x.todo = CA) => Stage(y)
             /\ \/ x.todo = C /\ y = Idle
                \/ /\ y # Idle /\ y.call = x.call /\ y.ptr = x.ptr /\ y.result = r
                   /\ \/ x.todo = CA /\ y.todo = A
                      \/ x.todo = CRA /\ y.todo = RA
                      \/ x.todo = CR /\ y.todo = R
             /\ ~ Forgetful(y)
<1> DEFINE x == th[t]
           z == [x EXCEPT !.result = r]
           y == Advance(z)
<1>1. /\ x \in Hook /\ Stage(x) /\ Active(x) /\ x # Idle /\ x.todo \in {CRA, CR, CA, C}
      /\ x.todo \in {CRA, CR} => x.call = "realloc" /\ mode.profiler = "empty"
      /\ x.call = "realloc" /\ x.todo \in {CA, C} => mode.profiler = "mem"
      /\ x.call = "malloc" => x.ptr = Null
      /\ x.call \in {"malloc", "realloc", "memalign"}
  BY ChainFacts
<1>2. /\ z \in Hook /\ z.todo = x.todo /\ z.call = x.call /\ z.ptr = x.ptr
      /\ z.size = x.size /\ z.site = x.site /\ z.result = r
  BY <1>1 DEF Hook
<1> HIDE DEF z
<1>3. \/ x.todo = C /\ y = Idle
      \/ /\ x.todo # C /\ y.call = x.call /\ y.ptr = x.ptr /\ y.result = r
         /\ y.size = x.size /\ y.site = x.site
         /\ \/ x.todo = CA /\ y.todo = A
            \/ x.todo = CRA /\ y.todo = RA
            \/ x.todo = CR /\ y.todo = R
  BY <1>1, <1>2, Advanced, Distinct
<1>4. y \in Hook
  BY <1>1, <1>2, Advanced, IdleHook
<1> HIDE DEF y
<1>5. x.todo # C => y # Idle
  BY <1>3, IdleHook, Distinct
<1>6. Active(y)
  BY <1>1, <1>3, <1>5 DEF Active
<1>7. r # Null \/ (x.ptr # Null /\ x.todo = CA) => Stage(y)
  <2>1. CASE x.todo = C
    BY <1>3, <2>1, IdleHook
  <2>2. CASE x.todo = CA
    BY <1>1, <1>3, <2>2, Distinct DEF Stage, Target
  <2>3. CASE x.todo \in {CRA, CR}
    BY <1>1, <1>3, <2>3, Distinct DEF Stage
  <2> QED BY <1>1, <2>1, <2>2, <2>3
<1>8. ~ Forgetful(y)
  BY <1>3, IdleHook, Distinct DEF Forgetful, Chained
<1> QED BY <1>3, <1>4, <1>5, <1>6, <1>7, <1>8, Zenon DEF y, z

(* What a step of the allocator leaves alone. *)
LEMMA SameTypes ==
  ASSUME IInv, UNCHANGED <<live, value>>
  PROVE  /\ live' \in [Address -> Records \cup {Null}]
         /\ value' \in [Site -> 0 .. (Modulus - 1)]
         /\ \A a \in Address : live'[a] = live[a]
         /\ lost \subseteq Address /\ excused \subseteq Address
         /\ \A a \in Address : a # Null
  BY NullAssumption DEF IInv, Types

(* The real free() gives up a block that has been forgotten. *)
LEMMA FreeOK ==
  ASSUME IInv, NEW t \in Thread, Free(t)
  PROVE  IInv'
<1> DEFINE x == th[t]
           p == x.ptr
<1>1. /\ In(t, "chain") /\ x.call = "free" /\ UNCHANGED <<live, value>>
      /\ mode' = mode /\ enabled' = enabled /\ excused' = excused
      /\ heap' = [heap EXCEPT ![p] = Null] /\ lost' = lost \ {p}
      /\ th' = [th EXCEPT ![t] = Advance(x)]
  BY DEF Free
<1>2. /\ x \in Hook /\ x.todo = C /\ p # Null /\ p \in Address
      /\ Uses(x, excused) = p
      /\ \A a : ~ Removes(x, a)
      /\ \A a : Pending(x, a) => p = a
  BY <1>1, ChainFacts
<1>3. Advance(x) = Idle
  BY <1>2, Advanced
<1>4. live[p] = Null \/ p \in excused
  BY <1>1, <1>2 DEF IInv, ForgottenOK, Forgetful
<1>5. /\ heap' \in [Address -> Blocks \cup {Null}]
      /\ \A a \in Address : a # p => heap'[a] = heap[a]
      /\ heap'[p] = Null
  BY <1>1, <1>2 DEF IInv, Types
<1>6. /\ live' \in [Address -> Records \cup {Null}]
      /\ value' \in [Site -> 0 .. (Modulus - 1)]
      /\ \A a \in Address : live'[a] = live[a]
      /\ lost' \subseteq Address /\ excused' \subseteq Address
      /\ \A a \in Address : a # Null
  BY <1>1, SameTypes
<1>7. /\ Idle \in Hook /\ Stage(Idle) /\ Active(Idle) /\ Idle.todo # R
      /\ Idle.todo # A
      /\ Uses(Idle, excused') = Null /\ ~ Forgetful(Idle)
  BY IdleHook, Distinct
<1>8. \A a \in Address : heap'[a] = Null /\ live'[a] # Null =>
         a \in excused' \/ (heap[a] = Null /\ live[a] # Null /\ ~ Removes(x, a))
  BY <1>1, <1>2, <1>4, <1>5, <1>6
<1>9. \A a \in Address : heap'[a] # Null /\ heap'[a].on =>
         /\ heap[a] # Null /\ heap[a].on /\ ~ Pending(x, a)
         /\ live[a] # Null => live'[a] # Null
         /\ a \in lost => a \in lost'
  BY <1>1, <1>2, <1>5, <1>6
<1>10. \A a \in Address : a # Uses(x, excused) => heap'[a] = heap[a]
  BY <1>2, <1>5
<1> HIDE DEF x, p
<1> QED
  BY <1>1, <1>3, <1>5, <1>6, <1>7, <1>8, <1>9, <1>10, Framed, Zenon DEF x

(* A block the real function has made for a call. *)
LEMMA NewBlock ==
  ASSUME IInv, NEW t \in Thread, In(t, "chain")
  PROVE  /\ Block(t) \in Blocks /\ Block(t) # Null
         /\ Block(t).on <=> th[t].todo \in {CA, CRA}
<1>1. /\ th[t] \in Hook /\ Stage(th[t]) /\ Active(th[t]) /\ th[t] # Idle
  BY ChainFacts
<1>2. /\ th[t].size \in Sizes /\ th[t].site \in Site
      /\ Recording(t) \in BOOLEAN /\ (Recording(t) <=> th[t].todo \in {CA, CRA})
  BY <1>1, Later DEF Active
<1>3. Block(t) \in Blocks /\ Block(t).on = Recording(t)
  BY <1>2 DEF Block, Blocks
<1> QED BY <1>2, <1>3, NullAssumption

(* malloc(), posix_memalign(), or a realloc() that moves: the old block is
   forgotten already, or excused, or the hook is going to forget it. *)
LEMMA AllocateOK ==
  ASSUME IInv, NEW t \in Thread, NEW a \in Address, Allocate(t, a)
  PROVE  IInv'
<1> DEFINE x == th[t]
           p == x.ptr
           y == Advance([x EXCEPT !.result = a])
           gone == IF x.call = "realloc" THEN {p} ELSE {}
<1>1. /\ In(t, "chain") /\ x.call # "free" /\ heap[a] = Null
      /\ UNCHANGED <<live, value>> /\ mode' = mode /\ enabled' = enabled
      /\ heap' = [b \in Address |-> IF b = a THEN Block(t)
                                    ELSE IF b \in gone THEN Null ELSE heap[b]]
      /\ excused' = IF Recording(t) \/ ForgetsLater(t) THEN excused
                    ELSE excused \cup (gone \ {Null})
      /\ lost' = lost \ gone
      /\ th' = [th EXCEPT ![t] = y]
  BY DEF Allocate
<1>2. /\ x \in Hook /\ Stage(x) /\ p \in Address \cup {Null}
      /\ x.todo \in {CRA, CR, CA, C}
      /\ Uses(x, excused) = IF x.call \in {"free", "realloc"} THEN p ELSE Null
      /\ Uses(x, excused) # Null => heap[Uses(x, excused)] # Null
      /\ \A b : ~ Removes(x, b)
      /\ \A b : Pending(x, b) => p = b /\ x.call \in {"free", "realloc"}
      /\ x.todo \in {CRA, CR} => x.call = "realloc" /\ mode.profiler = "empty"
  BY <1>1, ChainFacts
<1>3. /\ live' \in [Address -> Records \cup {Null}]
      /\ value' \in [Site -> 0 .. (Modulus - 1)]
      /\ \A b \in Address : live'[b] = live[b]
      /\ lost \subseteq Address /\ excused \subseteq Address
      /\ \A b \in Address : b # Null
  BY <1>1, SameTypes
<1>4. /\ y \in Hook /\ Active(y) /\ Stage(y)
      /\ \/ x.todo = C /\ y = Idle
         \/ /\ y # Idle /\ y.call = x.call /\ y.ptr = p /\ y.result = a
            /\ \/ x.todo = CA /\ y.todo = A
               \/ x.todo = CRA /\ y.todo = RA
               \/ x.todo = CR /\ y.todo = R
      /\ ~ Forgetful(y)
  BY <1>1, <1>3, AfterChain
<1>5. /\ Block(t) \in Blocks /\ Block(t) # Null
      /\ Block(t).on <=> x.todo \in {CA, CRA}
      /\ Recording(t) <=> x.todo \in {CA, CRA}
      /\ ForgetsLater(t) <=> x.todo \in {CR, CRA}
  BY <1>1, <1>2, NewBlock, Later
<1> HIDE DEF y
<1>6. /\ lost' \subseteq Address /\ excused' \subseteq Address /\ excused \subseteq excused'
      /\ x.call = "realloc" /\ x.todo = C /\ p # Null => p \in excused'
  <2>1. gone \ {Null} \subseteq Address
    BY <1>2
  <2>2. C \notin {CA, CRA, CR}
    BY Distinct
  <2> QED BY <1>1, <1>3, <1>5, <2>1, <2>2
<1>7. /\ heap' \in [Address -> Blocks \cup {Null}]
      /\ heap'[a] = Block(t) /\ heap'[a] # Null
      /\ \A b \in Address : b # a /\ b \notin gone => heap'[b] = heap[b]
      /\ \A b \in Address : b # a /\ b \in gone => heap'[b] = Null
  BY <1>1, <1>5 DEF IInv, Types
<1>8. Uses(y, excused') = IF y = Idle THEN Null ELSE a
  <2>1. CASE y = Idle
    BY <2>1, IdleHook
  <2>2. CASE y # Idle
    BY <1>3, <1>4, <2>2, IdleHook, Distinct DEF Uses, Chained
  <2> QED BY <2>1, <2>2
<1>9. \A u \in Thread : Uses(th[u], excused) # a
  BY <1>1, <1>3 DEF IInv, UsesOK
<1>10. \A b \in Address : b \notin {Uses(x, excused), Uses(y, excused')} =>
         heap'[b] = heap[b] \/ heap[b] = Null
  BY <1>1, <1>2, <1>7
<1>11. ~ (y.call \in {"malloc", "memalign"} /\ y.todo = A /\ y.result = Null)
  BY <1>3, <1>4, IdleHook, Distinct
<1>12. ASSUME NEW b \in Address, heap'[b] = Null, live'[b] # Null
       PROVE  \/ b \in excused' \/ Removes(y, b)
              \/ heap[b] = Null /\ live[b] # Null /\ ~ Removes(x, b)
  <2>1. b # a /\ live[b] # Null
    BY <1>3, <1>7, <1>12
  <2>2. CASE b \notin gone
    BY <1>2, <1>7, <1>12, <2>1, <2>2
  <2>3. CASE b \in gone /\ x.todo = C
    BY <1>3, <1>6, <2>3
  <2>4. CASE b \in gone /\ x.todo = CA
    <3>1. x.call = "realloc" /\ b = p
      BY <2>4
    <3>2. Forgetful(x) /\ p # Null
      BY <1>3, <2>4, <3>1 DEF Forgetful
    <3>3. live[p] = Null \/ p \in excused
      BY <3>2 DEF IInv, ForgottenOK
    <3> QED BY <1>6, <2>1, <3>1, <3>3
  <2>5. CASE b \in gone /\ x.todo \in {CR, CRA}
    <3>1. y.ptr = b /\ y.todo \in {R, RA}
      BY <1>4, <2>5, Distinct
    <3> QED BY <3>1 DEF Removes
  <2> QED BY <1>2, <2>2, <2>3, <2>4, <2>5
<1>13. ASSUME NEW b \in Address, heap'[b] # Null, heap'[b].on
       PROVE  \/ Pending(y, b)
              \/ /\ heap[b] # Null /\ heap[b].on /\ ~ Pending(x, b)
                 /\ live[b] # Null => live'[b] # Null
                 /\ b \in lost => b \in lost'
  <2>1. CASE b = a
    <3>1. x.todo \in {CA, CRA}
      BY <1>5, <1>7, <1>13, <2>1
    <3>2. y.result = a /\ y.todo \in {A, RA}
      BY <1>4, <3>1, Distinct
    <3> QED BY <1>3, <2>1, <3>2 DEF Pending, Target
  <2>2. CASE b # a
    <3>1. b \notin gone
      BY <1>7, <1>13, <2>2
    <3>2. ~ Pending(x, b)
      BY <1>1, <1>2, <3>1
    <3> QED BY <1>1, <1>3, <1>7, <1>13, <2>2, <3>1, <3>2
  <2> QED BY <2>1, <2>2
<1>14. y.todo = R => ~ heap'[y.result].on
  <2> SUFFICES ASSUME y.todo = R PROVE ~ heap'[y.result].on
    OBVIOUS
  <2>1. x.todo = CR /\ y.result = a
    BY <1>4, IdleHook, Distinct
  <2>2. CR \notin {CA, CRA}
    BY Distinct
  <2> QED BY <1>5, <1>7, <2>1, <2>2
<1>15. /\ Uses(y, excused') # Null => heap'[Uses(y, excused')] # Null
       /\ \A u \in Thread : u # t /\ Uses(y, excused') # Null =>
            Uses(th[u], excused) # Uses(y, excused')
  BY <1>7, <1>8, <1>9
<1> HIDE DEF x, p, gone
<1> QED
  BY <1>1, <1>3, <1>4, <1>6, <1>7, <1>10, <1>11, <1>12, <1>13, <1>14, <1>15,
     Framed, Zenon DEF x

(* The real realloc() in place: the block stays the call's own. *)
LEMMA ResizeOK ==
  ASSUME IInv, NEW t \in Thread, Resize(t)
  PROVE  IInv'
<1> DEFINE x == th[t]
           p == x.ptr
           y == Advance([x EXCEPT !.result = p])
<1>1. /\ In(t, "chain") /\ x.call = "realloc" /\ p # Null
      /\ UNCHANGED <<live, value>> /\ mode' = mode /\ enabled' = enabled
      /\ heap' = [heap EXCEPT ![p] = Block(t)]
      /\ excused' = excused /\ lost' = lost
      /\ th' = [th EXCEPT ![t] = y]
  BY DEF Resize
<1>2. /\ x \in Hook /\ Stage(x) /\ p \in Address
      /\ x.todo \in {CRA, CR, CA, C}
      /\ Uses(x, excused) = p
      /\ \A u \in Thread : u # t => Uses(th[u], excused) # p
      /\ \A b : ~ Removes(x, b)
      /\ \A b : Pending(x, b) => p = b
  BY <1>1, ChainFacts
<1>3. /\ live' \in [Address -> Records \cup {Null}]
      /\ value' \in [Site -> 0 .. (Modulus - 1)]
      /\ \A b \in Address : live'[b] = live[b]
      /\ lost' \subseteq Address /\ excused' \subseteq Address /\ excused \subseteq excused'
      /\ \A b \in Address : b # Null
  BY <1>1, SameTypes
<1>4. /\ y \in Hook /\ Active(y) /\ Stage(y)
      /\ \/ x.todo = C /\ y = Idle
         \/ /\ y # Idle /\ y.call = x.call /\ y.ptr = p /\ y.result = p
            /\ \/ x.todo = CA /\ y.todo = A
               \/ x.todo = CRA /\ y.todo = RA
               \/ x.todo = CR /\ y.todo = R
      /\ ~ Forgetful(y)
  BY <1>1, <1>2, AfterChain
<1>5. /\ Block(t) \in Blocks /\ Block(t) # Null
      /\ Block(t).on <=> x.todo \in {CA, CRA}
  BY <1>1, NewBlock
<1> HIDE DEF y
<1>6. /\ heap' \in [Address -> Blocks \cup {Null}]
      /\ heap'[p] = Block(t) /\ heap'[p] # Null
      /\ \A b \in Address : b # p => heap'[b] = heap[b]
  BY <1>1, <1>2, <1>5 DEF IInv, Types
<1>7. Uses(y, excused') = IF y = Idle THEN Null ELSE p
  <2>1. CASE y = Idle
    BY <2>1, IdleHook
  <2>2. CASE y # Idle
    BY <1>1, <1>4, <2>2, IdleHook, Distinct DEF Uses, Chained
  <2> QED BY <2>1, <2>2
<1>8. ~ (y.call \in {"malloc", "memalign"} /\ y.todo = A /\ y.result = Null)
  BY <1>1, <1>4, IdleHook, Distinct
<1>9. \A b \in Address : heap'[b] = Null /\ live'[b] # Null =>
        heap[b] = Null /\ live[b] # Null /\ ~ Removes(x, b)
  BY <1>2, <1>3, <1>6
<1>10. ASSUME NEW b \in Address, heap'[b] # Null, heap'[b].on
       PROVE  \/ Pending(y, b)
              \/ /\ heap[b] # Null /\ heap[b].on /\ ~ Pending(x, b)
                 /\ live[b] # Null => live'[b] # Null
                 /\ b \in lost => b \in lost'
  <2>1. CASE b = p
    <3>1. x.todo \in {CA, CRA}
      BY <1>5, <1>6, <1>10, <2>1
    <3>2. y.result = p /\ y.todo \in {A, RA}
      BY <1>4, <3>1, Distinct
    <3> QED BY <1>1, <2>1, <3>2 DEF Pending, Target
  <2>2. CASE b # p
    BY <1>1, <1>2, <1>3, <1>6, <1>10, <2>2
  <2> QED BY <2>1, <2>2
<1>11. y.todo = R => ~ heap'[y.result].on
  <2> SUFFICES ASSUME y.todo = R PROVE ~ heap'[y.result].on
    OBVIOUS
  <2>1. x.todo = CR /\ y.result = p
    BY <1>4, IdleHook, Distinct
  <2>2. CR \notin {CA, CRA}
    BY Distinct
  <2> QED BY <1>5, <1>6, <2>1, <2>2
<1>12. /\ Uses(y, excused') # Null => heap'[Uses(y, excused')] # Null
       /\ \A u \in Thread : u # t /\ Uses(y, excused') # Null =>
            Uses(th[u], excused) # Uses(y, excused')
       /\ \A b \in Address : b \notin {Uses(x, excused), Uses(y, excused')} =>
            heap'[b] = heap[b]
  BY <1>2, <1>6, <1>7
<1> HIDE DEF x, p
<1> QED
  BY <1>1, <1>3, <1>4, <1>6, <1>8, <1>9, <1>10, <1>11, <1>12, Framed, Zenon DEF x

(* realloc() to zero bytes: the block is excused whatever the hook does next. *)
LEMMA ReallocZeroOK ==
  ASSUME IInv, NEW t \in Thread, ReallocZero(t)
  PROVE  IInv'
<1> DEFINE x == th[t]
           p == x.ptr
           y == IF GivesUp(x) THEN Idle ELSE Advance(x)
<1>1. /\ In(t, "chain") /\ x.call = "realloc" /\ p # Null
      /\ UNCHANGED <<live, value>> /\ mode' = mode /\ enabled' = enabled
      /\ heap' = [heap EXCEPT ![p] = Null]
      /\ excused' = excused \cup {p} /\ lost' = lost \ {p}
      /\ th' = [th EXCEPT ![t] = y]
  BY DEF ReallocZero
<1>2. /\ x \in Hook /\ Stage(x) /\ p \in Address /\ x.result = Null
      /\ x.todo \in {CRA, CR, CA, C}
      /\ x.todo \in {CRA, CR} => mode.profiler = "empty"
      /\ Uses(x, excused) = p
      /\ \A b : ~ Removes(x, b)
      /\ \A b : Pending(x, b) => p = b
  BY <1>1, ChainFacts
<1>3. /\ live' \in [Address -> Records \cup {Null}]
      /\ value' \in [Site -> 0 .. (Modulus - 1)]
      /\ \A b \in Address : live'[b] = live[b]
      /\ lost \subseteq Address /\ excused \subseteq Address
      /\ \A b \in Address : b # Null
  BY <1>1, SameTypes
<1>4. [x EXCEPT !.result = Null] = x
  BY <1>2 DEF Hook
<1>5. \/ y = Idle
      \/ /\ y \in Hook /\ Active(y) /\ Stage(y) /\ ~ Forgetful(y)
         /\ y.todo = A /\ y.ptr = p /\ y.result = Null /\ y.call = "realloc"
  <2>1. CASE GivesUp(x)
    BY <2>1
  <2>2. CASE ~ GivesUp(x)
    <3>1. mode.profiler # "empty" /\ y = Advance([x EXCEPT !.result = Null])
      BY <1>1, <1>4, <2>2 DEF GivesUp
    <3>2. x.todo \in {CA, C}
      BY <1>2, <3>1
    <3>3. /\ y \in Hook /\ Active(y)
          /\ (p # Null /\ x.todo = CA) => Stage(y)
          /\ \/ x.todo = C /\ y = Idle
             \/ /\ y # Idle /\ y.call = x.call /\ y.ptr = p /\ y.result = Null
                /\ \/ x.todo = CA /\ y.todo = A
                   \/ x.todo = CRA /\ y.todo = RA
                   \/ x.todo = CR /\ y.todo = R
          /\ ~ Forgetful(y)
      <4>1. th[t].call # "free"
        BY <1>1
      <4> HIDE DEF x, y, p
      <4> QED BY <1>1, <3>1, <4>1, AfterChain DEF x, p
    <3> HIDE DEF y
    <3> QED BY <1>1, <3>2, <3>3, Distinct
  <2> QED BY <2>1, <2>2
<1> HIDE DEF y
<1>6. /\ y \in Hook /\ Active(y) /\ Stage(y) /\ ~ Forgetful(y)
      /\ y.todo # R
      /\ ~ (y.call \in {"malloc", "memalign"} /\ y.todo = A /\ y.result = Null)
  BY <1>5, IdleHook, Distinct
<1>7. Uses(y, excused') = Null
  <2>1. CASE y = Idle
    BY <2>1, IdleHook
  <2>2. CASE y # Idle
    BY <1>1, <1>5, <2>2, Distinct DEF Uses
  <2> QED BY <2>1, <2>2
<1>8. /\ heap' \in [Address -> Blocks \cup {Null}]
      /\ \A b \in Address : b # p => heap'[b] = heap[b]
      /\ heap'[p] = Null
      /\ lost' \subseteq Address /\ excused' \subseteq Address
      /\ excused \subseteq excused' /\ p \in excused'
  BY <1>1, <1>2, <1>3 DEF IInv, Types
<1>9. \A b \in Address : heap'[b] = Null /\ live'[b] # Null =>
        b \in excused' \/ (heap[b] = Null /\ live[b] # Null /\ ~ Removes(x, b))
  BY <1>2, <1>3, <1>8
<1>10. \A b \in Address : heap'[b] # Null /\ heap'[b].on =>
         /\ heap[b] # Null /\ heap[b].on /\ ~ Pending(x, b)
         /\ live[b] # Null => live'[b] # Null
         /\ b \in lost => b \in lost'
  BY <1>1, <1>2, <1>3, <1>8
<1>11. \A b \in Address : b # Uses(x, excused) => heap'[b] = heap[b]
  BY <1>2, <1>8
<1> HIDE DEF x, p
<1> QED
  BY <1>1, <1>3, <1>6, <1>7, <1>8, <1>9, <1>10, <1>11, Framed, Zenon DEF x

(* A block that a failed realloc() leaves behind is still a block. *)
LEMMA StaleBlock ==
  ASSUME NEW b \in Blocks
  PROVE  [b EXCEPT !.stale = TRUE, !.on = TRUE] \in Blocks \ {Null}
<1>1. [b EXCEPT !.stale = TRUE, !.on = TRUE] \in Blocks
  BY DEF Blocks
<1> QED BY <1>1, NullAssumption

(* A call that gets no memory ends, or goes on to enter the old block. *)
LEMMA RefuseOK ==
  ASSUME IInv, NEW t \in Thread, Refuse(t)
  PROVE  IInv'
<1> DEFINE x == th[t]
           p == x.ptr
           y == IF GivesUp(x) THEN Idle ELSE Advance(x)
           old == x.call = "realloc" /\ p # Null
           again == old /\ Recording(t) /\ ~ GivesUp(x)
<1>1. /\ In(t, "chain") /\ x.call # "free"
      /\ UNCHANGED <<live, value>> /\ mode' = mode /\ enabled' = enabled
      /\ heap' = IF again THEN [heap EXCEPT ![p].stale = TRUE, ![p].on = TRUE] ELSE heap
      /\ excused' = IF x.call = "memalign" /\ Recording(t)
                    THEN excused \cup ({p} \ {Null}) ELSE excused
      /\ lost' = lost
      /\ th' = [th EXCEPT ![t] = y]
  BY DEF Refuse
<1>2. /\ x \in Hook /\ Stage(x) /\ p \in Address \cup {Null} /\ x.result = Null
      /\ x.todo \in {CRA, CR, CA, C}
      /\ x.todo \in {CRA, CR} => x.call = "realloc" /\ mode.profiler = "empty"
      /\ x.call = "realloc" /\ x.todo \in {CA, C} => mode.profiler = "mem"
      /\ x.call = "malloc" => p = Null
      /\ x.call \in {"malloc", "realloc", "memalign"}
      /\ Uses(x, excused) = IF x.call \in {"free", "realloc"} THEN p ELSE Null
      /\ Uses(x, excused) # Null => heap[Uses(x, excused)] # Null
      /\ \A u \in Thread : u # t /\ Uses(x, excused) # Null =>
           Uses(th[u], excused) # Uses(x, excused)
      /\ \A b : ~ Removes(x, b)
      /\ \A b : Pending(x, b) => p = b /\ x.call \in {"free", "realloc"}
  BY <1>1, ChainFacts
<1>3. /\ live' \in [Address -> Records \cup {Null}]
      /\ value' \in [Site -> 0 .. (Modulus - 1)]
      /\ \A b \in Address : live'[b] = live[b]
      /\ lost' \subseteq Address /\ excused \subseteq Address
      /\ \A b \in Address : b # Null
  BY <1>1, SameTypes
<1>4. [x EXCEPT !.result = Null] = x
  BY <1>2 DEF Hook
<1>5. Recording(t) <=> x.todo \in {CA, CRA}
  BY <1>1, <1>2, Later
<1>6. GivesUp(x) <=> p = Null \/ (x.call = "realloc" /\ mode.profiler = "empty")
  BY DEF GivesUp
<1>7. \/ GivesUp(x) /\ y = Idle
      \/ ~ GivesUp(x) /\ x.todo = C /\ y = Idle
      \/ /\ ~ GivesUp(x) /\ x.todo = CA /\ p # Null
         /\ y \in Hook /\ Active(y) /\ Stage(y) /\ ~ Forgetful(y) /\ y # Idle
         /\ y.todo = A /\ y.ptr = p /\ y.result = Null /\ y.call = x.call
  <2>1. CASE GivesUp(x)
    BY <2>1
  <2>2. CASE ~ GivesUp(x)
    <3>1. y = Advance([x EXCEPT !.result = Null]) /\ p # Null
      BY <1>4, <1>6, <2>2
    <3>2. x.todo \in {CA, C}
      BY <1>2, <1>6, <2>2
    <3>3. /\ y \in Hook /\ Active(y)
          /\ (p # Null /\ x.todo = CA) => Stage(y)
          /\ \/ x.todo = C /\ y = Idle
             \/ /\ y # Idle /\ y.call = x.call /\ y.ptr = p /\ y.result = Null
                /\ \/ x.todo = CA /\ y.todo = A
                   \/ x.todo = CRA /\ y.todo = RA
                   \/ x.todo = CR /\ y.todo = R
          /\ ~ Forgetful(y)
      <4>1. th[t].call # "free"
        BY <1>1
      <4>2. In(t, "chain")
        BY <1>1
      <4> HIDE DEF x, y, p
      <4> QED BY <3>1, <4>1, <4>2, AfterChain DEF x, p
    <3> HIDE DEF y
    <3> QED BY <2>2, <3>1, <3>2, <3>3, Distinct
  <2> QED BY <2>1, <2>2
<1> HIDE DEF y
<1>8. /\ y \in Hook /\ Active(y) /\ Stage(y) /\ ~ Forgetful(y) /\ y.todo # R
  BY <1>7, IdleHook, Distinct
<1>9. /\ excused' \subseteq Address /\ excused \subseteq excused'
      /\ x.call = "memalign" /\ x.todo = CA /\ p # Null => p \in excused'
  BY <1>1, <1>2, <1>3, <1>5
<1>10. y.call \in {"malloc", "memalign"} /\ y.todo = A /\ y.result = Null =>
         y.ptr \in excused'
  BY <1>2, <1>7, <1>9, IdleHook, Distinct
<1>11. Uses(y, excused') = IF y = Idle \/ p \in excused' THEN Null ELSE p
  <2>1. CASE y = Idle
    BY <2>1, IdleHook
  <2>2. CASE y # Idle
    BY <1>7, <2>2, Distinct DEF Uses
  <2> QED BY <2>1, <2>2
<1>12. Uses(y, excused') # Null => Uses(y, excused') = Uses(x, excused)
  BY <1>2, <1>7, <1>9, <1>11
<1>13. again => /\ p \in Address /\ heap[p] \in Blocks /\ p = Uses(x, excused)
                /\ x.todo = CA /\ y # Idle /\ y.todo = A /\ y.ptr = p /\ y.result = Null
  <2> SUFFICES ASSUME again
               PROVE  /\ p \in Address /\ heap[p] \in Blocks /\ p = Uses(x, excused)
                      /\ x.todo = CA /\ y # Idle /\ y.todo = A /\ y.ptr = p
                      /\ y.result = Null
    OBVIOUS
  <2>1. p \in Address /\ p = Uses(x, excused) /\ heap[p] # Null
    BY <1>2
  <2>2. heap[p] \in Blocks
    BY <2>1 DEF IInv, Types
  <2>3. x.todo # C
    BY <1>5, Distinct
  <2> QED BY <1>7, <2>1, <2>2, <2>3
<1>14. /\ heap' \in [Address -> Blocks \cup {Null}]
       /\ \A b \in Address : ~ (again /\ b = p) => heap'[b] = heap[b]
       /\ \A b \in Address : heap[b] # Null => heap'[b] # Null
       /\ \A b \in Address : heap[b] = Null => heap'[b] = heap[b]
  <2>1. CASE ~ again
    BY <1>1, <2>1 DEF IInv, Types
  <2>2. CASE again
    <3> DEFINE new == [heap[p] EXCEPT !.stale = TRUE, !.on = TRUE]
    <3>1. new \in Blocks \ {Null}
      BY <1>13, <2>2, StaleBlock
    <3>2. heap \in [Address -> Blocks \cup {Null}]
      BY DEF IInv, Types
    <3>3. heap' = [heap EXCEPT ![p] = new]
      BY <1>1, <1>13, <2>2, <3>2
    <3>4. heap[p] # Null
      BY <1>13, <2>2, NullAssumption
    <3> HIDE DEF new
    <3> QED BY <1>13, <2>2, <3>1, <3>2, <3>3, <3>4
  <2> QED BY <2>1, <2>2
<1>15. \A b \in Address : heap'[b] = Null /\ live'[b] # Null =>
         heap[b] = Null /\ live[b] # Null /\ ~ Removes(x, b)
  BY <1>2, <1>3, <1>14
<1>16. ASSUME NEW b \in Address, heap'[b] # Null, heap'[b].on
       PROVE  \/ Pending(y, b)
              \/ /\ heap[b] # Null /\ heap[b].on /\ ~ Pending(x, b)
                 /\ live[b] # Null => live'[b] # Null
                 /\ b \in lost => b \in lost'
  <2>1. CASE again /\ b = p
    BY <1>13, <2>1 DEF Pending, Target
  <2>2. CASE ~ (again /\ b = p) /\ Pending(x, b)
    <3>1. p = b /\ x.call = "realloc" /\ x.todo = CA
      <4>1. p = b /\ x.call = "realloc"
        BY <1>1, <1>2, <2>2
      <4> QED BY <1>2, <2>2, <4>1, Distinct DEF Pending, Chained
    <3>2. p # Null /\ mode.profiler = "mem"
      BY <1>2, <1>3, <3>1
    <3>3. again
      BY <1>5, <1>6, <3>1, <3>2
    <3> QED BY <2>2, <3>1, <3>3
  <2>3. CASE ~ (again /\ b = p) /\ ~ Pending(x, b)
    BY <1>1, <1>3, <1>14, <1>16, <2>3
  <2> QED BY <2>1, <2>2, <2>3
<1>17. \A b \in Address : b \notin {Uses(x, excused), Uses(y, excused')} =>
         heap'[b] = heap[b]
  BY <1>13, <1>14
<1>18. /\ Uses(y, excused') # Null => heap'[Uses(y, excused')] # Null
       /\ \A u \in Thread : u # t /\ Uses(y, excused') # Null =>
            Uses(th[u], excused) # Uses(y, excused')
  <2>1. Uses(x, excused) \in Address \cup {Null}
    BY <1>2
  <2> QED BY <1>2, <1>12, <1>14, <2>1
<1> HIDE DEF x, p, again, old
<1> QED
  BY <1>1, <1>3, <1>8, <1>9, <1>10, <1>14, <1>15, <1>16, <1>17, <1>18, Framed, Zenon
     DEF x

(* The size that add() records is a size_t. *)
LEMMA RecordedSizes ==
  ASSUME IInv, NEW a \in Address, NEW n \in Sizes, NEW size \in Recorded(a, n)
  PROVE  size \in 0 .. (Modulus - 1)
<1> DEFINE actual == IF heap[a] # Null THEN {Usable[heap[a].size]}
                                       ELSE {Usable[m] : m \in Sizes}
<1>1. actual \subseteq 0 .. (Modulus - 1)
  <2>1. heap[a] # Null => heap[a].size \in Sizes
    BY DEF IInv, Types, Blocks
  <2> QED BY <2>1, SizeAssumption
<1>2. /\ n \in Nat /\ Modulus \in Nat \ {0} /\ n <= Usable[n]
      /\ Usable[n] \in 0 .. (Modulus - 1)
  BY SizeAssumption
<1>3. \/ mode.overhead = "none" /\ size = n
      \/ mode.overhead = "with" /\ size \in actual
      \/ mode.overhead = "delta" /\ size \in {(u - n) % Modulus : u \in actual}
  BY ModesAssumption DEF IInv, Types, Recorded
<1> HIDE DEF actual
<1>4. \A u \in actual : (u - n) % Modulus \in 0 .. (Modulus - 1)
  BY <1>1, <1>2
<1>5. n \in 0 .. (Modulus - 1)
  <2> HIDE DEF actual
  <2>1. \A k \in Nat, u \in 0 .. (Modulus - 1) : k <= u => k \in 0 .. (Modulus - 1)
    BY <1>2
  <2> QED BY <1>2, <2>1
<1>6. CASE mode.overhead = "delta" /\ size \in {(u - n) % Modulus : u \in actual}
  BY <1>4, <1>6
<1> QED BY <1>1, <1>3, <1>5, <1>6, Zenon

(* add() enters the block its call uses, or an excused one. *)
LEMMA AddOK ==
  ASSUME IInv, NEW t \in Thread, Add(t)
  PROVE  IInv'
<1> DEFINE x == th[t]
           p == Target(x)
<1>1. /\ x \in Hook /\ Stage(x) /\ Active(x) /\ x.todo # <<>> /\ Head(x.todo) = "add"
  BY HookTypes DEF Add, In
<1>2. /\ x # Idle /\ x.todo = A /\ p # Null /\ p \in Address
      /\ x.size \in Sizes /\ x.site \in Site
  BY <1>1, Stages, HookTypes DEF Active, Target
<1>3. Advance(x) = Idle
  BY <1>1, <1>2, Advanced
<1>4. /\ th' = [th EXCEPT ![t] = Idle] /\ mode' = mode /\ heap' = heap
      /\ enabled' = enabled /\ excused' = excused /\ lost' = lost \ {p}
  BY <1>3 DEF Add
<1>5. PICK size \in Recorded(p, x.size) :
        live' = IF mode.overhead = "delta" /\ size = 0 THEN live
                ELSE [live EXCEPT ![p] = [counter |-> x.site, size |-> size]]
  BY DEF Add, Buffer!Entered
<1>6. value' \in [Site -> 0 .. (Modulus - 1)]
  <2>1. value \in [Site -> 0 .. (Modulus - 1)] /\ Modulus \in Nat \ {0}
    BY SizeAssumption DEF IInv, Types
  <2>2. CASE mode.profiler = "mem" \/ live[p] = Null
    BY <2>1, <2>2 DEF Add
  <2>3. CASE ~ (mode.profiler = "mem" \/ live[p] = Null)
    <3>1. live[p] \in Records
      BY <1>2, <2>3 DEF IInv, Types
    <3>2. live[p].size \in Nat /\ live[p].counter \in Site
      BY <2>1, <3>1 DEF Records
    <3>3. value' = [value EXCEPT ![live[p].counter] = (@ - live[p].size) % Modulus]
      BY <2>3 DEF Add
    <3>4. \A v \in 0 .. (Modulus - 1) : (v - live[p].size) % Modulus \in 0 .. (Modulus - 1)
      BY <2>1, <3>2
    <3> QED BY <2>1, <3>2, <3>3, <3>4
  <2> QED BY <2>2, <2>3
<1>7. \/ Uses(x, excused) = p
      \/ p \in excused /\ Uses(x, excused) = Null
  BY <1>2, Distinct DEF Uses, Target
<1>8. Uses(x, excused) = p => heap[p] # Null
  BY <1>2 DEF IInv, UsesOK
<1> HIDE DEF x, p
<1>9. size \in 0 .. (Modulus - 1)
  BY <1>2, <1>5, RecordedSizes
<1>10. [counter |-> x.site, size |-> size] \in Records \ {Null}
  <2>1. [counter |-> x.site, size |-> size] \in Records
    BY <1>2, <1>9 DEF Records
  <2> QED BY <2>1, NullAssumption
<1>11. /\ live' \in [Address -> Records \cup {Null}]
       /\ heap' \in [Address -> Blocks \cup {Null}]
       /\ \A a \in Address : a # p => live'[a] = live[a]
       /\ mode.overhead # "delta" => live'[p] # Null
       /\ lost' \subseteq Address /\ excused' \subseteq Address
  BY <1>2, <1>4, <1>5, <1>10 DEF IInv, Types
<1>12. /\ Idle \in Hook /\ Stage(Idle) /\ Active(Idle) /\ Idle.todo # R
       /\ Idle.todo # A
       /\ Uses(Idle, excused') = Null /\ ~ Forgetful(Idle)
  BY IdleHook, Distinct
<1>13. \A a : ~ Removes(x, a) /\ (Pending(x, a) => a = p)
  BY <1>2, Distinct DEF Removes, Pending, p, Chained
<1>14. \A a \in Address : heap'[a] = Null /\ live'[a] # Null =>
         a \in excused' \/ (heap[a] = Null /\ live[a] # Null /\ ~ Removes(x, a))
  BY <1>4, <1>7, <1>8, <1>11, <1>13
<1>15. ASSUME mode.overhead # "delta", NEW a \in Address, heap'[a] # Null, heap'[a].on
       PROVE  \/ live'[a] # Null
              \/ /\ heap[a] # Null /\ heap[a].on /\ ~ Pending(x, a)
                 /\ live[a] # Null => live'[a] # Null
                 /\ a \in lost => a \in lost'
  <2>1. CASE a = p
    BY <1>11, <1>15, <2>1
  <2>2. CASE a # p
    BY <1>4, <1>11, <1>13, <1>15, <2>2
  <2> QED BY <2>1, <2>2
<1>16. \A a \in Address : live'[a] = live[a] \/ a = Uses(x, excused) \/ a \in excused'
  BY <1>4, <1>7, <1>11
<1>17. /\ \A a \in Address : heap'[a] = heap[a]
       /\ excused \subseteq excused'
  BY <1>4
<1> QED
  BY <1>4, <1>6, <1>11, <1>12, <1>14, <1>15, <1>16, <1>17, Framed, Zenon DEF x

(* An update that finds no buffer leaves a record that is excused, or a block
   that is not recorded. *)
LEMMA NoBufferOK ==
  ASSUME IInv, NEW t \in Thread, NoBuffer(t)
  PROVE  IInv'
<1> DEFINE x == th[t]
           y == Advance(x)
           p == x.ptr
<1>1. /\ th' = [th EXCEPT ![t] = y] /\ mode' = mode /\ heap' = heap /\ live' = live
      /\ enabled' = enabled /\ value' = value
      /\ In(t, "remove") \/ In(t, "add")
      /\ excused' = excused \cup {a \in Address : In(t, "remove") /\ a = p /\ live[a] # Null}
      /\ lost' = IF In(t, "add") THEN lost \cup {Target(x)} ELSE lost
  BY DEF NoBuffer, Updating
<1>2. /\ heap' \in [Address -> Blocks \cup {Null}]
      /\ live' \in [Address -> Records \cup {Null}]
      /\ value' \in [Site -> 0 .. (Modulus - 1)]
      /\ lost \subseteq Address /\ excused' \subseteq Address /\ excused \subseteq excused'
      /\ \A a \in Address : heap'[a] = heap[a] /\ live'[a] = live[a] /\ a # Null
  BY <1>1, NullAssumption DEF IInv, Types
<1>3. Uses(x, excused) # Null =>
        /\ heap[Uses(x, excused)] # Null
        /\ \A u \in Thread : u # t => Uses(th[u], excused) # Uses(x, excused)
  BY DEF IInv, UsesOK
<1>4. CASE In(t, "remove")
  <2>1. /\ x \in Hook /\ p \in Address \cup {Null}
        /\ x.todo \in {RC, RCA, RA, R} /\ x # Idle
    BY <1>4, Forgetting
  <2>2. \/ /\ x.todo = RC /\ x.call = "free" /\ y.todo = C /\ x.result = Null
        \/ /\ x.todo = RCA /\ x.call = "realloc" /\ y.todo = CA /\ x.result = Null
        \/ /\ x.todo = RA /\ x.call = "realloc" /\ y.todo = A /\ x.result # Null
        \/ /\ x.todo = R /\ x.call = "realloc" /\ y = Idle /\ x.result # Null
    BY <1>4, Forgetting
  <2>3. /\ y # Idle => /\ y.call = x.call /\ y.ptr = x.ptr /\ y.result = x.result
        /\ y \in Hook /\ Stage(y) /\ Active(y)
    BY <1>4, Forgetting
  <2>4. Uses(y, excused') \in {Uses(x, excused), Null}
    BY <1>4, <2>1, Forgetting
  <2>5. lost' = lost
    <3>1. ~ In(t, "add")
      BY <2>1, Heads, Zenon DEF In
    <3> QED BY <1>1, <3>1
  <2>6. \A a \in Address : a = p /\ live[a] # Null => a \in excused'
    BY <1>1, <1>4
  <2> HIDE DEF y
  <2>7. Forgetful(y) /\ y.ptr # Null => live'[y.ptr] = Null \/ y.ptr \in excused'
    <3>1. Forgetful(y) => y.ptr = p
      BY <2>3, IdleHook
    <3> QED BY <1>2, <2>1, <2>6, <3>1
  <2>8. ~ (y.call \in {"malloc", "memalign"} /\ y.todo = A /\ y.result = Null)
    BY <2>2, <2>3, IdleHook, Distinct
  <2>9. y.todo # R
    BY <2>2, IdleHook, Distinct DEF Chained
  <2>10. \A a \in Address : heap'[a] = Null /\ live'[a] # Null =>
           a \in excused' \/ (heap[a] = Null /\ live[a] # Null /\ ~ Removes(x, a))
    BY <1>2, <2>6 DEF Removes
  <2>11. \A a \in Address : Pending(x, a) => Pending(y, a)
    <3> SUFFICES ASSUME NEW a \in Address, Pending(x, a) PROVE Pending(y, a)
      OBVIOUS
    <3>1. x.todo = RA /\ x.result = a
      BY <2>1, Distinct DEF Pending, Chained
    <3>2. y.todo = A /\ y.result = a
      BY <2>2, <2>3, <3>1, IdleHook, Distinct DEF Chained
    <3> QED BY <1>2, <3>2 DEF Pending, Target
  <2>12. mode.overhead # "delta" =>
           \A a \in Address : heap'[a] # Null /\ heap'[a].on =>
             \/ Pending(y, a)
             \/ /\ heap[a] # Null /\ heap[a].on /\ ~ Pending(x, a)
                /\ live[a] # Null => live'[a] # Null
                /\ a \in lost => a \in lost'
    BY <1>2, <2>5, <2>11
  <2>13. /\ Uses(y, excused') # Null => heap'[Uses(y, excused')] # Null
         /\ \A u \in Thread : u # t /\ Uses(y, excused') # Null =>
              Uses(th[u], excused) # Uses(y, excused')
         /\ lost' \subseteq Address
    BY <1>1, <1>2, <1>3, <2>4, <2>5
  <2> QED
    BY <1>1, <1>2, <2>3, <2>7, <2>8, <2>9, <2>10, <2>12, <2>13, Framed, Zenon
<1>5. CASE In(t, "add")
  <2>1. x \in Hook /\ x.todo = A /\ Target(x) \in Address
    <3>1. x \in Hook /\ Stage(x) /\ x.todo # <<>> /\ Head(x.todo) = "add"
      BY <1>5, HookTypes DEF In
    <3> QED BY <3>1, Stages, HookTypes DEF Target
  <2>2. y = Idle
    BY <2>1, Advanced
  <2>3. lost' = lost \cup {Target(x)} /\ lost' \subseteq Address
    BY <1>1, <1>2, <1>5, <2>1
  <2>4. /\ Idle \in Hook /\ Stage(Idle) /\ Active(Idle) /\ Idle.todo # R
        /\ Idle.todo # A
        /\ Uses(Idle, excused') = Null /\ ~ Forgetful(Idle)
    BY IdleHook, Distinct
  <2>5. \A a : ~ Removes(x, a) /\ (Pending(x, a) => a = Target(x))
    BY <2>1, Distinct DEF Removes, Pending, Chained
  <2>6. \A a \in Address : heap'[a] = Null /\ live'[a] # Null =>
          heap[a] = Null /\ live[a] # Null /\ ~ Removes(x, a)
    BY <1>2, <2>5
  <2>7. mode.overhead # "delta" =>
          \A a \in Address : heap'[a] # Null /\ heap'[a].on =>
            \/ a \in lost'
            \/ /\ heap[a] # Null /\ heap[a].on /\ ~ Pending(x, a)
               /\ live[a] # Null => live'[a] # Null
               /\ a \in lost => a \in lost'
    BY <1>2, <2>3, <2>5
  <2>8. th' = [th EXCEPT ![t] = Idle]
    BY <1>1, <2>2
  <2> HIDE DEF y
  <2> QED BY <1>1, <1>2, <2>3, <2>4, <2>6, <2>7, <2>8, Framed, Zenon
<1> QED BY <1>1, <1>4, <1>5

(* Switching the profilers off or on changes no block and no call. *)
LEMMA SameOK ==
  ASSUME IInv, UNCHANGED <<mode, heap, live, th, value, excused, lost>>,
         enabled' \in BOOLEAN
  PROVE  IInv'
<1>1. Types'
  BY DEF IInv, Types, Stage
<1>2. UsesOK' /\ ForgottenOK' /\ FailedOK'
  BY DEF IInv, UsesOK, Uses, ForgottenOK, Forgetful, FailedOK
<1>3. LeaksOK' /\ KnownOK' /\ OffOK'
  BY DEF IInv, LeaksOK, Removes, KnownOK, Pending, Target, OffOK
<1> QED BY <1>1, <1>2, <1>3 DEF IInv

-----------------------------------------------------------------------------
(* The whole specification *)

(* At first there are no blocks, records or calls. *)
LEMMA InitOK == Init => IInv
<1> SUFFICES ASSUME Init PROVE IInv
  OBVIOUS
<1>1. \A t \in Thread : th[t] = Idle
  BY DEF Init
<1>2. Types
  <2>1. 0 \in 0 .. (Modulus - 1)
    BY SizeAssumption
  <2> QED BY <1>1, <2>1, IdleHook DEF Init, Types
<1>3. UsesOK /\ ForgottenOK
  BY <1>1, IdleHook DEF UsesOK, ForgottenOK
<1>4. FailedOK /\ OffOK
  BY <1>1, IdleHook, Distinct DEF FailedOK, OffOK
<1>5. LeaksOK /\ KnownOK
  BY DEF Init, LeaksOK, KnownOK
<1> QED BY <1>2, <1>3, <1>4, <1>5 DEF IInv

(* Every step of every program keeps the invariant. *)
LEMMA NextOK == IInv /\ [Next]_vars => IInv'
<1> SUFFICES ASSUME IInv, [Next]_vars PROVE IInv'
  OBVIOUS
<1>1. CASE \E t \in Thread, c \in mode.calls, n \in mode.sizes, s \in mode.sites :
             \E p \in Pointers(c) : Enter(t, c, p, n, s)
  BY <1>1, EnterOK
<1>2. ASSUME NEW t \in Thread,
             \/ Remove(t) \/ Free(t) \/ \E a \in Address : Allocate(t, a)
             \/ Resize(t) \/ ReallocZero(t) \/ Refuse(t) \/ Add(t) \/ NoBuffer(t)
      PROVE  IInv'
  BY <1>2, RemoveOK, FreeOK, AllocateOK, ResizeOK, ReallocZeroOK, RefuseOK, AddOK,
     NoBufferOK, Zenon
<1>3. CASE Toggle
  <2>1. enabled' \in BOOLEAN
    BY <1>3 DEF Toggle
  <2> QED BY <1>3, <2>1, SameOK DEF Toggle
<1>4. CASE UNCHANGED vars
  <2>1. enabled' \in BOOLEAN
    BY <1>4 DEF vars, IInv, Types
  <2> QED BY <1>4, <2>1, SameOK DEF vars
<1>5. CASE Ends
  <2>1. enabled' \in BOOLEAN
    BY <1>5 DEF Ends, Disable, Deactivate, KeysDestroyed, IInv, Types
  <2> QED BY <1>5, <2>1, SameOK DEF Ends
<1> QED BY <1>1, <1>2, <1>3, <1>4, <1>5, Zenon DEF Next

(* For any threads, blocks, sizes and programs, and either profiler, the inductive
   invariant holds. *)
THEOREM Inductive == Spec => []IInv
BY InitOK, NextOK, PTL DEF Spec

(* Types, for any program: what is recorded is a size_t although it is worked out
   by subtraction, and no failing call leaves something else than a block. *)
THEOREM MemTypes == Spec => []TypeOK
<1>1. IInv => TypeOK
  <2> SUFFICES ASSUME IInv PROVE TypeOK
    OBVIOUS
  <2>1. ASSUME NEW t \in Thread
        PROVE  /\ {th[t].ptr, th[t].result} \subseteq Address \cup {Null}
               /\ th[t].size \in Sizes \cup {0} /\ th[t].site \in Site \cup {Null}
               /\ \A i \in DOMAIN th[t].todo :
                     th[t].todo[i] \in {"remove", "chain", "add"}
    <3>1. th[t] \in Hook
      BY HookTypes
    <3>2. \A l \in Lists : \A i \in DOMAIN l : l[i] \in {"remove", "chain", "add"}
      BY DEF Lists, Chained, RC, RCA, CRA, CR, CA, RA, C, R, A
    <3> QED BY <3>1, <3>2 DEF Hook
  <2> QED BY <2>1 DEF IInv, Types, TypeOK
<1> QED BY <1>1, Inductive, PTL

(* No leak is missed: a block that was allocated with the profilers on is known
   once no call is about it, unless a late realloc() of the empty-memory profiler
   has removed its record, or exit() has taken the buffer from the hook that was
   to make it. *)
THEOREM NoLeakMissed == Spec => []AllocatedIsKnown
<1>1. IInv => AllocatedIsKnown
  <2> SUFFICES ASSUME IInv, NEW a \in Address, Settled(a), heap[a] # Null, heap[a].on,
                      mode.overhead # "delta"
               PROVE  live[a] # Null \/ a \in lost
    BY DEF AllocatedIsKnown
  <2>1. \A t \in Thread : ~ Pending(th[t], a)
    BY DEF Settled, Pending, Target
  <2> QED BY <2>1 DEF IInv, KnownOK
<1> QED BY <1>1, Inductive, PTL

(* The only false leaks are the excused ones: realloc() to zero bytes, realloc()
   with the memory profiler off, a failed posix_memalign(), and a block released
   when there was no buffer. *)
THEOREM FalseLeaksAreExcused == Spec => []FalseLeaksExcused
<1>1. IInv => FalseLeaksExcused
  <2> SUFFICES ASSUME IInv, NEW a \in Address, Settled(a), live[a] # Null, heap[a] = Null
               PROVE  a \in excused
    BY DEF FalseLeaksExcused
  <2>1. \A t \in Thread : ~ Removes(th[t], a)
    BY DEF Settled, Removes
  <2> QED BY <2>1 DEF IInv, LeaksOK
<1> QED BY <1>1, Inductive, PTL

-----------------------------------------------------------------------------
(* The file descriptor profiler *)

(* The lists of steps a hook may still have before it *)
Steps == {<<>>, <<"chain">>, <<"remove">>, <<"add">>, <<"remove", "add">>}

FdHook == [call : {"none", "open", "close", "dup", "dup2"}, on : BOOLEAN,
           todo : Steps, fd : Fd \cup {Null}, newfd : Fd \cup {Null},
           site : Site \cup {Null}]

(* A hook that has `add' to do is profiled and has a descriptor to add. *)
Adding(x) == x.todo \in {<<"add">>, <<"remove", "add">>}

FdStage(x) ==
  /\ x.call \in {"none", "close"} => ~ Adding(x)
  /\ x.call \notin {"none", "close"} => x.site \in Site
  /\ x.call \in {"close", "dup2"} => x.fd # Null
  /\ x.call = "dup2" => x.newfd # Null
  /\ x.todo = <<"chain">> /\ x.call \in {"open", "dup", "close"} => x.newfd = Null
  /\ x.todo # <<>> => x.call # "none"
  /\ x.todo \in {<<"remove">>, <<"remove", "add">>} => x.call \in {"close", "dup2"}
  /\ Adding(x) => x.on /\ x.newfd # Null

FdTyped ==
  /\ open \in [Fd -> Files \cup {Null}]
  /\ live \in [Fd -> FdRecords \cup {Null}]
  /\ enabled \in BOOLEAN
  /\ th \in [Thread -> FdHook]
  /\ \A t \in Thread : FdStage(th[t])

About(x) == {x.fd, x.newfd} \ {Null}

(* The descriptors of a call that has not been made are open, and no other call
   is about them. *)
Exclusive ==
  \A t \in Thread : th[t].todo = <<"chain">> =>
    \A fd \in About(th[t]) :
      /\ open[fd] # Null
      /\ \A u \in Thread \ {t} : fd \notin About(th[u])

(* A descriptor that is still to be added is open, and was made by that call. *)
FdPending ==
  \A t \in Thread : Adding(th[t]) =>
    /\ open[th[t].newfd] # Null
    /\ open[th[t].newfd].site = th[t].site

Exact(fd) == open[fd] # Null /\ (open[fd].on => open[fd].site = live[fd].counter)
Closing(x, fd) == x.todo = <<"remove">> /\ x.call = "close" /\ x.fd = fd
Making(x, fd) == Adding(x) /\ x.newfd = fd

(* What the live map knows is true of the descriptor, or will be put right, unless
   an update has been missed. *)
Known ==
  \A fd \in Fd \ stale : live[fd] # Null =>
    Exact(fd) \/ \E t \in Thread : Closing(th[t], fd) \/ Making(th[t], fd)

FdIInv == FdTyped /\ Exclusive /\ FdPending /\ Known

-----------------------------------------------------------------------------
(* The lists of steps, unrolled. *)
LEMMA FdPhasing ==
  /\ Len(<<"chain">>) = 1 /\ Len(<<"remove">>) = 1 /\ Len(<<"add">>) = 1
  /\ Len(<<"remove", "add">>) = 2 /\ Len(<<>>) = 0
  /\ Head(<<"chain">>) = "chain" /\ Head(<<"remove">>) = "remove" /\ Head(<<"add">>) = "add"
  /\ Head(<<"remove", "add">>) = "remove" /\ Tail(<<"remove", "add">>) = <<"add">>
  /\ <<"chain">> # <<"remove">> /\ <<"chain">> # <<"add">> /\ <<"remove">> # <<"add">>
  /\ <<"remove", "add">> # <<"chain">> /\ <<"remove", "add">> # <<"remove">>
  /\ <<"remove", "add">> # <<"add">>
  /\ <<>> # <<"chain">> /\ <<>> # <<"remove">> /\ <<>> # <<"add">> /\ <<>> # <<"remove", "add">>
  OBVIOUS

(* What is left of a call after one of its phases. *)
LEMMA Advancing ==
  ASSUME NEW x
  PROVE  /\ x.todo = <<"remove">> \/ x.todo = <<"add">> => FdAdvance(x) = FdIdle
         /\ x.todo = <<"remove", "add">> => FdAdvance(x) = [x EXCEPT !.todo = <<"add">>]
<1>1. x.todo = <<"remove">> => FdAdvance(x) = FdIdle
  BY FdPhasing, Zenon DEF FdAdvance
<1>2. x.todo = <<"add">> => FdAdvance(x) = FdIdle
  BY FdPhasing, Zenon DEF FdAdvance
<1>3. ASSUME x.todo = <<"remove", "add">> PROVE FdAdvance(x) = [x EXCEPT !.todo = <<"add">>]
  <2>1. Len(x.todo) = 2 /\ Tail(x.todo) = <<"add">>
    BY <1>3, FdPhasing, Zenon
  <2>2. Len(x.todo) # 1
    BY <2>1
  <2> QED BY <2>1, <2>2, Zenon DEF FdAdvance
<1> QED BY <1>1, <1>2, <1>3

(* A thread without a call is about no descriptor. *)
LEMMA FdIdleHook ==
  /\ FdIdle \in FdHook /\ FdStage(FdIdle) /\ About(FdIdle) = {} /\ ~ Adding(FdIdle)
  /\ FdIdle.todo = <<>>
  BY FdPhasing DEF FdIdle, FdHook, Steps, FdStage, About, Adding

(* What a hook is about to do tells its list of steps. *)
LEMMA FdPlaces ==
  ASSUME NEW x \in FdHook, x.todo # <<>>
  PROVE  /\ Head(x.todo) = "chain" => x.todo = <<"chain">>
         /\ Head(x.todo) = "remove" => x.todo \in {<<"remove">>, <<"remove", "add">>}
         /\ Head(x.todo) = "add" => x.todo = <<"add">>
  BY FdPhasing DEF FdHook, Steps

(* A step of one thread that leaves the descriptors of waiting calls alone. *)
LEMMA FdFramed ==
  ASSUME FdIInv, NEW t \in Thread, NEW y \in FdHook, FdStage(y),
         th' = [th EXCEPT ![t] = y], enabled' = enabled,
         open' \in [Fd -> Files \cup {Null}],
         live' \in [Fd -> FdRecords \cup {Null}],
         \A u \in Thread \ {t} : th[u].todo = <<"chain">> \/ Adding(th[u]) =>
           \A fd \in About(th[u]) :
             \/ open'[fd] = open[fd]
             \/ th[u].todo # <<"chain">> /\ fd # th[u].newfd,
         \A u \in Thread \ {t} : th[u].todo = <<"chain">> =>
           About(y) \cap About(th[u]) = {},
         y.todo = <<"chain">> => \A fd \in About(y) :
            open'[fd] # Null /\ \A u \in Thread \ {t} : fd \notin About(th[u]),
         Adding(y) => open'[y.newfd] # Null /\ open'[y.newfd].site = y.site,
         \A fd \in Fd \ stale' : live'[fd] # Null =>
           \/ open'[fd] # Null /\ (open'[fd].on => open'[fd].site = live'[fd].counter)
           \/ Closing(y, fd) \/ Making(y, fd)
           \/ \E u \in Thread \ {t} : Closing(th[u], fd) \/ Making(th[u], fd)
  PROVE  FdIInv'
<1>1. \A u \in Thread : th'[u] = IF u = t THEN y ELSE th[u]
  BY DEF FdIInv, FdTyped
<1>2. FdTyped'
  BY <1>1 DEF FdIInv, FdTyped
<1>3. Exclusive'
  <2>1. ASSUME NEW u \in Thread, th'[u].todo = <<"chain">>, NEW fd \in About(th'[u])
        PROVE  /\ open'[fd] # Null
               /\ \A v \in Thread \ {u} : fd \notin About(th'[v])
    <3>1. CASE u = t
      BY <1>1, <2>1, <3>1
    <3>2. CASE u # t
      <4>1. th[u].todo = <<"chain">> /\ fd \in About(th[u])
        BY <1>1, <2>1, <3>2
      <4>2. open[fd] # Null /\ \A v \in Thread \ {u} : fd \notin About(th[v])
        BY <4>1 DEF FdIInv, Exclusive
      <4>3. open'[fd] = open[fd] /\ fd \notin About(y)
        BY <3>2, <4>1
      <4> QED BY <1>1, <4>2, <4>3
    <3> QED BY <3>1, <3>2
  <2> QED BY <2>1 DEF Exclusive, About
<1>4. FdPending'
  <2>1. ASSUME NEW u \in Thread, Adding(th'[u])
        PROVE  open'[th'[u].newfd] # Null /\ open'[th'[u].newfd].site = th'[u].site
    <3>1. CASE u = t
      BY <1>1, <2>1, <3>1
    <3>2. CASE u # t
      <4>1. th'[u] = th[u] /\ Adding(th[u])
        BY <1>1, <2>1, <3>2
      <4>2. th[u].newfd \in About(th[u])
        BY <4>1 DEF FdIInv, FdTyped, FdStage, About
      <4>3. open'[th[u].newfd] = open[th[u].newfd]
        BY <3>2, <4>1, <4>2
      <4> QED BY <4>1, <4>3 DEF FdIInv, FdPending
    <3> QED BY <3>1, <3>2
  <2> QED BY <2>1 DEF FdPending, Adding
<1>5. Known'
  <2>1. ASSUME NEW fd \in Fd \ stale', live'[fd] # Null
        PROVE  \/ open'[fd] # Null /\ (open'[fd].on => open'[fd].site = live'[fd].counter)
               \/ \E u \in Thread : Closing(th'[u], fd) \/ Making(th'[u], fd)
    BY <1>1, <2>1
  <2> QED BY <2>1 DEF Known, Exact, Closing, Making, Adding
<1> QED BY <1>2, <1>3, <1>4, <1>5 DEF FdIInv

-----------------------------------------------------------------------------
(* The actions *)

(* The types of a thread's hook, and null apart from descriptors and records. *)
LEMMA Facts ==
  ASSUME FdIInv, NEW t \in Thread
  PROVE  /\ th[t] \in FdHook /\ FdStage(th[t])
         /\ th[t].fd \in Fd \cup {Null} /\ th[t].newfd \in Fd \cup {Null}
         /\ \A fd \in Fd : fd # Null
         /\ \A b \in Files \cup FdRecords : b # Null
  BY FdAssumption DEF FdIInv, FdTyped, FdHook

(* A step that changes neither the descriptors nor the live map *)
LEMMA Quiet ==
  ASSUME FdIInv, NEW t \in Thread, NEW y \in FdHook, FdStage(y),
         th' = [th EXCEPT ![t] = y], enabled' = enabled, open' = open, live' = live,
         stale' = stale,
         \A fd \in About(y) : open[fd] # Null /\ \A u \in Thread \ {t} : fd \notin About(th[u]),
         ~ Adding(y), ~ Adding(th[t]), th[t].todo # <<"remove">>
  PROVE  FdIInv'
<1>1. open' \in [Fd -> Files \cup {Null}] /\ live' \in [Fd -> FdRecords \cup {Null}]
  BY DEF FdIInv, FdTyped
<1>2. \A fd \in Fd : ~ Closing(th[t], fd) /\ ~ Making(th[t], fd)
  BY DEF Closing, Making
<1>3. \A fd \in Fd \ stale' : live'[fd] # Null =>
           \/ open'[fd] # Null /\ (open'[fd].on => open'[fd].site = live'[fd].counter)
           \/ Closing(y, fd) \/ Making(y, fd)
           \/ \E u \in Thread \ {t} : Closing(th[u], fd) \/ Making(th[u], fd)
  BY <1>2 DEF FdIInv, Known, Exact
<1>4. \A u \in Thread \ {t} : th[u].todo = <<"chain">> \/ Adding(th[u]) =>
           \A fd \in About(th[u]) :
             \/ open'[fd] = open[fd]
             \/ th[u].todo # <<"chain">> /\ fd # th[u].newfd
  OBVIOUS
<1>5. \A u \in Thread \ {t} : th[u].todo = <<"chain">> => About(y) \cap About(th[u]) = {}
  OBVIOUS
<1>6. y.todo = <<"chain">> => \A fd \in About(y) :
            open'[fd] # Null /\ \A u \in Thread \ {t} : fd \notin About(th[u])
  OBVIOUS
<1>7. Adding(y) => open'[y.newfd] # Null /\ open'[y.newfd].site = y.site
  OBVIOUS
<1> QED BY <1>1, <1>3, <1>4, <1>5, <1>6, <1>7, FdFramed, Zenon

(* A call begins, about descriptors that are open and in no other call. *)
LEMMA FdEnterOK ==
  ASSUME FdIInv, NEW t \in Thread, NEW c \in {"open", "close", "dup", "dup2"},
         NEW fd \in FdHeld \cup {Null}, NEW newfd \in FdHeld \cup {Null},
         NEW s \in Site \cup {Null}, FdEnter(t, c, fd, newfd, s),
         c # "close" => s \in Site, c \in {"close", "dup2"} => fd # Null,
         IF c = "dup2" THEN newfd # Null ELSE newfd = Null
  PROVE  FdIInv'
<1> DEFINE y == [call |-> c, on |-> On(t), todo |-> <<"chain">>,
                 fd |-> fd, newfd |-> newfd, site |-> s]
<1>1. fd \in Fd \cup {Null} /\ newfd \in Fd \cup {Null}
  BY DEF FdHeld
<1>2. y \in FdHook
  BY <1>1 DEF FdIInv, FdTyped, FdHook, Steps, On
<1>3. ~ Adding(y) /\ y.todo # <<"remove">> /\ y.todo # <<"remove", "add">>
  BY FdPhasing DEF Adding
<1>4. FdStage(y)
  BY <1>3, FdPhasing DEF FdStage
<1>5. th[t].todo = <<>> /\ ~ Adding(th[t]) /\ th[t].todo # <<"remove">>
  BY FdIdleHook, FdPhasing DEF FdEnter
<1>6. \A a \in About(y) : open[a] # Null /\ \A u \in Thread \ {t} : a \notin About(th[u])
  BY DEF About, FdHeld, FdSettled
<1>7. /\ th' = [th EXCEPT ![t] = y] /\ enabled' = enabled /\ open' = open /\ live' = live
      /\ stale' = stale
  BY DEF FdEnter
<1> HIDE DEF y
<1> QED BY <1>2, <1>3, <1>4, <1>5, <1>6, <1>7, Quiet

(* A call that fails changes nothing. *)
LEMMA FdRefuseOK ==
  ASSUME FdIInv, NEW t \in Thread, FdRefuse(t)
  PROVE  FdIInv'
<1>1. th[t].todo = <<"chain">>
  BY Facts, FdPlaces DEF FdRefuse, In
<1>2. ~ Adding(th[t]) /\ th[t].todo # <<"remove">>
  BY <1>1, FdPhasing DEF Adding
<1> QED BY <1>2, FdIdleHook, Quiet DEF FdRefuse

(* What is left to do when the real function has returned *)
LEMMA Returning ==
  ASSUME FdIInv, NEW t \in Thread, NEW fd \in Fd \cup {Null}, Returned(t, fd),
         th[t].call \in {"open", "close", "dup", "dup2"}, th[t].call # "close" <=> fd # Null
  PROVE  \E y \in FdHook :
           /\ FdStage(y) /\ th' = [th EXCEPT ![t] = y]
           /\ y.todo # <<"chain">> /\ About(y) \subseteq About(th[t]) \cup {fd}
           /\ Adding(y) => y.newfd = fd /\ y.site = th[t].site
           /\ th[t].call = "close" => Closing(y, th[t].fd)
           /\ th[t].call # "close" /\ th[t].on => Making(y, fd)
<1> DEFINE x == th[t]
           steps == Updates(x.call, x.on)
           y == [x EXCEPT !.todo = steps, !.newfd = fd]
<1>1. x \in FdHook /\ FdStage(x) /\ x.on \in BOOLEAN /\ x.fd \in Fd \cup {Null}
  BY Facts DEF FdHook
<1>2. steps = CASE x.call = "close" -> <<"remove">>
               [] x.call = "dup2" -> IF x.on THEN <<"remove", "add">> ELSE <<"remove">>
               [] OTHER -> IF x.on THEN <<"add">> ELSE <<>>
  BY DEF Updates
<1>3. CASE steps = <<>>
  <2>1. x.call # "close" /\ ~ x.on
    BY <1>2, <1>3, FdPhasing
  <2>2. th' = [th EXCEPT ![t] = FdIdle]
    BY <1>3 DEF Returned
  <2>3. FdIdle.todo # <<"chain">>
    BY FdIdleHook, FdPhasing
  <2> QED BY <2>1, <2>2, <2>3, FdIdleHook, FdPhasing
<1>4. CASE steps # <<>>
  <2>1. th' = [th EXCEPT ![t] = y]
    BY <1>4 DEF Returned
  <2>2. /\ steps \in {<<"remove">>, <<"add">>, <<"remove", "add">>}
        /\ x.call = "close" <=> (steps = <<"remove">> /\ x.call # "dup2")
        /\ steps \in {<<"add">>, <<"remove", "add">>} => x.on
        /\ x.call # "close" /\ x.on => steps \in {<<"add">>, <<"remove", "add">>}
        /\ steps \in {<<"add">>, <<"remove", "add">>} => x.call # "close"
        /\ steps \in {<<"remove">>, <<"remove", "add">>} => x.call \in {"close", "dup2"}
        /\ steps # <<"chain">>
    BY <1>2, <1>4, FdPhasing
  <2> HIDE DEF steps
  <2>3. /\ y.todo = steps /\ y.newfd = fd /\ y.fd = x.fd /\ y.call = x.call
        /\ y.site = x.site /\ y.on = x.on /\ y \in FdHook
    BY <1>1, <2>2 DEF FdHook, Steps
  <2> HIDE DEF y, x
  <2>4. Adding(y) <=> steps \in {<<"add">>, <<"remove", "add">>}
    BY <2>3 DEF Adding
  <2>5. FdStage(y)
    BY <1>1, <2>2, <2>3, <2>4 DEF FdStage, x
  <2>6. x.call = "close" => Closing(y, x.fd)
    BY <2>2, <2>3 DEF Closing
  <2>7. x.call # "close" /\ x.on => Making(y, fd)
    BY <2>2, <2>3, <2>4 DEF Making
  <2>8. About(y) \subseteq About(x) \cup {fd}
    BY <2>3 DEF About
  <2> QED BY <2>1, <2>2, <2>3, <2>4, <2>5, <2>6, <2>7, <2>8 DEF x
<1> QED BY <1>3, <1>4

(* The lowest of a set of descriptors is one of them. *)
LEMMA Lowest ==
  ASSUME NEW S \in SUBSET Nat, S # {}
  PROVE  Min(S) \in S
<1> DEFINE Less == OpToRel(<, Nat)
<1>1. PICK x \in S : \A y \in S : ~ (<<y, x>> \in Less)
  <2>1. IsWellFoundedOn(Less, Nat)
    BY NatLessThanWellFounded
  <2> HIDE DEF Less
  <2> QED BY <2>1, WFMin, Zenon
<1>2. \A y \in S : x <= y
  <2> SUFFICES ASSUME NEW y \in S PROVE x <= y
    OBVIOUS
  <2>1. ~ (<<y, x>>[1] < <<y, x>>[2])
    BY <1>1 DEF OpToRel
  <2> QED BY <2>1
<1> QED BY <1>2 DEF Min

(* The real function has returned: one descriptor has changed. *)
LEMMA Changed ==
  ASSUME FdIInv, NEW t \in Thread, NEW fd \in Fd, NEW made \in Files \cup {Null},
         th[t].todo = <<"chain">>, NEW y \in FdHook, FdStage(y),
         th' = [th EXCEPT ![t] = y], enabled' = enabled, live' = live,
         open' = [open EXCEPT ![fd] = made], stale \subseteq stale',
         y.todo # <<"chain">>, About(y) \subseteq About(th[t]) \cup {fd, Null},
         fd \in About(th[t]) \/ open[fd] = Null,
         Adding(y) => y.newfd = fd /\ made # Null /\ made.site = y.site,
         \/ Making(y, fd) \/ Closing(y, fd) \/ (made # Null /\ ~ made.on)
         \/ live[fd] = Null \/ fd \in stale'
  PROVE  FdIInv'
<1>1. open' \in [Fd -> Files \cup {Null}] /\ live' \in [Fd -> FdRecords \cup {Null}]
  BY DEF FdIInv, FdTyped
<1>2. /\ open'[fd] = made
      /\ \A a \in Fd : a # fd => open'[a] = open[a]
  BY DEF FdIInv, FdTyped
<1>3. \A u \in Thread : About(th[u]) \subseteq Fd
  BY Facts DEF About
<1>4. \A u \in Thread \ {t} : th[u].todo = <<"chain">> =>
        fd \notin About(th[u]) /\ About(th[t]) \cap About(th[u]) = {}
  BY DEF FdIInv, Exclusive
<1>5. \A u \in Thread \ {t} : Adding(th[u]) => fd # th[u].newfd
  <2> SUFFICES ASSUME NEW u \in Thread \ {t}, Adding(th[u]), fd = th[u].newfd PROVE FALSE
    OBVIOUS
  <2>1. fd \in About(th[u])
    BY Facts DEF About
  <2> QED BY <2>1 DEF FdIInv, Exclusive, FdPending
<1>6. \A u \in Thread \ {t} : th[u].todo = <<"chain">> \/ Adding(th[u]) =>
        \A a \in About(th[u]) :
          \/ open'[a] = open[a]
          \/ th[u].todo # <<"chain">> /\ a # th[u].newfd
  BY <1>2, <1>3, <1>4, <1>5
<1>7. \A u \in Thread \ {t} : th[u].todo = <<"chain">> => About(y) \cap About(th[u]) = {}
  BY <1>4 DEF About
<1>8. y.todo = <<"chain">> => \A a \in About(y) :
            open'[a] # Null /\ \A u \in Thread \ {t} : a \notin About(th[u])
  OBVIOUS
<1>9. Adding(y) => open'[y.newfd] # Null /\ open'[y.newfd].site = y.site
  BY <1>2
<1>10. \A a \in Fd \ stale' : live'[a] # Null =>
           \/ open'[a] # Null /\ (open'[a].on => open'[a].site = live'[a].counter)
           \/ Closing(y, a) \/ Making(y, a)
           \/ \E u \in Thread \ {t} : Closing(th[u], a) \/ Making(th[u], a)
  <2> SUFFICES ASSUME NEW a \in Fd \ stale', live[a] # Null, a # fd
               PROVE  \/ open'[a] # Null /\ (open'[a].on => open'[a].site = live'[a].counter)
                      \/ \E u \in Thread \ {t} : Closing(th[u], a) \/ Making(th[u], a)
    BY <1>2
  <2>1. ~ Closing(th[t], a) /\ ~ Making(th[t], a)
    BY FdPhasing DEF Closing, Making, Adding
  <2> QED BY <1>2, <2>1 DEF FdIInv, Known, Exact
<1> QED BY <1>1, <1>6, <1>7, <1>8, <1>9, <1>10, FdFramed, Zenon

(* The real open() or dup() makes a descriptor that is to be added. *)
LEMMA OpenOK ==
  ASSUME FdIInv, NEW t \in Thread, Open(t)
  PROVE  FdIInv'
<1> DEFINE free == {fd \in Fd : open[fd] = Null}
           new == Min(free)
<1>1. new \in Fd /\ open[new] = Null
  <2>1. free \in SUBSET Nat /\ free # {}
    BY FdAssumption DEF Open
  <2>2. Min(free) \in free
    BY <2>1, Lowest
  <2> QED BY <2>2
<1>2. /\ th[t].todo = <<"chain">> /\ th[t].call \in {"open", "dup"}
      /\ open' = [open EXCEPT ![new] = Made(t)]
      /\ Returned(t, new) /\ live' = live /\ enabled' = enabled /\ stale' = stale
  BY Facts, FdPlaces DEF Open, In
<1> HIDE DEF new
<1>3. Made(t) \in Files /\ Made(t) # Null /\ Made(t).site = th[t].site /\ Made(t).on = th[t].on
  <2>1. th[t].site \in Site /\ th[t].on \in BOOLEAN
    BY <1>2, Facts DEF FdStage, FdHook
  <2>2. Made(t) \in Files
    BY <2>1 DEF Made, Files
  <2> QED BY <2>2, Facts DEF Made
<1>4. PICK y \in FdHook :
        /\ FdStage(y) /\ th' = [th EXCEPT ![t] = y]
        /\ y.todo # <<"chain">> /\ About(y) \subseteq About(th[t]) \cup {new}
        /\ Adding(y) => y.newfd = new /\ y.site = th[t].site
        /\ th[t].on => Making(y, new)
  <2>1. new # Null
    BY <1>1, Facts
  <2> QED BY <1>1, <1>2, <2>1, Returning
<1> QED BY <1>1, <1>2, <1>3, <1>4, Changed

(* The real close() frees a descriptor that is still to be removed. *)
LEMMA CloseOK ==
  ASSUME FdIInv, NEW t \in Thread, Close(t)
  PROVE  FdIInv'
<1> DEFINE fd == th[t].fd
<1>1. /\ th[t].todo = <<"chain">> /\ th[t].call = "close" /\ fd \in Fd /\ fd # Null
      /\ open' = [open EXCEPT ![fd] = Null]
      /\ Returned(t, Null) /\ live' = live /\ enabled' = enabled /\ stale' = stale
  BY Facts, FdPlaces DEF Close, In, FdStage
<1>2. fd \in About(th[t])
  BY <1>1 DEF About
<1>3. PICK y \in FdHook :
        /\ FdStage(y) /\ th' = [th EXCEPT ![t] = y]
        /\ y.todo # <<"chain">> /\ About(y) \subseteq About(th[t]) \cup {Null}
        /\ Closing(y, fd)
  BY <1>1, Returning
<1>4. ~ Adding(y)
  BY <1>3, FdPhasing DEF Closing, Adding
<1> HIDE DEF fd
<1> QED BY <1>1, <1>2, <1>3, <1>4, Changed

(* A close() that fails frees a descriptor, whose record is stale then. *)
LEMMA CloseFailsOK ==
  ASSUME FdIInv, NEW t \in Thread, CloseFails(t)
  PROVE  FdIInv'
<1> DEFINE fd == th[t].fd
<1>1. /\ th[t].todo = <<"chain">> /\ th[t].call = "close" /\ fd \in Fd /\ fd # Null
      /\ open' = [open EXCEPT ![fd] = Null] /\ th' = [th EXCEPT ![t] = FdIdle]
      /\ live' = live /\ enabled' = enabled
  BY Facts, FdPlaces DEF CloseFails, In, FdStage
<1>2. stale \subseteq stale' /\ (live[fd] = Null \/ fd \in stale')
  BY DEF CloseFails, LeavesStale
<1>3. fd \in About(th[t])
  BY <1>1 DEF About
<1>4. FdIdle.todo # <<"chain">>
  BY FdIdleHook, FdPhasing
<1> HIDE DEF fd
<1> QED BY <1>1, <1>2, <1>3, <1>4, FdIdleHook, Changed

(* The real dup2() makes its new descriptor anew. *)
LEMMA Dup2OK ==
  ASSUME FdIInv, NEW t \in Thread, Dup2(t)
  PROVE  FdIInv'
<1> DEFINE fd == th[t].newfd
<1>1. /\ th[t].todo = <<"chain">> /\ th[t].call = "dup2" /\ fd \in Fd /\ fd # Null
      /\ open' = [open EXCEPT ![fd] = Made(t)]
      /\ Returned(t, fd) /\ live' = live /\ enabled' = enabled /\ stale' = stale
  BY Facts, FdPlaces DEF Dup2, In, FdStage
<1>2. fd \in About(th[t])
  BY <1>1 DEF About
<1>3. Made(t) \in Files /\ Made(t) # Null /\ Made(t).site = th[t].site /\ Made(t).on = th[t].on
  <2>1. th[t].site \in Site /\ th[t].on \in BOOLEAN
    BY <1>1, Facts DEF FdStage, FdHook
  <2>2. Made(t) \in Files
    BY <2>1 DEF Made, Files
  <2> QED BY <2>2, Facts DEF Made
<1>4. PICK y \in FdHook :
        /\ FdStage(y) /\ th' = [th EXCEPT ![t] = y]
        /\ y.todo # <<"chain">> /\ About(y) \subseteq About(th[t]) \cup {fd}
        /\ Adding(y) => y.newfd = fd /\ y.site = th[t].site
        /\ th[t].on => Making(y, fd)
  BY <1>1, Returning
<1> HIDE DEF fd
<1> QED BY <1>1, <1>2, <1>3, <1>4, Changed

(* The live map has been updated for one descriptor. *)
LEMMA Updated ==
  ASSUME FdIInv, NEW t \in Thread, NEW fd \in Fd, NEW res \in FdRecords \cup {Null},
         NEW y \in FdHook, FdStage(y), y.todo # <<"chain">>,
         th' = [th EXCEPT ![t] = y], enabled' = enabled, open' = open,
         live' = [live EXCEPT ![fd] = res], stale' = stale \ {fd},
         About(y) \subseteq About(th[t]),
         Adding(y) => Adding(th[t]) /\ y.newfd = th[t].newfd /\ y.site = th[t].site,
         res = Null \/ (open[fd] # Null /\ open[fd].site = res.counter),
         \A a \in Fd \ {fd} : /\ ~ Closing(th[t], a)
                              /\ Making(th[t], a) => Making(y, a)
  PROVE  FdIInv'
<1>1. open' \in [Fd -> Files \cup {Null}] /\ live' \in [Fd -> FdRecords \cup {Null}]
  BY DEF FdIInv, FdTyped
<1>2. live'[fd] = res /\ \A a \in Fd : a # fd => live'[a] = live[a]
  BY DEF FdIInv, FdTyped
<1>3. \A u \in Thread \ {t} : th[u].todo = <<"chain">> \/ Adding(th[u]) =>
        \A a \in About(th[u]) :
          \/ open'[a] = open[a]
          \/ th[u].todo # <<"chain">> /\ a # th[u].newfd
  OBVIOUS
<1>4. \A u \in Thread \ {t} : th[u].todo = <<"chain">> => About(y) \cap About(th[u]) = {}
  BY DEF FdIInv, Exclusive
<1>5. y.todo = <<"chain">> => \A a \in About(y) :
            open'[a] # Null /\ \A u \in Thread \ {t} : a \notin About(th[u])
  OBVIOUS
<1>6. Adding(y) => open'[y.newfd] # Null /\ open'[y.newfd].site = y.site
  BY DEF FdIInv, FdPending
<1>7. \A a \in Fd \ stale' : live'[a] # Null =>
           \/ open'[a] # Null /\ (open'[a].on => open'[a].site = live'[a].counter)
           \/ Closing(y, a) \/ Making(y, a)
           \/ \E u \in Thread \ {t} : Closing(th[u], a) \/ Making(th[u], a)
  <2> SUFFICES ASSUME NEW a \in Fd \ stale, live[a] # Null, a # fd
               PROVE  \/ open[a] # Null /\ (open[a].on => open[a].site = live[a].counter)
                      \/ Making(y, a)
                      \/ \E u \in Thread \ {t} : Closing(th[u], a) \/ Making(th[u], a)
    BY <1>2
  <2> QED BY DEF FdIInv, Known, Exact
<1> QED BY <1>1, <1>3, <1>4, <1>5, <1>6, <1>7, FdFramed, Zenon

(* remove() makes the profiler forget the descriptor of its call. *)
LEMMA FdRemoveOK ==
  ASSUME FdIInv, NEW t \in Thread, FdRemove(t)
  PROVE  FdIInv'
<1> DEFINE x == th[t]
<1>1. /\ x \in FdHook /\ FdStage(x) /\ x.todo \in {<<"remove">>, <<"remove", "add">>}
      /\ x.fd \in Fd
      /\ live' = [live EXCEPT ![x.fd] = Null] /\ th' = [th EXCEPT ![t] = FdAdvance(x)]
      /\ open' = open /\ enabled' = enabled /\ stale' = stale \ {x.fd}
  BY Facts, FdPlaces DEF FdRemove, In, FdStage, FdBuffer!Removed
<1>2. CASE x.todo = <<"remove">>
  <2>1. FdAdvance(x) = FdIdle
    BY <1>2, Advancing
  <2>2. ~ Adding(x)
    BY <1>2, FdPhasing DEF Adding
  <2>3. \A a \in Fd \ {x.fd} : ~ Closing(x, a) /\ ~ Making(x, a)
    BY <2>2 DEF Closing, Making
  <2>4. FdIdle.todo # <<"chain">>
    BY FdIdleHook, FdPhasing
  <2> QED BY <1>1, <2>1, <2>3, <2>4, FdIdleHook, Updated
<1>3. CASE x.todo = <<"remove", "add">>
  <2> DEFINE y == [x EXCEPT !.todo = <<"add">>]
  <2>1. FdAdvance(x) = y
    BY <1>3, Advancing
  <2>2. /\ y \in FdHook /\ y.todo = <<"add">> /\ y.fd = x.fd /\ y.newfd = x.newfd
        /\ y.site = x.site /\ y.call = x.call /\ y.on = x.on
    BY <1>1 DEF FdHook, Steps
  <2>3. Adding(x)
    BY <1>3 DEF Adding
  <2> HIDE DEF y
  <2>4. FdStage(y) /\ Adding(y) /\ y.todo # <<"chain">> /\ About(y) \subseteq About(x)
    BY <1>1, <2>2, <2>3, FdPhasing DEF FdStage, Adding, About
  <2>5. \A a \in Fd \ {x.fd} : ~ Closing(x, a) /\ (Making(x, a) => Making(y, a))
    BY <2>2, <2>4 DEF Closing, Making
  <2> QED BY <1>1, <2>1, <2>2, <2>3, <2>4, <2>5, Updated
<1> QED BY <1>1, <1>2, <1>3

(* add() enters the descriptor of its call as it was made. *)
LEMMA FdAddOK ==
  ASSUME FdIInv, NEW t \in Thread, FdAdd(t)
  PROVE  FdIInv'
<1> DEFINE x == th[t]
           res == [counter |-> x.site, size |-> 1]
<1>1. /\ x \in FdHook /\ FdStage(x) /\ x.todo = <<"add">>
      /\ live' = [live EXCEPT ![x.newfd] = res] /\ th' = [th EXCEPT ![t] = FdAdvance(x)]
      /\ open' = open /\ enabled' = enabled /\ stale' = stale \ {x.newfd}
  BY Facts, FdPlaces DEF FdAdd, In, FdBuffer!Entered
<1>2. Adding(x)
  BY <1>1 DEF Adding
<1>3. x.newfd \in Fd /\ x.site \in Site
  BY <1>1, <1>2, Facts DEF FdStage
<1>4. res \in FdRecords /\ res.counter = x.site
  BY <1>3 DEF FdRecords
<1>5. open[x.newfd] # Null /\ open[x.newfd].site = x.site
  BY <1>2 DEF FdIInv, FdPending
<1>6. FdAdvance(x) = FdIdle
  BY <1>1, Advancing
<1>7. \A a \in Fd \ {x.newfd} : ~ Closing(x, a) /\ ~ Making(x, a)
  BY <1>1, FdPhasing DEF Closing, Making
<1>8. FdIdle.todo # <<"chain">>
  BY FdIdleHook, FdPhasing
<1> HIDE DEF res
<1> QED BY <1>1, <1>3, <1>4, <1>5, <1>6, <1>7, <1>8, FdIdleHook, Updated

(* An update that finds no buffer leaves a stale record, or none. *)
LEMMA FdNoBufferOK ==
  ASSUME FdIInv, NEW t \in Thread, FdNoBuffer(t)
  PROVE  FdIInv'
<1> DEFINE x == th[t]
           y == FdAdvance(x)
<1>1. /\ x \in FdHook /\ FdStage(x)
      /\ x.todo \in {<<"remove">>, <<"remove", "add">>, <<"add">>}
      /\ th' = [th EXCEPT ![t] = y] /\ open' = open /\ live' = live /\ enabled' = enabled
  BY Facts, FdPlaces DEF FdNoBuffer, Updating, In
<1>2. \A a \in Fd \ stale' : /\ a \notin stale
                             /\ live[a] # Null => ~ Closing(x, a) /\ ~ Making(x, a)
  BY <1>1 DEF FdNoBuffer, LeavesStale, Closing, Making, FdStage
<1>3. /\ y \in FdHook /\ FdStage(y) /\ y.todo # <<"chain">> /\ About(y) \subseteq About(x)
      /\ Adding(y) => Adding(x) /\ y.newfd = x.newfd /\ y.site = x.site
  <2>1. CASE x.todo \in {<<"remove">>, <<"add">>}
    <3>1. y = FdIdle
      BY <2>1, Advancing
    <3> QED BY <3>1, FdIdleHook, FdPhasing
  <2>2. CASE x.todo = <<"remove", "add">>
    <3> DEFINE z == [x EXCEPT !.todo = <<"add">>]
    <3>1. y = z
      BY <2>2, Advancing
    <3>2. /\ z \in FdHook /\ z.todo = <<"add">> /\ z.fd = x.fd /\ z.newfd = x.newfd
          /\ z.site = x.site /\ z.call = x.call /\ z.on = x.on
      BY <1>1 DEF FdHook, Steps
    <3>3. Adding(x)
      BY <2>2 DEF Adding
    <3> HIDE DEF y, z
    <3> QED BY <1>1, <3>1, <3>2, <3>3, FdPhasing DEF FdStage, Adding, About
  <2> QED BY <1>1, <2>1, <2>2
<1> HIDE DEF y
<1>4. open' \in [Fd -> Files \cup {Null}] /\ live' \in [Fd -> FdRecords \cup {Null}]
  BY <1>1 DEF FdIInv, FdTyped
<1>5. \A u \in Thread \ {t} : th[u].todo = <<"chain">> \/ Adding(th[u]) =>
        \A a \in About(th[u]) :
          \/ open'[a] = open[a]
          \/ th[u].todo # <<"chain">> /\ a # th[u].newfd
  BY <1>1
<1>6. \A u \in Thread \ {t} : th[u].todo = <<"chain">> => About(y) \cap About(th[u]) = {}
  BY <1>3 DEF FdIInv, Exclusive
<1>7. y.todo = <<"chain">> => \A a \in About(y) :
            open'[a] # Null /\ \A u \in Thread \ {t} : a \notin About(th[u])
  BY <1>3
<1>8. Adding(y) => open'[y.newfd] # Null /\ open'[y.newfd].site = y.site
  BY <1>1, <1>3 DEF FdIInv, FdPending
<1>9. \A a \in Fd \ stale' : live'[a] # Null =>
           \/ open'[a] # Null /\ (open'[a].on => open'[a].site = live'[a].counter)
           \/ Closing(y, a) \/ Making(y, a)
           \/ \E u \in Thread \ {t} : Closing(th[u], a) \/ Making(th[u], a)
  BY <1>1, <1>2 DEF FdIInv, Known, Exact
<1> QED BY <1>1, <1>3, <1>4, <1>5, <1>6, <1>7, <1>8, <1>9, FdFramed, Zenon

-----------------------------------------------------------------------------
(* The whole specification *)

(* At first no descriptor is open or known. *)
LEMMA FdInitOK == FdInit => FdIInv
<1> SUFFICES ASSUME FdInit PROVE FdIInv
  OBVIOUS
<1>1. \A t \in Thread : th[t] = FdIdle
  BY DEF FdInit
<1>2. FdTyped
  BY <1>1, FdIdleHook DEF FdInit, FdTyped
<1>3. Exclusive /\ FdPending /\ Known
  BY <1>1, FdIdleHook DEF FdInit, Exclusive, FdPending, Known
<1> QED BY <1>2, <1>3 DEF FdIInv

(* Every step keeps the invariant. *)
LEMMA FdStepOK == FdIInv /\ [FdNext]_fdVars => FdIInv'
<1> SUFFICES ASSUME FdIInv, [FdNext]_fdVars PROVE FdIInv'
  OBVIOUS
<1>1. ASSUME open' = open, live' = live, th' = th, stale' = stale, enabled' \in BOOLEAN
      PROVE  FdIInv'
  BY <1>1 DEF FdIInv, FdTyped, Exclusive, FdPending, Known, Exact, Closing, Making, Adding, About
<1>2. CASE UNCHANGED fdVars
  BY <1>1, <1>2 DEF fdVars, FdIInv, FdTyped
<1>3. CASE FdToggle
  BY <1>1, <1>3 DEF FdToggle, FdIInv, FdTyped
<1>4. ASSUME NEW t \in Thread, NEW fd \in FdHeld, FdEnter(t, "close", fd, Null, Null)
      PROVE  FdIInv'
  <2>1. fd # Null
    BY Facts DEF FdHeld
  <2> QED BY <1>4, <2>1, FdEnterOK
<1>5. ASSUME NEW t \in Thread, NEW s \in Site, FdEnter(t, "open", Null, Null, s)
      PROVE  FdIInv'
  BY <1>5, FdEnterOK
<1>6. ASSUME NEW t \in Thread, NEW s \in Site, NEW fd \in FdHeld, FdEnter(t, "dup", fd, Null, s)
      PROVE  FdIInv'
  BY <1>6, FdEnterOK
<1>7. ASSUME NEW t \in Thread, NEW s \in Site, NEW fd \in FdHeld, NEW newfd \in FdHeld,
             FdEnter(t, "dup2", fd, newfd, s)
      PROVE  FdIInv'
  <2>1. fd # Null /\ newfd # Null
    BY Facts DEF FdHeld
  <2> QED BY <1>7, <2>1, FdEnterOK
<1>8. ASSUME NEW t \in Thread,
             \/ Open(t) \/ Close(t) \/ Dup2(t) \/ FdRefuse(t) \/ CloseFails(t)
             \/ FdRemove(t) \/ FdAdd(t) \/ FdNoBuffer(t)
      PROVE  FdIInv'
  BY <1>8, OpenOK, CloseOK, Dup2OK, FdRefuseOK, CloseFailsOK, FdRemoveOK, FdAddOK,
     FdNoBufferOK
<1>9. CASE FdEnds
  BY <1>1, <1>9 DEF FdEnds, Disable, Deactivate, KeysDestroyed, FdIInv, FdTyped
<1> QED BY <1>2, <1>3, <1>4, <1>5, <1>6, <1>7, <1>8, <1>9, Zenon DEF FdNext

(* The invariant holds in every reachable state. *)
THEOREM FdInductive == FdSpec => []FdIInv
<1>1. FdInit => FdIInv
  BY FdInitOK
<1> QED BY <1>1, FdStepOK, PTL DEF FdSpec

(* The descriptors, the live map and the hooks have their types, for any       *)
(* threads, descriptors and call stacks.                                       *)
THEOREM FdTypes == FdSpec => []FdTypeOK
<1>1. FdIInv => FdTypeOK
  <2> SUFFICES ASSUME FdIInv PROVE FdTypeOK
    OBVIOUS
  <2>1. \A t \in Thread : Len(th[t].todo) <= 2
    <3> SUFFICES ASSUME NEW t \in Thread PROVE Len(th[t].todo) <= 2
      OBVIOUS
    <3>1. th[t].todo \in Steps
      BY Facts DEF FdHook
    <3>2. Len(th[t].todo) \in {0, 1, 2}
      BY <3>1, FdPhasing, Zenon DEF Steps
    <3>3. \A n \in {0, 1, 2} : n <= 2
      OBVIOUS
    <3> QED BY <3>2, <3>3, Zenon
  <2> QED BY <2>1, Facts DEF FdTypeOK, FdIInv, FdTyped
<1> QED BY <1>1, FdInductive, PTL

(* A known descriptor that no call is about is open, and charged to the call   *)
(* that made it, although close() and dup2() update the buffer late, unless a  *)
(* close() that failed has released it or an update has found no buffer.       *)
THEOREM NoFalseLeak == FdSpec => []LiveIsOpen
<1>1. FdIInv => LiveIsOpen
  <2> SUFFICES ASSUME FdIInv, NEW fd \in Fd \ stale, FdSettled(fd), live[fd] # Null
               PROVE  Exact(fd)
    BY DEF LiveIsOpen, Exact
  <2>1. \A t \in Thread : ~ Closing(th[t], fd) /\ ~ Making(th[t], fd)
    BY DEF FdSettled, Closing, Making
  <2> QED BY <2>1 DEF FdIInv, Known
<1> QED BY <1>1, FdInductive, PTL

==============================================================================

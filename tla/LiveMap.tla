------------------------------- MODULE LiveMap -------------------------------
(***************************************************************************)
(* What the resource accounting of a trace buffer promises (the comment    *)
(* before IgProfTrace::HResource): the buffer remembers for every known    *)
(* resource the counter that owns it and its size.  Acquiring a resource   *)
(* that is already known replaces the old entry; releasing an unknown      *)
(* resource is ignored.                                                    *)
(*                                                                         *)
(* The last completed call is part of the state, so that an implementation *)
(* must perform the effect of the very call that it completes.             *)
(***************************************************************************)
CONSTANTS Address,   \* resources: memory addresses, file descriptors
          Counter,   \* profiling counters that may own resources
          Sizes,     \* sizes of a resource
          Null       \* "not known"

VARIABLES live,      \* live[a]: owner and size of a, or Null
          last       \* the last completed call

Nothing == [a \in Address |-> Null]

Acquired(c, a, sz) == <<"acquire", c, a, sz>>
Released(a) == <<"release", a>>
Cleared == <<"reset">>

(* The map m after a resource was entered, or removed. *)
Entered(m, c, a, sz) == [m EXCEPT ![a] = [counter |-> c, size |-> sz]]
Removed(m, a) == [m EXCEPT ![a] = Null]

Init == live = Nothing /\ last = Cleared

(* The resource is now owned by c, whoever owned it before. *)
Acquire(c, a, sz) == /\ last' = Acquired(c, a, sz)
                     /\ live' = Entered(live, c, a, sz)

Release(a) == /\ last' = Released(a)
              /\ live' = Removed(live, a)

Reset == /\ last' = Cleared
         /\ live' = Nothing

Next == \/ \E c \in Counter, a \in Address, sz \in Sizes : Acquire(c, a, sz)
        \/ \E a \in Address : Release(a)
        \/ Reset

Spec == Init /\ [][Next]_<<live, last>>
=============================================================================

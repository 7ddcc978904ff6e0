--------------------------- MODULE ResourceHistory ---------------------------
(***************************************************************************)
(* ResourceTable with a history variable, the last completed call, under   *)
(* which it implements the map of LiveMap call by call.                    *)
(***************************************************************************)
EXTENDS ResourceTable

VARIABLE last    \* history: the last completed call

(* The known resources, read off the table. *)
LiveOf(b) ==
  [a \in Address |->
    IF \E s \in Busy(b) : b.table[s].resource = a
    THEN LET r == b.table[CHOOSE s \in Busy(b) : b.table[s].resource = a].record
         IN  [counter |-> b.rec[r].counter, size |-> b.rec[r].size]
    ELSE Null]

Abstract == INSTANCE LiveMap WITH live <- LiveOf(buf)

(* release() of a resource whose acquisition was missed *)
ReleaseUnknown(a) ==
  LET s == FindResource(buf.table, buf.size, a)
  IN  /\ pc = "idle"
      /\ s # Null => ~ Occupied(buf, s)
      /\ UNCHANGED vars

HInit == Init /\ last = Abstract!Cleared

HNext ==
  \/ \E c \in Counter, a \in Address, sz \in Sizes :
       \/ /\ AcquireNew(c, a, sz) \/ AcquireKnown(c, a, sz)
          /\ last' = Abstract!Acquired(c, a, sz)
       \/ AcquireFull(c, a, sz) /\ UNCHANGED last
  \/ (RehashSkip \/ RehashPlace \/ RehashRetry \/ RehashDone) /\ UNCHANGED last
  \/ RetryInsert /\ last' = Abstract!Acquired(req.counter, req.address, req.size)
  \/ RetryExpand /\ UNCHANGED last
  \/ \E a \in Address :
       (Release(a) \/ ReleaseUnknown(a)) /\ last' = Abstract!Released(a)
  \/ Reset /\ last' = Abstract!Cleared

HSpec == HInit /\ [][HNext]_<<vars, last>>

(* The table implements the map: a call changes the entry of its resource as
   promised and no other, whatever the collisions, and growing the hash
   changes none (the comment at profile-trace.h:153-175). *)
ImplementsLiveMap == Abstract!Spec
=============================================================================

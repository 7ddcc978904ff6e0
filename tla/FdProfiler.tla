----------------------------- MODULE FdProfiler ------------------------------
(***************************************************************************)
(* The file descriptor profiler (profile-fd.cc): the hooks around open(),  *)
(* close(), dup() and dup2(), called by many threads, the descriptors of   *)
(* the process, and the live map of the profiler's one buffer (LiveMap).   *)
(*                                                                         *)
(* A hook calls the real function first and updates the buffer after it,   *)
(* in one or two locked steps; other threads run between them.  open64(),  *)
(* socket() and accept() have the hook of open().  The program is          *)
(* well-behaved: it passes on only descriptors that are open and that no   *)
(* other thread is about to close.                                         *)
(*                                                                         *)
(* What MemProfiler has by the same name has the prefix Fd here, so that   *)
(* one module can speak of both.                                           *)
(***************************************************************************)
EXTENDS LiveHooks, Integers, FiniteSetsExt

CONSTANTS
  Fd,         \* file descriptors the process may have open
  Calls       \* the functions the program calls

Files == [site : Site, on : BOOLEAN]
FdRecords == [counter : Site, size : {1}]

ASSUME FdAssumption == Fd \subseteq Nat /\ Null \notin Fd \cup Site \cup Files \cup FdRecords

VARIABLES
  open,       \* open[fd]: the call stack that made the descriptor and whether
              \* the profilers were on at its call, or Null
  stale       \* history: descriptors whose record no update has followed

fdVars == <<open, live, enabled, th, stale, access>>

FdBuffer == INSTANCE LiveMap WITH Address <- Fd, Counter <- Site, Sizes <- {1},
                                  last <- <<>>

FdIdle == [call |-> "none", on |-> FALSE, todo |-> <<>>, fd |-> Null,
           newfd |-> Null, site |-> Null]

FdAdvance(x) == IF Len(x.todo) = 1 THEN FdIdle ELSE [x EXCEPT !.todo = Tail(@)]

(* Mutant: close() forgets nothing while the profilers are off. *)
Updates_CloseIfOn(call, on) ==
  CASE call = "close" -> IF on THEN <<"remove">> ELSE <<>>
    [] call = "dup2" -> IF on THEN <<"remove", "add">> ELSE <<"remove">>
    [] OTHER -> IF on THEN <<"add">> ELSE <<>>

(* What a hook does to the buffer after a successful call; on is the result
   of igprof_disable(). *)
Updates(call, on) ==
  CASE call = "close" -> <<"remove">>
    [] call = "dup2" -> IF on THEN <<"remove", "add">> ELSE <<"remove">>
    [] OTHER -> IF on THEN <<"add">> ELSE <<>>

(* The call t is in has returned; the buffer is still to be updated. *)
Returned(t, newfd) ==
  LET x == th[t]
      steps == Updates(x.call, x.on)
  IN  th' = [th EXCEPT ![t] = IF steps = <<>> THEN FdIdle
                              ELSE [x EXCEPT !.todo = steps, !.newfd = newfd]]

Made(t) == [site |-> th[t].site, on |-> th[t].on]

(* Descriptors that no running call is about. *)
FdSettled(fd) == \A t \in Thread : fd \notin {th[t].fd, th[t].newfd}
FdHeld == {fd \in Fd : open[fd] # Null /\ FdSettled(fd)}

-----------------------------------------------------------------------------
FdInit ==
  /\ open = [fd \in Fd |-> Null]
  /\ live = [fd \in Fd |-> Null]
  /\ enabled = TRUE
  /\ stale = {}
  /\ AccessInit
  /\ th = [t \in Thread |-> FdIdle]

(* A thread enters a hook. *)
FdEnter(t, call, fd, newfd, s) ==
  /\ th[t] = FdIdle
  /\ th' = [th EXCEPT ![t] = [call |-> call, on |-> On(t), todo |-> <<"chain">>,
                              fd |-> fd, newfd |-> newfd, site |-> s]]
  /\ UNCHANGED <<open, live, enabled, stale, access>>

(* open() and dup() make the lowest descriptor that is free. *)
Open(t) ==
  LET free == {fd \in Fd : open[fd] = Null}
      new == Min(free)
  IN  /\ In(t, "chain")
      /\ th[t].call \in {"open", "dup"}
      /\ free # {}
      /\ open' = [open EXCEPT ![new] = Made(t)]
      /\ Returned(t, new)
      /\ UNCHANGED <<live, enabled, stale, access>>

(* close() *)
Close(t) ==
  /\ In(t, "chain")
  /\ th[t].call = "close"
  /\ open' = [open EXCEPT ![th[t].fd] = Null]
  /\ Returned(t, Null)
  /\ UNCHANGED <<live, enabled, stale, access>>

(* dup2() closes newfd and makes it again. *)
Dup2(t) ==
  /\ In(t, "chain")
  /\ th[t].call = "dup2"
  /\ open' = [open EXCEPT ![th[t].newfd] = Made(t)]
  /\ Returned(t, th[t].newfd)
  /\ UNCHANGED <<live, enabled, stale, access>>

(* Mutant: the result -1 is not looked at. *)
FdRefuse_Unchecked(t) ==
  /\ In(t, "chain")
  /\ Returned(t, -1)
  /\ UNCHANGED <<open, live, enabled, stale, access>>

(* The call fails with -1, and there is nothing to update. *)
FdRefuse(t) ==
  /\ In(t, "chain")
  /\ th' = [th EXCEPT ![t] = FdIdle]
  /\ UNCHANGED <<open, live, enabled, stale, access>>

(* The record of fd stays, if there is one, whatever happens to fd. *)
LeavesStale(fd) == stale' = stale \cup {f \in {fd} : live[f] # Null}

(* A close() that fails with EINTR or EIO has released the descriptor, but
   doclose() does not forget it. *)
CloseFails(t) ==
  /\ In(t, "chain")
  /\ th[t].call = "close"
  /\ open' = [open EXCEPT ![th[t].fd] = Null]
  /\ LeavesStale(th[t].fd)
  /\ th' = [th EXCEPT ![t] = FdIdle]
  /\ UNCHANGED <<live, enabled, access>>

(* remove(): doclose() and dodup2() release the descriptor they were given. *)
FdRemove(t) ==
  /\ In(t, "remove")
  /\ Buffered(t)
  /\ live' = FdBuffer!Removed(live, th[t].fd)
  /\ stale' = stale \ {th[t].fd}
  /\ th' = [th EXCEPT ![t] = FdAdvance(@)]
  /\ UNCHANGED <<open, enabled>>

(* add(): the new descriptor is acquired. *)
FdAdd(t) ==
  /\ In(t, "add")
  /\ Buffered(t)
  /\ live' = FdBuffer!Entered(live, th[t].site, th[t].newfd, 1)
  /\ stale' = stale \ {th[t].newfd}
  /\ th' = [th EXCEPT ![t] = FdAdvance(@)]
  /\ UNCHANGED <<open, enabled>>

(* remove() and add() return at once if the buffer is null. *)
FdNoBuffer(t) ==
  /\ Updating(t)
  /\ t \notin bufs
  /\ LeavesStale(IF th[t].call = "close" THEN th[t].fd ELSE th[t].newfd)
  /\ th' = [th EXCEPT ![t] = FdAdvance(@)]
  /\ UNCHANGED <<open, live, enabled, access>>

(* Another thread is in kill() and dumps with the profilers switched off. *)
FdToggle ==
  /\ enabled' = ~ enabled
  /\ UNCHANGED <<open, live, th, stale, access>>

(* A thread or the process ends. *)
FdEnds ==
  /\ Disable \/ Deactivate \/ \E t \in Thread : KeysDestroyed(t)
  /\ UNCHANGED <<open, live, th, stale>>

FdNext ==
  \/ \E t \in Thread, fd \in FdHeld :
       "close" \in Calls /\ FdEnter(t, "close", fd, Null, Null)
  \/ \E t \in Thread, s \in Site :
       \/ "open" \in Calls /\ FdEnter(t, "open", Null, Null, s)
       \/ \E fd \in FdHeld :
            \/ "dup" \in Calls /\ FdEnter(t, "dup", fd, Null, s)
            \/ "dup2" \in Calls /\ \E newfd \in FdHeld : FdEnter(t, "dup2", fd, newfd, s)
  \/ \E t \in Thread : \/ Open(t) \/ Close(t) \/ Dup2(t) \/ FdRefuse(t) \/ CloseFails(t)
                       \/ FdRemove(t) \/ FdAdd(t) \/ FdNoBuffer(t)
  \/ FdToggle
  \/ FdEnds

FdSpec == FdInit /\ [][FdNext]_fdVars

-----------------------------------------------------------------------------
(* Properties *)

(* Types of the descriptor table, the live map and the hooks in progress. *)
FdTypeOK ==
  /\ open \in [Fd -> Files \cup {Null}]
  /\ live \in [Fd -> FdRecords \cup {Null}]
  /\ enabled \in BOOLEAN
  /\ \A t \in Thread : /\ {th[t].fd, th[t].newfd} \subseteq Fd \cup {Null}
                       /\ Len(th[t].todo) <= 2

(* No false leak: although close() updates the buffer only when the descriptor
   may already belong to another thread, and the profilers are switched off and
   on at any moment, a known descriptor that no call is about is open; it is
   charged to the call that made it, unless that call was not profiled.  The
   exceptions, until the descriptor is next updated: a close() that released it
   and failed, and an update that found no buffer, in the destructor of another
   key or after exit(). *)
LiveIsOpen ==
  \A fd \in Fd \ stale : FdSettled(fd) /\ live[fd] # Null =>
    /\ open[fd] # Null
    /\ open[fd].on => open[fd].site = live[fd].counter
=============================================================================

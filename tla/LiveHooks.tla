------------------------------ MODULE LiveHooks ------------------------------
(***************************************************************************)
(* What the hooks of the profilers with a live map have in common: threads *)
(* of the program are in hooks, which update the map in the profiler's one *)
(* buffer, unless the profilers are switched off.                          *)
(*                                                                         *)
(* A thread finds the buffer and its own flag through two keys.  Both are  *)
(* gone once the destructors of its thread-specific data have run; those   *)
(* of other keys may still call the hooked functions.  exit() switches the *)
(* profilers off first, and then no hook finds the buffer any more.        *)
(***************************************************************************)
EXTENDS Sequences

CONSTANTS
  Thread,     \* threads of the program
  Site,       \* call stacks from which the hooked functions are called
  Null

VARIABLES
  live,       \* the buffer's live map
  enabled,    \* s_igprof_enabled > 0
  th,         \* th[t]: the hook thread t is in
  activated,  \* s_igprof_activated
  flags,      \* threads that have their flag (s_igprof_flagkey)
  bufs        \* threads whose next igprof_buffer() is, or whose last one was,
              \* not null

access == <<activated, flags, bufs>>

In(t, phase) == th[t].todo # <<>> /\ Head(th[t].todo) = phase
Updating(t)  == In(t, "remove") \/ In(t, "add")

(* What igprof_disable() returns *)
On(t) == enabled /\ t \in flags

AccessInit == activated = TRUE /\ flags = Thread /\ bufs = Thread

(* The buffer was not null; after the update it is looked up anew. *)
Buffered(t) ==
  /\ t \in bufs
  /\ bufs' = IF activated THEN bufs ELSE bufs \ {t}
  /\ UNCHANGED <<activated, flags>>

(* The destructors of the two keys have run; both values are null first. *)
KeysDestroyed(t) ==
  /\ th[t].todo = <<>> /\ t \in flags
  /\ flags' = flags \ {t}
  /\ bufs' = bufs \ {t}
  /\ UNCHANGED <<activated, enabled>>

(* exitDump(), in a thread that is in no hook, switches the profilers off. *)
Disable ==
  /\ activated /\ \E t \in Thread : th[t].todo = <<>>
  /\ enabled' = FALSE
  /\ UNCHANGED access

(* Then it deactivates them.  Other threads may have the buffer already. *)
Deactivate ==
  /\ activated /\ ~ enabled /\ \E t \in Thread : th[t].todo = <<>>
  /\ activated' = FALSE
  /\ bufs' \in SUBSET {t \in bufs : Updating(t)}
  /\ UNCHANGED <<enabled, flags>>

==============================================================================

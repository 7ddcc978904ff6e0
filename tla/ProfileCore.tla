----------------------------- MODULE ProfileCore -----------------------------
(***************************************************************************)
(* The profiler core (profile.cc): threads that sample into their buffers, *)
(* come and go, and the dumps that are taken meanwhile - by the dump       *)
(* thread or igprof_dump_now(), by a thread in kill(), and by exit().      *)
(*                                                                         *)
(* Shared are the set of outstanding buffers under s_buflock, the buffers, *)
(* each under its own lock, and the flags s_igprof_activated and           *)
(* s_igprof_enabled, under none.  The buffer of a thread has the thread's  *)
(* name.  What a buffer holds is reduced to the number of samples of each  *)
(* thread in it.                                                           *)
(***************************************************************************)
EXTENDS Integers, FiniteSets, Functions

CONSTANTS
  Thread,      \* threads of the program
  Main,        \* the main thread
  Dumper,      \* threads that only dump
  Master,      \* s_masterbuf
  MaxSamples,  \* bound on the samples of all threads together
  MaxDumps,    \* bound on the dumps of a dumper, and on the calls of kill()
  Nobody

ASSUME ThreadAssumption == /\ Main \in Thread
                           /\ Thread \cap Dumper = {}
                           /\ Master \notin Thread
                           /\ Nobody \notin Thread \cup Dumper \cup {Master}
ASSUME BoundAssumption == MaxSamples \in Nat /\ MaxDumps \in Nat

VARIABLES
  activated,   \* s_igprof_activated
  enabled,     \* s_igprof_enabled
  perThread,   \* s_perthread
  exiting,     \* the thread that runs the exit handlers
  bufs,        \* allTraceBuffers()
  made,        \* the buffers that exist
  content,     \* content[b][t]: samples of t in buffer b
  big,         \* who holds s_buflock
  held,        \* held[b]: who holds the lock of buffer b
  pc,          \* pc[a]: where thread or dumper a is
  dump,        \* dump[a]: the dump a is taking
  taken,       \* history: taken[t]: samples t has recorded
  dumps        \* history: dumps[a]: how many dumps a has begun

vars == <<activated, enabled, perThread, exiting, bufs, made, content, big, held, pc, dump, taken, dumps>>
flags == <<activated, enabled, perThread, exiting>>
buffers == <<bufs, made, content>>
locks == <<big, held>>
history == <<taken, dumps>>

Actor == Thread \cup Dumper
None == [t \in Thread |-> 0]
NoDump == [left |-> {}, reading |-> Nobody, seen |-> None, since |-> None]

(* igprof_buffer() of a profiled thread *)
Own(t) == IF perThread THEN t ELSE Master

Go(a, to) == pc' = [pc EXCEPT ![a] = to]
At(a, where) == pc[a] = where /\ \A t \in Thread : pc[t] # "over"
Plus(f, g) == [t \in Thread |-> f[t] + g[t]]

(* Mutant: in shared mode the master buffer is remembered as well. *)
Init_SharedMaster ==
  /\ activated = TRUE
  /\ enabled = 1
  /\ perThread \in BOOLEAN
  /\ exiting = Nobody
  /\ bufs = {Own(Main)}
  /\ made = bufs \cup {Master}
  /\ content = [b \in Thread \cup {Master} |-> None]
  /\ big = Nobody
  /\ held = [b \in Thread \cup {Master} |-> Nobody]
  /\ pc = [a \in Actor |-> IF a = Main THEN "running"
                           ELSE IF a \in Thread THEN "none" ELSE "idle"]
  /\ dump = [a \in Actor |-> NoDump]
  /\ taken = None
  /\ dumps = [a \in Actor |-> 0]

Init ==
  /\ activated = TRUE
  /\ enabled = 1
  /\ perThread \in BOOLEAN
  /\ exiting = Nobody
  /\ bufs = IF perThread THEN {Main} ELSE {}
  /\ made = bufs \cup {Master}
  /\ content = [b \in Thread \cup {Master} |-> None]
  /\ big = Nobody
  /\ held = [b \in Thread \cup {Master} |-> Nobody]
  /\ pc = [a \in Actor |-> IF a = Main THEN "running"
                           ELSE IF a \in Thread THEN "none" ELSE "idle"]
  /\ dump = [a \in Actor |-> NoDump]
  /\ taken = None
  /\ dumps = [a \in Actor |-> 0]

-----------------------------------------------------------------------------
(* Threads *)

(* pthread_create() starts the thread in threadWrapper. *)
Create(t) ==
  /\ At(t, "none")
  /\ \E u \in Thread : pc[u] = "running"
  /\ Go(t, "wrapper")
  /\ UNCHANGED <<flags, buffers, locks, dump, history>>

(* threadWrapper: a new thread gets a buffer *)
Wrap(t) ==
  LET own == IF perThread THEN {t} ELSE {}
  IN  /\ At(t, "wrapper")
      /\ activated
      /\ made' = made \cup own
      /\ content' = [b \in DOMAIN content |-> IF b \in own THEN None ELSE content[b]]
      /\ Go(t, IF perThread THEN "insert" ELSE "running")
      /\ UNCHANGED <<flags, bufs, locks, dump, history>>

(* threadWrapper: no profiling any more *)
WrapLate(t) ==
  /\ At(t, "wrapper")
  /\ ~ activated
  /\ Go(t, "unprofiled")
  /\ UNCHANGED <<flags, buffers, locks, dump, history>>

(* makeTraceBuffer: the buffer is remembered *)
Insert(t) ==
  /\ At(t, "insert")
  /\ big = Nobody
  /\ bufs' = bufs \cup {t}
  /\ Go(t, "running")
  /\ UNCHANGED <<flags, made, content, locks, dump, history>>

(* profileSignalHandler: igprof_disable() *)
SampleBegin(t) ==
  /\ At(t, "running")
  /\ SumFunction(taken) < MaxSamples
  /\ enabled > 0
  /\ Go(t, "handler")
  /\ UNCHANGED <<flags, buffers, locks, dump, history>>

(* profileSignalHandler: igprof_buffer() *)
SampleBuffer(t) ==
  /\ At(t, "handler")
  /\ Go(t, IF activated THEN "sample" ELSE "running")
  /\ UNCHANGED <<flags, buffers, locks, dump, history>>

SampleLock(t) ==
  /\ At(t, "sample")
  /\ held[Own(t)] = Nobody
  /\ held' = [held EXCEPT ![Own(t)] = t]
  /\ Go(t, "push")
  /\ UNCHANGED <<flags, buffers, big, dump, history>>

(* Mutant: the buffer stays locked after the sample. *)
SampleRecord_KeepsLock(t) ==
  /\ At(t, "push")
  /\ content' = [content EXCEPT ![Own(t)][t] = @ + 1]
  /\ taken' = [taken EXCEPT ![t] = @ + 1]
  /\ Go(t, "running")
  /\ UNCHANGED <<flags, bufs, made, locks, dump, dumps>>

SampleRecord(t) ==
  /\ At(t, "push")
  /\ content' = [content EXCEPT ![Own(t)][t] = @ + 1]
  /\ taken' = [taken EXCEPT ![t] = @ + 1]
  /\ held' = [held EXCEPT ![Own(t)] = Nobody]
  /\ Go(t, "running")
  /\ UNCHANGED <<flags, bufs, made, big, dump, dumps>>

(* A thread ends; its thread-specific buffer is set to null and handed to
   freeTraceBuffer. *)
Leave(t) ==
  /\ At(t, "running")
  /\ t # Main
  /\ Go(t, "free")
  /\ UNCHANGED <<flags, buffers, locks, dump, history>>

(* Mutant: a thread's buffer is merged without s_buflock. *)
FreeLock_Never(t) ==
  /\ At(t, "free")
  /\ Go(t, IF perThread THEN "merge" ELSE "freed")
  /\ UNCHANGED <<flags, buffers, locks, dump, history>>

FreeLock(t) ==
  /\ At(t, "free")
  /\ big = Nobody
  /\ big' = t
  /\ Go(t, IF perThread THEN "merge" ELSE "freed")
  /\ UNCHANGED <<flags, buffers, held, dump, history>>

MergeLockMaster(t) ==
  /\ At(t, "merge")
  /\ held[Master] = Nobody
  /\ held' = [held EXCEPT ![Master] = t]
  /\ Go(t, "merge other")
  /\ UNCHANGED <<flags, buffers, big, dump, history>>

MergeLockOther(t) ==
  /\ At(t, "merge other")
  /\ held[t] = Nobody
  /\ held' = [held EXCEPT ![t] = t]
  /\ Go(t, "merge tree")
  /\ UNCHANGED <<flags, buffers, big, dump, history>>

(* Mutant: the merge replaces what the master buffer held. *)
MergeTree_Overwrites(t) ==
  /\ At(t, "merge tree")
  /\ content' = [content EXCEPT ![Master] = content[t]]
  /\ held' = [held EXCEPT ![t] = Nobody, ![Master] = Nobody]
  /\ Go(t, "erase")
  /\ UNCHANGED <<flags, bufs, made, big, dump, history>>

MergeTree(t) ==
  /\ At(t, "merge tree")
  /\ content' = [content EXCEPT ![Master] = Plus(@, content[t])]
  /\ held' = [held EXCEPT ![t] = Nobody, ![Master] = Nobody]
  /\ Go(t, "erase")
  /\ UNCHANGED <<flags, bufs, made, big, dump, history>>

(* Mutant: the deleted buffer is still remembered. *)
Erase_Keeps(t) ==
  /\ At(t, "erase")
  /\ made' = made \ {t}
  /\ Go(t, "freed")
  /\ UNCHANGED <<flags, bufs, content, locks, dump, history>>

(* disposeTraceBuffer: the buffer is forgotten and deleted.  Whoever used it
   all the same would find what it held. *)
Erase(t) ==
  /\ At(t, "erase")
  /\ bufs' = bufs \ {t}
  /\ made' = made \ {t}
  /\ Go(t, "freed")
  /\ UNCHANGED <<flags, content, locks, dump, history>>

(* The thread is gone; another one may come in its place. *)
FreeUnlock(t) ==
  /\ At(t, "freed")
  /\ big' = Nobody
  /\ Go(t, "none")
  /\ UNCHANGED <<flags, buffers, held, dump, history>>

-----------------------------------------------------------------------------
(* Who dumps, and when *)

(* asyncDumpThread finds the dump flag, or igprof_dump_now() starts a thread *)
DumpNow(a) ==
  /\ At(a, "idle")
  /\ dumps[a] < MaxDumps
  /\ dumps' = [dumps EXCEPT ![a] = @ + 1]
  /\ Go(a, "dump")
  /\ UNCHANGED <<flags, buffers, locks, dump, taken>>

(* dokill: the profiler is enabled *)
Kill(t) ==
  /\ At(t, "running")
  /\ enabled > 0
  /\ dumps[t] < MaxDumps
  /\ dumps' = [dumps EXCEPT ![t] = @ + 1]
  /\ Go(t, "kill")
  /\ UNCHANGED <<flags, buffers, locks, dump, taken>>

KillDisable(t) ==
  /\ At(t, "kill")
  /\ enabled' = enabled - 1
  /\ Go(t, "dump")
  /\ UNCHANGED <<activated, perThread, exiting, buffers, locks, dump, history>>

(* Mutant: the profilers stay switched off. *)
KillEnable_Never(t) ==
  /\ At(t, "killed")
  /\ Go(t, "running")
  /\ UNCHANGED <<flags, buffers, locks, dump, history>>

KillEnable(t) ==
  /\ At(t, "killed")
  /\ enabled' = enabled + 1
  /\ Go(t, "running")
  /\ UNCHANGED <<activated, perThread, exiting, buffers, locks, dump, history>>

(* exit() runs its handlers, exitDump among them, once. *)
Exit(t) ==
  /\ At(t, "running")
  /\ exiting = Nobody
  /\ exiting' = t
  /\ enabled' = enabled - 1
  /\ Go(t, "exit")
  /\ UNCHANGED <<activated, perThread, buffers, locks, dump, history>>

ExitDeactivate(t) ==
  /\ At(t, "exit")
  /\ activated' = FALSE
  /\ Go(t, "exit disable")
  /\ UNCHANGED <<enabled, perThread, exiting, buffers, locks, dump, history>>

ExitDisable(t) ==
  /\ At(t, "exit disable")
  /\ enabled' = 0
  /\ Go(t, "dump")
  /\ UNCHANGED <<activated, perThread, exiting, buffers, locks, dump, history>>

-----------------------------------------------------------------------------
(* dumpAllProfiles *)

(* Where a dump of a returns to: exit() then ends the process. *)
Return(a) == IF a \in Dumper THEN "idle" ELSE IF a = exiting THEN "over" ELSE "killed"

(* The output cannot be opened, and nothing is dumped. *)
DumpFails(a) ==
  /\ At(a, "dump")
  /\ Go(a, Return(a))
  /\ UNCHANGED <<flags, buffers, locks, dump, history>>

DumpLock(a) ==
  /\ At(a, "dump")
  /\ big = Nobody
  /\ big' = a
  /\ dump' = [dump EXCEPT ![a] = [left |-> bufs \cup {Master}, reading |-> Nobody,
                                  seen |-> None, since |-> taken]]
  /\ Go(a, "walk")
  /\ UNCHANGED <<flags, buffers, held, history>>

(* The buffers come in the order of their addresses, the master buffer last. *)
DumpBuffer(a, b) ==
  /\ At(a, "walk")
  /\ b \in dump[a].left
  /\ b = Master => dump[a].left = {Master}
  /\ held[b] = Nobody
  /\ held' = [held EXCEPT ![b] = a]
  /\ dump' = [dump EXCEPT ![a].reading = b]
  /\ Go(a, "read")
  /\ UNCHANGED <<flags, buffers, big, history>>

(* The dump of a when the buffer it reads has been seen *)
Seen(a) ==
  [left |-> dump[a].left \ {dump[a].reading}, reading |-> Nobody,
   seen |-> Plus(dump[a].seen, content[dump[a].reading]), since |-> dump[a].since]

(* Mutant: a dumped buffer stays locked. *)
DumpRead_KeepsLock(a) ==
  LET b == dump[a].reading
  IN  /\ At(a, "read")
      /\ dump' = [dump EXCEPT ![a] = Seen(a)]
      /\ Go(a, IF b = Master THEN "written" ELSE "walk")
      /\ UNCHANGED <<flags, buffers, locks, history>>

DumpRead(a) ==
  LET b == dump[a].reading
  IN  /\ At(a, "read")
      /\ dump' = [dump EXCEPT ![a] = Seen(a)]
      /\ held' = [held EXCEPT ![b] = Nobody]
      /\ Go(a, IF b = Master THEN "written" ELSE "walk")
      /\ UNCHANGED <<flags, buffers, big, history>>

(* The dump is closed and s_buflock released. *)
DumpDone(a) ==
  /\ At(a, "written")
  /\ big' = Nobody
  /\ dump' = [dump EXCEPT ![a] = NoDump]
  /\ Go(a, Return(a))
  /\ UNCHANGED <<flags, buffers, held, history>>

-----------------------------------------------------------------------------
(* What an actor does by itself once it has begun, up to its return. *)
Proceed(a) ==
  \/ a \in Thread /\ \/ Wrap(a) \/ WrapLate(a) \/ Insert(a)
                     \/ SampleBuffer(a) \/ SampleLock(a) \/ SampleRecord(a)
                     \/ FreeLock(a) \/ MergeLockMaster(a) \/ MergeLockOther(a)
                     \/ MergeTree(a) \/ Erase(a) \/ FreeUnlock(a)
                     \/ KillDisable(a) \/ KillEnable(a)
                     \/ ExitDeactivate(a) \/ ExitDisable(a)
  \/ DumpLock(a) \/ (\E b \in Thread \cup {Master} : DumpBuffer(a, b))
  \/ DumpRead(a) \/ DumpDone(a)

(* What the program, a signal or a user begins, and an open that fails. *)
Begin(a) ==
  \/ a \in Thread /\ \/ Create(a) \/ SampleBegin(a) \/ Leave(a)
                     \/ Kill(a) \/ Exit(a)
  \/ DumpNow(a) \/ DumpFails(a)

Next == \E a \in Actor : Proceed(a) \/ Begin(a)

Spec == Init /\ [][Next]_vars

(* Every thread that can go on does, and a lock that is released again and
   again is handed sooner or later to a thread that waits for it. *)
FairSpec == Spec /\ \A a \in Actor : SF_vars(Proceed(a))

-----------------------------------------------------------------------------
(* Properties *)

Dumping == {"dump", "walk", "read", "written"}

(* Types of the flags, the buffers, the locks and the dumps. *)
TypeOK ==
  /\ activated \in BOOLEAN /\ enabled \in Int
  /\ bufs \subseteq Thread
  /\ made \subseteq Thread \cup {Master}
  /\ content \in [Thread \cup {Master} -> [Thread -> Nat]]
  /\ big \in Actor \cup {Nobody}
  /\ held \in [Thread \cup {Master} -> Actor \cup {Nobody}]
  /\ \A a \in Actor : /\ dump[a].left \subseteq Thread \cup {Master}
                      /\ dump[a].seen \in [Thread -> Nat]

(* Every sample is in exactly one place: outside the merge of a buffer, the
   buffers hold what the threads have recorded. *)
Inside(b) == \E t \in Thread : b = t /\ pc[t] = "erase"
Of(t) == [b \in DOMAIN content |-> content[b][t]]
SamplesKept ==
  \A t \in Thread : SumFunctionOnSet(Of(t), {b \in made : ~ Inside(b)}) = taken[t]

(* Buffers are used only while they exist: the remembered ones, the ones a
   dump still goes through or is reading, and those somebody has locked. *)
NoDangling ==
  /\ bufs \subseteq made
  /\ \A a \in Actor : pc[a] \in {"walk", "read"} => dump[a].left \subseteq made
  /\ \A b \in Thread \cup {Master} : held[b] # Nobody => b \in made

(* A dump shows every sample once: those recorded before it began, and none
   but those recorded by its end, although threads that come and go move
   samples between the buffers it goes through. *)
DumpExact ==
  \A a \in Actor : pc[a] = "written" =>
    \A t \in Thread : /\ dump[a].since[t] <= dump[a].seen[t]
                      /\ dump[a].seen[t] <= taken[t]

(* The comment of asyncDumpThread (profile.cc:413): no thread waits for a lock
   that it holds already. *)
Wants(a) == CASE pc[a] \in {"sample", "merge other"} -> {Own(a)}
              [] pc[a] = "merge" -> {Master}
              [] pc[a] = "walk" -> dump[a].left
              [] OTHER -> {}
NoSelfWait ==
  \A a \in Actor : /\ \A b \in Wants(a) : held[b] # a
                   /\ pc[a] \in {"insert", "free", "dump"} => big # a

(* kill() switches the profilers off while it dumps, exit() for good.  Until
   then they are on exactly when no thread is in kill(). *)
InKill(t) == pc[t] \in Dumping \cup {"killed"}
EnabledBalanced ==
  exiting = Nobody => enabled = 1 - Cardinality({t \in Thread : InKill(t)})

(* Every dump that was asked for is finished, or the process is over. *)
DumpEnds ==
  \A a \in Actor : pc[a] \in Dumping ~>
    (pc[a] \notin Dumping \/ \E t \in Thread : pc[t] = "over")
=============================================================================

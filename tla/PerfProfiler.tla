---------------------------- MODULE PerfProfiler -----------------------------
(***************************************************************************)
(* The performance profiler (profile-perf.cc) around fork() and system():  *)
(* the process's one interval timer, which a call slows down and puts back *)
(* while other threads call too, start, end or dump; the ticks a call is   *)
(* charged for the time the timer was slow; and the child, which resets    *)
(* the profiles it has inherited, under locks it has inherited as well.    *)
(*                                                                         *)
(* One process is followed: after a fork() either the parent or the child. *)
(* Threads have buffers of their own.  A buffer is reduced to whose ticks  *)
(* it holds.                                                               *)
(***************************************************************************)
EXTENDS Integers, FiniteSets

CONSTANTS
  Thread,      \* threads of the program
  Main,        \* the main thread
  Dumper,      \* the thread that dumps on demand (asyncDumpThread)
  Master,      \* s_masterbuf
  Nobody,
  Interval,    \* 5 ms: the interval of the timer
  Slow,        \* 10 s: its interval during a call
  MaxTime,     \* bound on the CPU time of the process
  MaxCalls     \* bound on the calls of fork() and system(), and the dumps

ASSUME PerfAssumption ==
  /\ IsFiniteSet(Thread)
  /\ Main \in Thread /\ Dumper \notin Thread /\ Master \notin Thread
  /\ Nobody \notin Thread \cup {Dumper, Master}
  /\ {Interval, Slow} \subseteq Nat \ {0} /\ Interval < Slow
  /\ {MaxTime, MaxCalls} \subseteq Nat

VARIABLES
  timer,       \* the interval timer
  pending,     \* the profiling signal is to be delivered
  keep,        \* s_keep
  child,       \* the process is a child
  bufs,        \* allTraceBuffers()
  content,     \* content[b]: whose ticks are in buffer b, the parent's or own
  big,         \* who holds s_buflock
  held,        \* held[b]: who holds the lock of buffer b
  pc,          \* pc[a]: where thread or dumper a is
  loc,         \* loc[a]: the local variables of its call
  dumps,       \* history: how many dumps have begun
  now,         \* history: the CPU time of the process
  calls,       \* history: how many calls have begun
  ticks,       \* history: ticks recorded, but for those of calls that overlap
  stale,       \* history: the calls and dumps in progress that have set the
               \* timer and somebody else has since
  upset        \* history: how the timer was upset since a thread started it: put
               \* back by one of those, left slow by a failed fork(), or stopped
               \* at the end of a thread

vars == <<timer, pending, keep, child, bufs, content, big, held, pc, loc,
          dumps, now, calls, ticks, stale, upset>>
profile == <<keep, child, bufs, content>>
locks == <<big, held>>
history == <<dumps, now, calls, ticks>>

Actor == Thread \cup {Dumper}
Buffers == Thread \cup {Master}

-----------------------------------------------------------------------------
(* The interval timer (setitimer, getitimer): it belongs to the process. *)

Stopped == [interval |-> 0, value |-> 0]
Every(n) == [interval |-> n, value |-> n]

NoLocals == [call |-> "none", dt |-> 0, seen |-> 0, orig |-> Stopped, left |-> {}]

(* Whoever has set the timer, and is going to put back what it was *)
Saving(a) == pc[a] \in {"read slow", "chain", "put back",
                        "dump lock", "dump walk", "dump read", "dump end"}

(* a sets the timer. *)
SetTimer(a, t) ==
  /\ timer' = t
  /\ stale' = stale \cup {b \in Actor \ {a} : Saving(b)}

(* a puts the timer back as it was. *)
PutBack(a) ==
  /\ timer' = loc[a].orig
  /\ stale' = stale \cup {b \in Actor \ {a} : Saving(b)}
  /\ upset' = IF a \in stale THEN upset \cup {"stale"} ELSE upset

Go(a, to) == pc' = [pc EXCEPT ![a] = to]

(* CPU time passes; the timer fires when it runs out. *)
Elapse ==
  /\ now < MaxTime
  /\ now' = now + 1
  /\ timer' = CASE timer.value = 0 -> timer
                [] timer.value = 1 -> Every(timer.interval)
                [] OTHER -> [timer EXCEPT !.value = @ - 1]
  /\ pending' = (pending \/ timer.value = 1)
  /\ UNCHANGED <<profile, locks, pc, loc, dumps, calls, ticks, stale, upset>>

-----------------------------------------------------------------------------
(* Sampling *)

(* profileSignalHandler: a signal goes to any thread that does not block it;
   igprof_disable() ignores it in a call, igprof_buffer() where there is none. *)
Signal(a) ==
  /\ pending
  /\ pc[a] \notin {"none", "gone", "sample", "record"}
  /\ a = Dumper => pc[a] = "idle"
  /\ pending' = FALSE
  /\ IF pc[a] \in {"running", "init"} THEN Go(a, "sample") ELSE UNCHANGED pc
  /\ UNCHANGED <<timer, profile, locks, loc, history, stale, upset>>

SampleLock(t) ==
  /\ pc[t] = "sample"
  /\ held[t] = Nobody
  /\ held' = [held EXCEPT ![t] = t]
  /\ Go(t, "record")
  /\ UNCHANGED <<timer, pending, profile, big, loc, history, stale, upset>>

SampleRecord(t) ==
  /\ pc[t] = "record"
  /\ content' = [content EXCEPT ![t] = @ \cup {"own"}]
  /\ ticks' = ticks + 1
  /\ held' = [held EXCEPT ![t] = Nobody]
  /\ Go(t, IF loc[t].call = "init" THEN "init" ELSE "running")
  /\ UNCHANGED <<timer, pending, keep, child, bufs, big, loc, dumps, now, calls, stale, upset>>

-----------------------------------------------------------------------------
(* fork() and system() *)

(* dofork, dosystem: the profiler is disabled in this thread, and the time since
   the last tick, which is the beginning of dt, is read: getitimer(&left).  Other
   threads may set the timer between this call and the next, and the next.  Which
   function it is shows in how it ends: only a fork() fails or is born as a child. *)
Enter(t) ==
  /\ pc[t] = "running"
  /\ calls + dumps < MaxCalls
  /\ calls' = calls + 1
  /\ loc' = [loc EXCEPT ![t] = [NoLocals EXCEPT !.call = "call", !.seen = timer.interval,
                                !.dt = timer.interval - timer.value]]
  /\ Go(t, "slow")
  /\ UNCHANGED <<timer, pending, profile, locks, dumps, now, ticks, stale, upset>>

(* setitimer(&slow, &orig) *)
SlowDown(t) ==
  /\ pc[t] = "slow"
  /\ SetTimer(t, Every(Slow))
  /\ loc' = [loc EXCEPT ![t].orig = timer]
  /\ Go(t, "read slow")
  /\ UNCHANGED <<pending, profile, locks, history, upset>>

(* getitimer(&slow): what the timer has left when the call begins. *)
ReadSlow(t) ==
  /\ pc[t] = "read slow"
  /\ loc' = [loc EXCEPT ![t].dt = @ + timer.value]
  /\ Go(t, "chain")
  /\ UNCHANGED <<timer, pending, profile, locks, history, stale, upset>>

(* fork() fails. *)
Fail(t) ==
  /\ pc[t] = "chain"
  /\ loc[t].call = "call"
  /\ stale' = stale \ {t}
  /\ upset' = upset \cup {"failed"}
  /\ loc' = [loc EXCEPT ![t] = NoLocals]
  /\ Go(t, "running")
  /\ UNCHANGED <<timer, pending, profile, locks, history>>

(* fork() returns in the child: it has this thread only, no timer, and the
   memory of the parent, in which the locks are held by whoever held them. *)
Born(t) ==
  /\ pc[t] = "chain"
  /\ loc[t].call = "call"
  /\ child' = TRUE
  /\ timer' = Stopped
  /\ pending' = FALSE
  /\ content' = [b \in Buffers |-> IF content[b] = {} THEN {} ELSE {"parent"}]
  /\ pc' = [a \in Actor |-> IF a = t \/ pc[a] = "none" THEN pc[a] ELSE "gone"]
  /\ loc' = [a \in Actor |-> IF a = t THEN [loc[t] EXCEPT !.call = "child"]
                                       ELSE NoLocals]
  /\ stale' = stale \cap {t}
  /\ upset' = IF \E a \in Actor \ {t} : Saving(a) THEN upset \cup {"stale"} ELSE upset
  /\ UNCHANGED <<keep, bufs, locks, history>>

(* The call has returned, and dt is the time it took by what the timer has left
   now: getitimer(&left).  The timer may fire before it is put back. *)
Return(t) ==
  /\ pc[t] = "chain"
  /\ loc' = [loc EXCEPT ![t].dt = @ - timer.value]
  /\ Go(t, "put back")
  /\ UNCHANGED <<timer, pending, profile, locks, history, stale, upset>>

(* Mutant: the child's timer is not started again. *)
Resume_ParentOnly(t) ==
  /\ pc[t] = "put back"
  /\ IF loc[t].call = "child" THEN UNCHANGED <<timer, stale, upset>> ELSE PutBack(t)
  /\ Go(t, IF loc[t].call = "child" /\ ~ keep THEN "reset" ELSE "charge")
  /\ UNCHANGED <<pending, profile, locks, loc, history>>

(* The timer is put back as it was, in the child as well: setitimer(&orig). *)
Resume(t) ==
  /\ pc[t] = "put back"
  /\ PutBack(t)
  /\ Go(t, IF loc[t].call = "child" /\ ~ keep THEN "reset" ELSE "charge")
  /\ UNCHANGED <<pending, profile, locks, loc, history>>

(* dt / ival to the nearest integer, towards 0 when it is below *)
Nearest(dt, ival) ==
  IF 2 * dt + ival >= 0 THEN (2 * dt + ival) \div (2 * ival)
                        ELSE - ((- 2 * dt - ival) \div (2 * ival))

(* The call found the timer slow or stopped, when it read it or when it set it, or
   somebody else has set it since. *)
Overlaps(t) ==
  t \in stale \/ loc[t].seen # Interval \/ loc[t].orig.interval # Interval

(* Mutant: the child is charged as well. *)
Charge_Child(t) ==
  LET ival == timer.interval
      n == IF ival > 0 THEN Nearest(loc[t].dt, ival) ELSE 0
  IN  /\ pc[t] = "charge"
      /\ content' = [content EXCEPT ![t] = IF n = 0 THEN @ ELSE @ \cup {"own"}]
      /\ ticks' = IF Overlaps(t) THEN ticks ELSE ticks + n
      /\ stale' = stale \ {t}
      /\ loc' = [loc EXCEPT ![t] = NoLocals]
      /\ Go(t, "running")
      /\ UNCHANGED <<timer, pending, keep, child, bufs, locks, dumps, now, calls, upset>>

(* getitimer(s_itimer, &fast), and nticks; none in the child.  They are charged
   to the call without the lock of the buffer, and the profiler is enabled. *)
Charge(t) ==
  LET ival == timer.interval
      n == IF ival > 0 /\ loc[t].call # "child" THEN Nearest(loc[t].dt, ival) ELSE 0
  IN  /\ pc[t] = "charge"
      /\ content' = [content EXCEPT ![t] = IF n = 0 THEN @ ELSE @ \cup {"own"}]
      /\ ticks' = IF Overlaps(t) THEN ticks ELSE ticks + n
      /\ stale' = stale \ {t}
      /\ loc' = [loc EXCEPT ![t] = NoLocals]
      /\ Go(t, "running")
      /\ UNCHANGED <<timer, pending, keep, child, bufs, locks, dumps, now, calls, upset>>

(* Mutant: the master buffer is not reset. *)
ResetBegin_NotMaster(t) ==
  /\ pc[t] = "reset"
  /\ big = Nobody
  /\ big' = t
  /\ loc' = [loc EXCEPT ![t].left = bufs]
  /\ Go(t, "reset walk")
  /\ UNCHANGED <<timer, pending, profile, held, history, stale, upset>>

(* igprof_reset_profiles *)
ResetBegin(t) ==
  /\ pc[t] = "reset"
  /\ big = Nobody
  /\ big' = t
  /\ loc' = [loc EXCEPT ![t].left = bufs \cup {Master}]
  /\ Go(t, "reset walk")
  /\ UNCHANGED <<timer, pending, profile, held, history, stale, upset>>

ResetBuffer(t, b) ==
  /\ pc[t] = "reset walk"
  /\ b \in loc[t].left
  /\ b = Master => loc[t].left = {Master}
  /\ held[b] = Nobody
  /\ content' = [content EXCEPT ![b] = {}]
  /\ loc' = [loc EXCEPT ![t].left = @ \ {b}]
  /\ UNCHANGED <<timer, pending, keep, child, bufs, locks, pc, history, stale, upset>>

(* Mutant: s_buflock is not released. *)
ResetEnd_KeepsLock(t) ==
  /\ pc[t] = "reset walk"
  /\ loc[t].left = {}
  /\ Go(t, "charge")
  /\ UNCHANGED <<timer, pending, profile, locks, loc, history, stale, upset>>

ResetEnd(t) ==
  /\ pc[t] = "reset walk"
  /\ loc[t].left = {}
  /\ big' = Nobody
  /\ Go(t, "charge")
  /\ UNCHANGED <<timer, pending, profile, held, loc, history, stale, upset>>

-----------------------------------------------------------------------------
(* Threads that start and end, and the dumps on demand *)

(* dopthread_create, threadWrapper: the new thread has a buffer. *)
Create(t) ==
  /\ pc[t] = "none"
  /\ \E u \in Thread : pc[u] = "running"
  /\ content' = [content EXCEPT ![t] = {}]
  /\ Go(t, "insert")
  /\ UNCHANGED <<timer, pending, keep, child, bufs, locks, loc, history, stale, upset>>

(* makeTraceBuffer *)
Insert(t) ==
  /\ pc[t] = "insert"
  /\ big = Nobody
  /\ bufs' = bufs \cup {t}
  /\ loc' = [loc EXCEPT ![t].call = "init"]
  /\ Go(t, "init")
  /\ UNCHANGED <<timer, pending, keep, child, content, locks, history, stale, upset>>

(* threadInit: the timer is set; nobody has to put it back any more. *)
ThreadInit(t) ==
  /\ pc[t] = "init"
  /\ SetTimer(t, Every(Interval))
  /\ upset' = {}
  /\ loc' = [loc EXCEPT ![t] = NoLocals]
  /\ Go(t, "running")
  /\ UNCHANGED <<pending, profile, locks, history>>

(* threadWrapper: the start routine has returned. *)
Leave(t) ==
  /\ pc[t] = "running"
  /\ t # Main
  /\ SetTimer(t, Stopped)
  /\ upset' = upset \cup {"ended"}
  /\ Go(t, "free")
  /\ UNCHANGED <<pending, profile, locks, loc, history>>

FreeLock(t) ==
  /\ pc[t] = "free"
  /\ big = Nobody
  /\ big' = t
  /\ Go(t, "merge")
  /\ UNCHANGED <<timer, pending, profile, held, loc, history, stale, upset>>

(* The buffer is merged under both locks, then forgotten and deleted. *)
Merge(t) ==
  /\ pc[t] = "merge"
  /\ held[Master] = Nobody /\ held[t] = Nobody
  /\ content' = [content EXCEPT ![Master] = @ \cup content[t], ![t] = {}]
  /\ bufs' = bufs \ {t}
  /\ big' = Nobody
  /\ Go(t, "none")
  /\ UNCHANGED <<timer, pending, keep, child, held, loc, history, stale, upset>>

(* dumpAllProfiles with blocksig: the timers are stopped and put back. *)
DumpBegin ==
  /\ pc[Dumper] = "idle"
  /\ calls + dumps < MaxCalls
  /\ dumps' = dumps + 1
  /\ SetTimer(Dumper, Stopped)
  /\ loc' = [loc EXCEPT ![Dumper].orig = timer]
  /\ Go(Dumper, "dump lock")
  /\ UNCHANGED <<pending, profile, locks, now, calls, ticks, upset>>

DumpLock ==
  /\ pc[Dumper] = "dump lock"
  /\ big = Nobody
  /\ big' = Dumper
  /\ loc' = [loc EXCEPT ![Dumper].left = bufs \cup {Master}]
  /\ Go(Dumper, "dump walk")
  /\ UNCHANGED <<timer, pending, profile, held, history, stale, upset>>

DumpBuffer(b) ==
  /\ pc[Dumper] = "dump walk"
  /\ b \in loc[Dumper].left
  /\ b = Master => loc[Dumper].left = {Master}
  /\ held[b] = Nobody
  /\ held' = [held EXCEPT ![b] = Dumper]
  /\ loc' = [loc EXCEPT ![Dumper].left = @ \ {b}]
  /\ Go(Dumper, "dump read")
  /\ UNCHANGED <<timer, pending, profile, big, history, stale, upset>>

DumpRead(b) ==
  /\ pc[Dumper] = "dump read"
  /\ held[b] = Dumper
  /\ held' = [held EXCEPT ![b] = Nobody]
  /\ big' = IF loc[Dumper].left = {} THEN Nobody ELSE big
  /\ Go(Dumper, IF loc[Dumper].left = {} THEN "dump end" ELSE "dump walk")
  /\ UNCHANGED <<timer, pending, profile, loc, history, stale, upset>>

DumpEnd ==
  /\ pc[Dumper] = "dump end"
  /\ timer' = loc[Dumper].orig
  /\ stale' = (stale \cup {t \in Thread : Saving(t)}) \ {Dumper}
  /\ upset' = IF Dumper \in stale THEN upset \cup {"stale"} ELSE upset
  /\ loc' = [loc EXCEPT ![Dumper] = NoLocals]
  /\ Go(Dumper, "idle")
  /\ UNCHANGED <<pending, profile, locks, history>>

-----------------------------------------------------------------------------
Init ==
  /\ timer = Every(Interval)
  /\ pending = FALSE
  /\ keep \in BOOLEAN
  /\ child = FALSE
  /\ bufs = {Main}
  /\ content = [b \in Buffers |-> {}]
  /\ big = Nobody
  /\ held = [b \in Buffers |-> Nobody]
  /\ pc = [a \in Actor |-> IF a = Main THEN "running"
                           ELSE IF a \in Thread THEN "none" ELSE "idle"]
  /\ loc = [a \in Actor |-> NoLocals]
  /\ dumps = 0 /\ now = 0 /\ calls = 0 /\ ticks = 0
  /\ stale = {} /\ upset = {}

(* What a thread does by itself once it has begun. *)
Proceed(t) ==
  \/ SampleLock(t) \/ SampleRecord(t)
  \/ SlowDown(t) \/ ReadSlow(t)
  \/ Fail(t) \/ Born(t) \/ Return(t) \/ Resume(t) \/ Charge(t)
  \/ ResetBegin(t) \/ (\E b \in Buffers : ResetBuffer(t, b)) \/ ResetEnd(t)
  \/ Insert(t) \/ ThreadInit(t) \/ FreeLock(t) \/ Merge(t)

Next ==
  \/ Elapse
  \/ \E a \in Actor : Signal(a)
  \/ \E t \in Thread : \/ Proceed(t)
                       \/ Enter(t) \/ Create(t) \/ Leave(t)
  \/ DumpBegin \/ DumpLock \/ DumpEnd
  \/ \E b \in Buffers : DumpBuffer(b) \/ DumpRead(b)

Spec == Init /\ [][Next]_vars

(* The threads run, and a call returns sooner or later. *)
FairSpec == Spec /\ \A t \in Thread : WF_vars(Proceed(t))

-----------------------------------------------------------------------------
(* Properties *)

(* After a call or a dump the timer goes on as before (`resuming profiling
   after blinking for fork()', profile-perf.cc:342), unless it was upset: calls
   and dumps that overlap put back what the other had set, a fork() that fails
   leaves the timer slow, and a thread that ends stops it for all. *)
TimerResumes ==
  (\A a \in Actor : ~ Saving(a)) /\ upset = {} => timer.interval = Interval

(* Ticks stand for time that has passed, once, up to what a call adds to it: it
   is also charged for the time since the last tick before it, less than an
   Interval, which the timer goes on to count; the slow timer may fire between
   the end of the call and putting it back, for time the call is charged for,
   less than an Interval; and half an Interval of its rounding.  Calls that overlap
   others are left out: with the timer set by somebody else they can be charged
   for the whole slow interval, and one that reads it during another call is
   charged for the time of that one as well. *)
TicksBounded ==
  2 * Interval * ticks <= 2 * now + (4 * (Interval - 1) + Interval) * calls

(* `Normally we reset profiles in child, but allow an override'
   (profile-perf.cc:296): back in the program, the child has no samples of its
   parent, wherever the threads of the parent were. *)
ChildProfile ==
  child /\ ~ keep /\ (\A t \in Thread : loc[t].call # "child") =>
    \A b \in bufs \cup {Master} : content[b] \subseteq {"own"}

(* fork() and system() return, in the parent always, in the child unless it
   was made while another thread held a lock: that one is never released. *)
InCall(t) == loc[t].call \in {"call", "child"}
Orphaned ==
  \E l \in {big} \cup {held[b] : b \in Buffers} : l \in Actor /\ pc[l] = "gone"
CallsReturn == \A t \in Thread : InCall(t) ~> (~ InCall(t) \/ Orphaned)
=============================================================================

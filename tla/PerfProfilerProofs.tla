-------------------------- MODULE PerfProfilerProofs --------------------------
(***************************************************************************)
(* Proofs about PerfProfiler: for any number of threads and any intervals  *)
(* the timer goes on as before after calls that nothing has upset, a child *)
(* that is back in the program has no samples of its parent, and the ticks *)
(* that are recorded stand for time that has passed.                       *)
(***************************************************************************)
EXTENDS PerfProfiler, SumTheorems, TLAPS

Labels == {"none", "gone", "idle", "running", "sample", "record", "slow", "read slow",
           "chain", "put back", "charge", "reset", "reset walk", "insert", "init", "free", "merge",
           "dump lock", "dump walk", "dump read", "dump end"}
Marks == {"own", "parent"}
ITimer == [interval : Int, value : Int]
Locals == [call : {"none", "call", "child", "init"}, dt : Int, seen : Int,
           orig : ITimer, left : SUBSET Buffers]

Types ==
  /\ timer \in ITimer
  /\ pc \in [Actor -> Labels]
  /\ loc \in [Actor -> Locals]
  /\ keep \in BOOLEAN /\ child \in BOOLEAN
  /\ bufs \subseteq Thread
  /\ content \in [Buffers -> SUBSET Marks]
  /\ stale \subseteq Actor

(* Who saves the interval of a running timer, or knows of somebody who set the
   timer since. *)
Saves(a) ==
  Saving(a) /\ a \notin stale =>
    \/ loc[a].orig.interval = Interval
    \/ \E b \in Actor \ {a} : Saving(b) /\ b \in stale

(* If nothing has upset the timer, it runs at its interval or will be put back
   to it by one who saves it. *)
Regular ==
  upset = {} =>
    /\ (\A a \in Actor : ~ Saving(a)) => timer.interval = Interval
    /\ \A a \in Actor : Saves(a)

(* The values the timer and the locals are set to have their types. *)
LEMMA Setters ==
  /\ Stopped \in ITimer /\ Every(Interval) \in ITimer /\ Every(Slow) \in ITimer
  /\ NoLocals \in Locals /\ NoLocals.call = "none"
  /\ Every(Interval).interval = Interval
  /\ Thread \subseteq Actor /\ Dumper \in Actor /\ Main \in Thread /\ Dumper \notin Thread
  /\ Interval \in Int /\ Slow \in Int
  /\ Thread \subseteq Buffers /\ Master \in Buffers /\ Master \notin Thread
  BY PerfAssumption DEF Stopped, Every, NoLocals, ITimer, Locals, Actor, Buffers

(* So have the marks of a buffer. *)
LEMMA Marking ==
  /\ {} \in SUBSET Marks /\ {"own"} \in SUBSET Marks /\ {"parent"} \in SUBSET Marks
  /\ \A M, N \in SUBSET Marks : M \cup N \in SUBSET Marks
  BY DEF Marks

(* The initial state has its types. *)
LEMMA InitTypes == Init => Types
  BY Setters, Marking DEF Init, Types, Labels, Actor, Buffers

(* Time that passes changes the value of the timer, not its interval. *)
LEMMA ElapseTypes ==
  ASSUME Types, Elapse
  PROVE  Types' /\ timer'.interval = timer.interval
<1>1. timer' \in ITimer /\ timer'.interval = timer.interval
  BY DEF Types, Elapse, ITimer, Every
<1> QED BY <1>1 DEF Types, Elapse, profile

(* The time since the last tick is an integer. *)
LEMMA Elapsed ==
  ASSUME Types
  PROVE  /\ timer.interval \in Int /\ timer.value \in Int
         /\ timer.interval - timer.value \in Int
<1>1. timer.interval \in Int /\ timer.value \in Int
  BY DEF Types, ITimer
<1> QED BY <1>1

(* Setting the timer and putting it back keep the types. *)
LEMMA SetTimerTypes ==
  ASSUME Types, NEW a \in Actor
  PROVE  /\ \A t \in ITimer : SetTimer(a, t) => timer' \in ITimer /\ stale' \subseteq Actor
         /\ PutBack(a) => timer' \in ITimer /\ stale' \subseteq Actor
  BY DEF Types, SetTimer, PutBack, Locals

(* Every step keeps the types. *)
LEMMA NextTypes == Types /\ [Next]_vars => Types'
<1> SUFFICES ASSUME Types, [Next]_vars PROVE Types'
  OBVIOUS
<1> USE Setters, Marking DEF Labels
<1>1. CASE Elapse
  BY <1>1, ElapseTypes
<1>2. ASSUME NEW a \in Actor, Signal(a) PROVE Types'
  BY <1>2 DEF Types, Signal, profile, Go
<1>3. ASSUME NEW t \in Thread, SampleLock(t) \/ SampleRecord(t) PROVE Types'
  <2>1. pc' \in [Actor -> Labels]
    BY <1>3 DEF Types, SampleLock, SampleRecord, profile, Go
  <2>2. content' \in [Buffers -> SUBSET Marks]
    <3>1. CASE SampleLock(t)
      BY <3>1 DEF Types, SampleLock, profile
    <3>2. CASE SampleRecord(t)
      <4>1. content[t] \cup {"own"} \in SUBSET Marks
        BY DEF Types
      <4> QED BY <3>2, <4>1 DEF Types, SampleRecord
    <3> QED BY <1>3, <3>1, <3>2
  <2> QED BY <1>3, <2>1, <2>2 DEF Types, SampleLock, SampleRecord, profile
<1>4. ASSUME NEW t \in Thread, Enter(t) PROVE Types'
  <2>1. [NoLocals EXCEPT !.call = "call", !.seen = timer.interval,
                         !.dt = timer.interval - timer.value] \in Locals
    <3>1. timer.interval - timer.value \in Int /\ timer.interval \in Int
      BY Elapsed
    <3> QED BY <3>1 DEF NoLocals, Locals
  <2>2. loc' \in [Actor -> Locals]
    BY <1>4, <2>1 DEF Enter, Types
  <2> QED BY <1>4, <2>2 DEF Types, Enter, profile, Go
<1>19. ASSUME NEW t \in Thread, SlowDown(t) PROVE Types'
  <2>1. timer' \in ITimer /\ stale' \subseteq Actor
    BY <1>19, SetTimerTypes DEF SlowDown
  <2>2. loc' \in [Actor -> Locals]
    BY <1>19 DEF SlowDown, Types, Locals
  <2> QED BY <1>19, <2>1, <2>2 DEF Types, SlowDown, profile, Go
<1>20. ASSUME NEW t \in Thread, ReadSlow(t) \/ Return(t) PROVE Types'
  <2>1. loc[t] \in Locals /\ loc[t].dt \in Int /\ timer.value \in Int
    BY DEF Types, Locals, ITimer
  <2>2. loc[t].dt + timer.value \in Int /\ loc[t].dt - timer.value \in Int
    BY <2>1
  <2>3. \A d \in Int : [loc[t] EXCEPT !.dt = d] \in Locals
    BY <2>1 DEF Locals
  <2>4. loc' \in [Actor -> Locals]
    BY <1>20, <2>2, <2>3 DEF ReadSlow, Return, Types
  <2> QED BY <1>20, <2>4 DEF Types, ReadSlow, Return, profile, Go
<1>5. ASSUME NEW t \in Thread, Fail(t) PROVE Types'
  BY <1>5 DEF Types, Fail, profile, Go
<1>6. ASSUME NEW t \in Thread, Born(t) PROVE Types'
  <2>1. loc' \in [Actor -> Locals]
    BY <1>6 DEF Born, Types, Locals
  <2>2. pc' \in [Actor -> Labels]
    BY <1>6 DEF Born, Types
  <2> QED BY <1>6, <2>1, <2>2 DEF Types, Born
<1>7. ASSUME NEW t \in Thread, Resume(t) PROVE Types'
  <2>1. timer' \in ITimer /\ stale' \subseteq Actor
    BY <1>7, SetTimerTypes DEF Resume
  <2> QED BY <1>7, <2>1 DEF Types, Resume, profile, Go
<1>8. ASSUME NEW t \in Thread, Charge(t) PROVE Types'
  BY <1>8 DEF Types, Charge, Go
<1>9. ASSUME NEW t \in Thread, ResetBegin(t) \/ ResetEnd(t) \/ Insert(t) \/ FreeLock(t)
      PROVE  Types'
  <2>1. loc' \in [Actor -> Locals]
    <3>1. CASE ResetBegin(t)
      BY <3>1 DEF Types, ResetBegin, Locals
    <3>2. CASE Insert(t)
      BY <3>2 DEF Types, Insert, Locals
    <3> QED BY <1>9, <3>1, <3>2 DEF Types, ResetEnd, FreeLock
  <2>2. pc' \in [Actor -> Labels]
    BY <1>9 DEF Types, ResetBegin, ResetEnd, Insert, FreeLock, Go
  <2>3. bufs' \subseteq Thread
    BY <1>9 DEF Types, ResetBegin, ResetEnd, Insert, FreeLock, profile
  <2> QED BY <1>9, <2>1, <2>2, <2>3 DEF Types, ResetBegin, ResetEnd, Insert, FreeLock, profile
<1>10. ASSUME NEW t \in Thread, NEW b \in Buffers, ResetBuffer(t, b) PROVE Types'
  BY <1>10 DEF Types, ResetBuffer, Locals
<1>11. ASSUME NEW t \in Thread, ThreadInit(t) \/ Leave(t) PROVE Types'
  <2>1. timer' \in ITimer /\ stale' \subseteq Actor
    BY <1>11, SetTimerTypes DEF ThreadInit, Leave
  <2>2. loc' \in [Actor -> Locals]
    BY <1>11 DEF Types, ThreadInit, Leave
  <2>3. pc' \in [Actor -> Labels]
    BY <1>11 DEF Types, ThreadInit, Leave, Go
  <2> QED BY <1>11, <2>1, <2>2, <2>3 DEF Types, ThreadInit, Leave, profile
<1>12. ASSUME NEW t \in Thread, Create(t) \/ Merge(t) PROVE Types'
  <2>1. pc' \in [Actor -> Labels]
    BY <1>12 DEF Types, Create, Merge, Go
  <2>2. content' \in [Buffers -> SUBSET Marks]
    <3>1. CASE Create(t)
      BY <3>1 DEF Types, Create
    <3>2. CASE Merge(t)
      <4>1. content[Master] \cup content[t] \in SUBSET Marks
        BY DEF Types
      <4> QED BY <3>2, <4>1 DEF Types, Merge
    <3> QED BY <1>12, <3>1, <3>2
  <2> QED BY <1>12, <2>1, <2>2 DEF Types, Create, Merge
<1>13. CASE DumpBegin
  <2>1. timer' \in ITimer /\ stale' \subseteq Actor
    BY <1>13, SetTimerTypes DEF DumpBegin
  <2> QED BY <1>13, <2>1 DEF Types, DumpBegin, profile, Go, Locals
<1>14. CASE DumpLock
  BY <1>14 DEF Types, DumpLock, profile, Go, Locals
<1>15. ASSUME NEW b \in Buffers, DumpBuffer(b) PROVE Types'
  BY <1>15 DEF Types, DumpBuffer, profile, Go, Locals
<1>16. ASSUME NEW b \in Buffers, DumpRead(b) PROVE Types'
  BY <1>16 DEF Types, DumpRead, profile, Go
<1>17. CASE DumpEnd
  BY <1>17 DEF Types, DumpEnd, profile, Go, Locals
<1>18. CASE UNCHANGED vars
  BY <1>18 DEF Types, vars, profile
<1> QED
  BY <1>1, <1>2, <1>3, <1>4, <1>5, <1>6, <1>7, <1>8, <1>9, <1>10, <1>11, <1>12,
     <1>13, <1>14, <1>15, <1>16, <1>17, <1>18, <1>19, <1>20 DEF Next, Proceed

-----------------------------------------------------------------------------
(* The timer *)

(* A step of none of those who save the timer, which it leaves running. *)
LEMMA Undisturbed ==
  ASSUME Regular, upset' = upset, timer'.interval = timer.interval,
         \A a \in Actor : /\ Saving(a)' <=> Saving(a)
                          /\ Saving(a) => /\ loc'[a].orig = loc[a].orig
                                          /\ a \in stale' <=> a \in stale
  PROVE  Regular'
  BY DEF Regular, Saves

(* The step of one who has saved the timer or does so, or sets it: all others
   know. *)
LEMMA Overtaken ==
  ASSUME NEW t \in Actor, upset' = {},
         \A a \in Actor \ {t} : Saving(a)' => a \in stale',
         Saving(t)' => t \in stale' \/ loc'[t].orig.interval = Interval
                         \/ \E b \in Actor \ {t} : Saving(b)',
         (\A a \in Actor : ~ Saving(a)') => timer'.interval = Interval
  PROVE  Regular'
<1>1. ASSUME NEW a \in Actor PROVE Saves(a)'
  <2>1. CASE a = t
    BY <2>1 DEF Saves
  <2>2. CASE a # t
    BY <2>2 DEF Saves
  <2> QED BY <2>1, <2>2
<1> QED BY <1>1 DEF Regular

(* At first the timer runs and nobody saves it. *)
LEMMA InitRegular == Init => Regular
  BY Setters DEF Init, Regular, Saves, Saving

(* Every step keeps the timer regular, or upsets it by a named cause. *)
LEMMA NextRegular == Types /\ Regular /\ [Next]_vars => Regular'
<1> SUFFICES ASSUME Types, Regular, [Next]_vars PROVE Regular'
  OBVIOUS
<1> USE Setters
<1>1. CASE Elapse
  <2>1. timer'.interval = timer.interval
    BY <1>1, ElapseTypes
  <2> QED BY <1>1, <2>1, Undisturbed DEF Elapse, Saving
<1>2. ASSUME NEW a \in Actor, Signal(a) PROVE Regular'
  BY <1>2, Undisturbed DEF Types, Signal, Saving, Go
<1>3. ASSUME NEW t \in Thread, SampleLock(t) \/ SampleRecord(t) PROVE Regular'
  BY <1>3, Undisturbed DEF Types, SampleLock, SampleRecord, Saving, Go
<1>4. ASSUME NEW t \in Thread, SlowDown(t) PROVE Regular'
  <2>1. CASE upset # {}
    BY <1>4, <2>1 DEF SlowDown, Regular
  <2>2. CASE upset = {}
    <3>1. \A a \in Actor \ {t} : /\ Saving(a)' <=> Saving(a)
                                 /\ Saving(a) => a \in stale'
      BY <1>4 DEF Types, SlowDown, SetTimer, Saving, Go
    <3>2. loc'[t].orig = timer /\ Saving(t)' /\ ~ Saving(t)
      BY <1>4 DEF Types, SlowDown, Saving, Go, Locals
    <3>3. (\A a \in Actor \ {t} : ~ Saving(a)) => loc'[t].orig.interval = Interval
      BY <2>2, <3>2 DEF Regular
    <3> QED BY <1>4, <2>2, <3>1, <3>2, <3>3, Overtaken DEF SlowDown
  <2> QED BY <2>1, <2>2
<1>18. ASSUME NEW t \in Thread, Enter(t) \/ ReadSlow(t) \/ Return(t) PROVE Regular'
  <2>1. \A a \in Actor : (Saving(a)' <=> Saving(a)) /\ (Saving(a) => loc'[a].orig = loc[a].orig)
    <3>1. CASE Enter(t)
      BY <3>1 DEF Types, Enter, Saving, Go
    <3>2. CASE ReadSlow(t)
      BY <3>2 DEF Types, ReadSlow, Saving, Go, Locals
    <3>3. CASE Return(t)
      BY <3>3 DEF Types, Return, Saving, Go, Locals
    <3> QED BY <1>18, <3>1, <3>2, <3>3
  <2> QED BY <1>18, <2>1, Undisturbed DEF Enter, ReadSlow, Return
<1>5. ASSUME NEW t \in Thread, Fail(t) PROVE Regular'
  BY <1>5 DEF Fail, Regular
<1>6. ASSUME NEW t \in Thread, Born(t) PROVE Regular'
  <2>1. CASE upset' # {}
    BY <2>1 DEF Regular
  <2>2. CASE upset' = {}
    <3>1. upset = {} /\ \A a \in Actor \ {t} : ~ Saving(a)
      BY <1>6, <2>2 DEF Born
    <3>2. Saving(t) /\ Saving(t)' /\ \A a \in Actor \ {t} : ~ Saving(a)'
      BY <1>6 DEF Types, Born, Saving
    <3>3. loc'[t].orig = loc[t].orig /\ (t \in stale => t \in stale')
      BY <1>6 DEF Types, Born, Locals
    <3>4. Saves(t)
      BY <3>1 DEF Regular
    <3>5. t \in stale' \/ loc'[t].orig.interval = Interval
      BY <3>1, <3>2, <3>3, <3>4 DEF Saves
    <3> QED BY <2>2, <3>2, <3>5, Overtaken
  <2> QED BY <2>1, <2>2
<1>7. ASSUME NEW t \in Thread, Resume(t) PROVE Regular'
  <2>1. CASE upset' # {}
    BY <2>1 DEF Regular
  <2>2. CASE upset' = {}
    <3>1. upset = {} /\ t \notin stale
      BY <1>7, <2>2 DEF Resume, PutBack
    <3>2. Saving(t) /\ ~ Saving(t)' /\ timer' = loc[t].orig
      BY <1>7 DEF Types, Resume, PutBack, Saving, Go
    <3>3. \A a \in Actor \ {t} : (Saving(a)' <=> Saving(a)) /\ (Saving(a) => a \in stale')
      BY <1>7 DEF Types, Resume, PutBack, Saving, Go
    <3>4. Saves(t)
      BY <3>1 DEF Regular
    <3>5. (\A a \in Actor : ~ Saving(a)') => timer'.interval = Interval
      BY <3>1, <3>2, <3>3, <3>4 DEF Saves
    <3> QED BY <2>2, <3>2, <3>3, <3>5, Overtaken
  <2> QED BY <2>1, <2>2
<1>8. ASSUME NEW t \in Thread, Charge(t) PROVE Regular'
  <2>1. \A a \in Actor : /\ Saving(a)' <=> Saving(a)
                         /\ Saving(a) => /\ loc'[a].orig = loc[a].orig
                                         /\ a \in stale' <=> a \in stale
    BY <1>8 DEF Types, Charge, Saving, Go
  <2> QED BY <1>8, <2>1, Undisturbed DEF Charge
<1>9. ASSUME NEW t \in Thread, ResetBegin(t) \/ ResetEnd(t) \/ Insert(t) \/ FreeLock(t)
      PROVE  Regular'
  <2>1. \A a \in Actor : (Saving(a)' <=> Saving(a)) /\ (Saving(a) => loc'[a] = loc[a])
    BY <1>9 DEF Types, ResetBegin, ResetEnd, Insert, FreeLock, Saving, Go
  <2> QED BY <1>9, <2>1, Undisturbed DEF ResetBegin, ResetEnd, Insert, FreeLock
<1>10. ASSUME NEW t \in Thread, NEW b \in Buffers, ResetBuffer(t, b) PROVE Regular'
  <2>1. \A a \in Actor : (Saving(a)' <=> Saving(a)) /\ (Saving(a) => loc'[a] = loc[a])
    BY <1>10 DEF Types, ResetBuffer, Saving
  <2> QED BY <1>10, <2>1, Undisturbed DEF ResetBuffer
<1>11. ASSUME NEW t \in Thread, ThreadInit(t) PROVE Regular'
  <2>1. ~ Saving(t)' /\ timer'.interval = Interval /\ upset' = {}
    BY <1>11 DEF Types, ThreadInit, SetTimer, Saving, Go
  <2>2. \A a \in Actor \ {t} : Saving(a)' => a \in stale'
    BY <1>11 DEF Types, ThreadInit, SetTimer, Saving, Go
  <2> QED BY <2>1, <2>2, Overtaken
<1>12. ASSUME NEW t \in Thread, Leave(t) PROVE Regular'
  BY <1>12 DEF Leave, Regular
<1>13. ASSUME NEW t \in Thread, Create(t) \/ Merge(t) PROVE Regular'
  BY <1>13, Undisturbed DEF Types, Create, Merge, Saving, Go
<1>14. CASE DumpBegin
  <2>1. CASE upset # {}
    BY <1>14, <2>1 DEF DumpBegin, Regular
  <2>2. CASE upset = {}
    <3>1. \A a \in Actor \ {Dumper} : /\ Saving(a)' <=> Saving(a)
                                      /\ Saving(a) => a \in stale'
      BY <1>14 DEF Types, DumpBegin, SetTimer, Saving, Go
    <3>2. loc'[Dumper].orig = timer /\ Saving(Dumper)' /\ ~ Saving(Dumper)
      BY <1>14 DEF Types, DumpBegin, Saving, Go, Locals
    <3>3. (\A a \in Actor \ {Dumper} : ~ Saving(a)) => loc'[Dumper].orig.interval = Interval
      BY <2>2, <3>2 DEF Regular
    <3> QED BY <1>14, <2>2, <3>1, <3>2, <3>3, Overtaken DEF DumpBegin
  <2> QED BY <2>1, <2>2
<1>15. ASSUME NEW b \in Buffers, DumpLock \/ DumpBuffer(b) \/ DumpRead(b) PROVE Regular'
  <2>1. \A a \in Actor : (Saving(a)' <=> Saving(a)) /\ loc'[a].orig = loc[a].orig
    <3>1. CASE DumpLock
      BY <3>1 DEF Types, DumpLock, Saving, Go, Locals
    <3>2. CASE DumpBuffer(b)
      BY <3>2 DEF Types, DumpBuffer, Saving, Go, Locals
    <3>3. CASE DumpRead(b)
      BY <3>3 DEF Types, DumpRead, Saving, Go
    <3> QED BY <1>15, <3>1, <3>2, <3>3
  <2> QED BY <1>15, <2>1, Undisturbed DEF DumpLock, DumpBuffer, DumpRead
<1>16. CASE DumpEnd
  <2>1. CASE upset' # {}
    BY <2>1 DEF Regular
  <2>2. CASE upset' = {}
    <3>1. upset = {} /\ Dumper \notin stale
      BY <1>16, <2>2 DEF DumpEnd
    <3>2. Saving(Dumper) /\ ~ Saving(Dumper)' /\ timer' = loc[Dumper].orig
      BY <1>16 DEF Types, DumpEnd, Saving, Go
    <3>3. \A a \in Actor \ {Dumper} : (Saving(a)' <=> Saving(a)) /\ (Saving(a) => a \in stale')
      BY <1>16 DEF Types, DumpEnd, Saving, Go, Actor
    <3>4. Saves(Dumper)
      BY <3>1 DEF Regular
    <3>5. (\A a \in Actor : ~ Saving(a)') => timer'.interval = Interval
      BY <3>1, <3>2, <3>3, <3>4 DEF Saves
    <3> QED BY <2>2, <3>2, <3>3, <3>5, Overtaken
  <2> QED BY <2>1, <2>2
<1>17. CASE UNCHANGED vars
  BY <1>17, Undisturbed DEF vars, Saving
<1> QED
  BY <1>1, <1>2, <1>3, <1>4, <1>5, <1>6, <1>7, <1>8, <1>9, <1>10, <1>11, <1>12,
     <1>13, <1>14, <1>15, <1>16, <1>17, <1>18 DEF Next, Proceed

(* For any threads and intervals, and however calls, dumps and threads that
   start or end overlap: after them the timer runs at its interval, unless
   something upset it. *)
THEOREM TimerGoesOn == Spec => []TimerResumes
<1>1. Regular => TimerResumes
  BY DEF Regular, TimerResumes
<1> QED BY InitTypes, NextTypes, InitRegular, NextRegular, <1>1, PTL DEF Spec

-----------------------------------------------------------------------------
(* The child *)

Ours(b) == content[b] \subseteq {"own"}
InChild(t) == loc[t].call = "child"

(* A child that has not returned from fork() to its program is alone. *)
Alone ==
  \A t \in Thread : InChild(t) =>
    /\ child
    /\ pc[t] \in {"chain", "put back", "reset", "reset walk", "charge"}
    /\ \A u \in Thread \ {t} : pc[u] \in {"none", "gone"} /\ ~ InChild(u)

(* Where a thread has a buffer, and whether that is known to the others *)
Buffered ==
  \A t \in Thread :
    /\ pc[t] = "insert" => content[t] = {}
    /\ pc[t] \in {"init", "running", "sample", "record", "slow", "read slow", "chain",
                  "put back", "charge", "reset", "reset walk", "free", "merge"} => t \in bufs

(* The buffers the child has been through hold nothing of the parent. *)
Cleared ==
  \A t \in Thread :
    /\ pc[t] \in {"reset", "reset walk"} => InChild(t) /\ ~ keep
    /\ InChild(t) /\ ~ keep =>
         /\ pc[t] = "reset walk" => \A b \in (bufs \cup {Master}) \ loc[t].left : Ours(b)
         /\ pc[t] = "charge" => \A b \in bufs \cup {Master} : Ours(b)

ChildInv == Alone /\ Buffered /\ Cleared /\ ChildProfile

(* At first there is no child. *)
LEMMA InitChild == Init => ChildInv
  BY Setters DEF Init, ChildInv, Alone, Buffered, Cleared, ChildProfile, InChild, Buffers

(* Whoever runs the program is not in such a child. *)
LEMMA NotAlone ==
  ASSUME Alone, NEW t \in Thread, ~ InChild(t), pc[t] \notin {"none", "gone"}
  PROVE  \A u \in Thread : ~ InChild(u)
  BY DEF Alone

(* A thread that runs in the program is not on its way out of fork() in a child. *)
LEMMA Running ==
  ASSUME Alone, NEW t \in Thread,
         pc[t] \notin {"none", "gone", "chain", "put back", "reset", "reset walk", "charge"}
  PROVE  ~ InChild(t)
  BY DEF Alone

(* A step that leaves the threads and their buffers as they are *)
LEMMA Elsewhere ==
  ASSUME ChildInv, UNCHANGED profile,
         \A u \in Thread : loc'[u] = loc[u] /\ pc'[u] = pc[u]
  PROVE  ChildInv'
  BY DEF ChildInv, Alone, Buffered, Cleared, ChildProfile, InChild, Ours, profile

(* A step of a thread t where no thread is in such a child: the buffers are as
   they were, or hold more of its own. *)
LEMMA Ordinary ==
  ASSUME Types, ChildInv, NEW t \in Thread, UNCHANGED <<keep, child>>,
         ~ InChild(t), ~ InChild(t)', pc[t] \notin {"none", "gone"},
         \A u \in Thread \ {t} : loc'[u] = loc[u] /\ pc'[u] = pc[u],
         pc'[t] \notin {"reset", "reset walk"},
         Buffered',
         \A b \in bufs' \cup {Master} :
           (\A c \in bufs \cup {Master} : Ours(c)) => Ours(b)'
  PROVE  ChildInv'
<1>1. \A u \in Thread : ~ InChild(u)
  BY NotAlone DEF ChildInv
<1>2. \A u \in Thread : ~ InChild(u)'
  BY <1>1 DEF InChild
<1>3. Alone'
  BY <1>2 DEF Alone
<1>4. Cleared'
  BY <1>1, <1>2 DEF ChildInv, Cleared
<1>5. ChildProfile'
  BY <1>1 DEF ChildInv, ChildProfile, InChild, Ours
<1> QED BY <1>3, <1>4, <1>5 DEF ChildInv

(* Every step of parent or child keeps what the child needs. *)
LEMMA NextChild == Types /\ ChildInv /\ [Next]_vars => ChildInv'
<1> SUFFICES ASSUME Types, ChildInv, [Next]_vars PROVE ChildInv'
  OBVIOUS
<1> USE Setters
<1>1. CASE Elapse
  BY <1>1, Elsewhere DEF Elapse
<1>2. ASSUME NEW a \in Actor, Signal(a) PROVE ChildInv'
  <2>1. CASE pc[a] \notin {"running", "init"}
    BY <1>2, <2>1, Elsewhere DEF Signal
  <2>2. CASE pc[a] \in {"running", "init"}
    <3>1. a \in Thread
      BY <1>2, <2>2 DEF Signal, Actor
    <3>2. ~ InChild(a) /\ ~ InChild(a)'
      BY <1>2, <2>2, <3>1, Running DEF ChildInv, InChild, Signal
    <3>3. /\ pc'[a] = "sample" /\ UNCHANGED <<keep, child, bufs, content, loc>>
          /\ \A u \in Thread \ {a} : pc'[u] = pc[u]
      BY <1>2, <2>2 DEF Types, Signal, profile, Go
    <3>4. Buffered'
      BY <2>2, <3>3 DEF ChildInv, Buffered
    <3> QED BY <2>2, <3>1, <3>2, <3>3, <3>4, Ordinary DEF Ours
  <2> QED BY <2>1, <2>2
<1>3. ASSUME NEW t \in Thread, SampleLock(t) PROVE ChildInv'
  <2>1. /\ pc[t] = "sample" /\ pc'[t] = "record" /\ UNCHANGED <<keep, child, bufs, content, loc>>
        /\ \A u \in Thread \ {t} : pc'[u] = pc[u]
    BY <1>3 DEF Types, SampleLock, profile, Go
  <2>2. ~ InChild(t) /\ ~ InChild(t)'
    BY <2>1, Running DEF ChildInv, InChild
  <2>3. Buffered'
    BY <2>1 DEF ChildInv, Buffered
  <2> QED BY <2>1, <2>2, <2>3, Ordinary DEF Ours
<1>4. ASSUME NEW t \in Thread, SampleRecord(t) PROVE ChildInv'
  <2>1. /\ pc[t] = "record" /\ pc'[t] \in {"init", "running"}
        /\ UNCHANGED <<keep, child, bufs, loc>>
        /\ \A u \in Thread \ {t} : pc'[u] = pc[u]
    BY <1>4 DEF Types, SampleRecord, Go
  <2>2. /\ content'[t] = content[t] \cup {"own"}
        /\ \A b \in Buffers \ {t} : content'[b] = content[b]
    BY <1>4 DEF Types, SampleRecord
  <2>3. ~ InChild(t) /\ ~ InChild(t)'
    BY <2>1, Running DEF ChildInv, InChild
  <2>4. Buffered'
    BY <2>1, <2>2 DEF ChildInv, Buffered
  <2>5. \A b \in bufs' \cup {Master} : Ours(b) => Ours(b)'
    BY <2>1, <2>2 DEF Types, Ours
  <2> QED BY <2>1, <2>3, <2>4, <2>5, Ordinary
<1>5. ASSUME NEW t \in Thread, Enter(t) \/ SlowDown(t) \/ ReadSlow(t) PROVE ChildInv'
  <2>1. /\ pc[t] \in {"running", "slow", "read slow"}
        /\ pc'[t] \in {"slow", "read slow", "chain"}
        /\ UNCHANGED <<keep, child, bufs, content>>
        /\ \A u \in Thread \ {t} : pc'[u] = pc[u] /\ loc'[u] = loc[u]
        /\ loc'[t].call \in {"call", loc[t].call}
    <3>1. CASE Enter(t)
      BY <3>1 DEF Types, Enter, profile, Go, NoLocals
    <3>2. CASE SlowDown(t)
      BY <3>2 DEF Types, SlowDown, profile, Go, Locals
    <3>3. CASE ReadSlow(t)
      BY <3>3 DEF Types, ReadSlow, profile, Go, Locals
    <3> QED BY <1>5, <3>1, <3>2, <3>3
  <2>2. ~ InChild(t) /\ ~ InChild(t)'
    BY <2>1, Running DEF ChildInv, InChild
  <2>3. Buffered'
    BY <2>1 DEF ChildInv, Buffered
  <2> QED BY <2>1, <2>2, <2>3, Ordinary DEF Ours
<1>6. ASSUME NEW t \in Thread, Fail(t) PROVE ChildInv'
  <2>1. /\ pc[t] = "chain" /\ pc'[t] = "running" /\ UNCHANGED <<keep, child, bufs, content>>
        /\ \A u \in Thread \ {t} : pc'[u] = pc[u] /\ loc'[u] = loc[u]
        /\ loc[t].call = "call" /\ loc'[t].call = "none"
    BY <1>6 DEF Types, Fail, profile, Go
  <2>2. Buffered'
    BY <2>1 DEF ChildInv, Buffered
  <2> QED BY <2>1, <2>2, Ordinary DEF Ours, InChild
<1>7. ASSUME NEW t \in Thread, Born(t) PROVE ChildInv'
  <2>1. /\ pc[t] = "chain" /\ pc'[t] = "chain" /\ child' /\ UNCHANGED <<keep, bufs>>
        /\ InChild(t)'
        /\ \A u \in Thread \ {t} : pc'[u] \in {"none", "gone"} /\ ~ InChild(u)'
    BY <1>7 DEF Types, Born, Locals, InChild
  <2>2. Alone' /\ Cleared' /\ ChildProfile'
    BY <2>1 DEF Alone, Cleared, ChildProfile, InChild
  <2>3. Buffered'
    BY <2>1 DEF ChildInv, Buffered
  <2> QED BY <2>2, <2>3 DEF ChildInv
<1>8. ASSUME NEW t \in Thread, Resume(t) PROVE ChildInv'
  <2>1. /\ pc[t] = "put back" /\ UNCHANGED <<keep, child, bufs, content>>
        /\ pc'[t] = IF InChild(t) /\ ~ keep THEN "reset" ELSE "charge"
        /\ \A u \in Thread \ {t} : pc'[u] = pc[u]
        /\ \A u \in Thread : loc'[u].call = loc[u].call /\ loc'[u].left = loc[u].left
    BY <1>8 DEF Types, Resume, profile, Go, InChild, Locals
  <2>2. \A u \in Thread : InChild(u)' <=> InChild(u)
    BY <2>1 DEF InChild
  <2>3. Alone' /\ Buffered' /\ ChildProfile'
    <3>1. Alone'
      BY <2>1, <2>2 DEF ChildInv, Alone
    <3>2. Buffered'
      BY <2>1 DEF ChildInv, Buffered
    <3>3. ChildProfile'
      BY <2>1, <2>2 DEF ChildInv, ChildProfile, InChild
    <3> QED BY <3>1, <3>2, <3>3
  <2>4. Cleared'
    BY <2>1, <2>2 DEF ChildInv, Alone, Cleared, Ours
  <2> QED BY <2>3, <2>4 DEF ChildInv
<1>20. ASSUME NEW t \in Thread, Return(t) PROVE ChildInv'
  <2>1. /\ pc[t] = "chain" /\ pc'[t] = "put back" /\ UNCHANGED <<keep, child, bufs, content>>
        /\ \A u \in Thread \ {t} : pc'[u] = pc[u]
        /\ \A u \in Thread : loc'[u].call = loc[u].call /\ loc'[u].left = loc[u].left
    BY <1>20 DEF Types, Return, profile, Go, Locals
  <2>2. \A u \in Thread : InChild(u)' <=> InChild(u)
    BY <2>1 DEF InChild
  <2>3. Alone'
    BY <2>1, <2>2 DEF ChildInv, Alone
  <2>4. Buffered'
    BY <2>1 DEF ChildInv, Buffered
  <2>5. ChildProfile'
    BY <2>1, <2>2 DEF ChildInv, ChildProfile, InChild
  <2>6. Cleared'
    <3>1. \A b \in Buffers : Ours(b)' <=> Ours(b)
      BY <2>1 DEF Ours
    <3>2. bufs \cup {Master} \subseteq Buffers
      BY DEF Types
    <3>3. \A u \in Thread \ {t} : pc'[u] = pc[u] /\ loc'[u].left = loc[u].left
                               /\ (InChild(u)' <=> InChild(u))
      BY <2>1, <2>2
    <3> QED BY <2>1, <3>1, <3>2, <3>3 DEF ChildInv, Cleared
  <2> QED BY <2>3, <2>4, <2>5, <2>6 DEF ChildInv
<1>9. ASSUME NEW t \in Thread, Charge(t) PROVE ChildInv'
  <2>1. /\ pc[t] = "charge" /\ pc'[t] = "running" /\ UNCHANGED <<keep, child, bufs>>
        /\ \A u \in Thread \ {t} : pc'[u] = pc[u] /\ loc'[u] = loc[u]
        /\ ~ InChild(t)'
    BY <1>9 DEF Types, Charge, Go, InChild
  <2>2. /\ \A b \in Buffers : Ours(b) => Ours(b)'
        /\ \A b \in Buffers \ {t} : content'[b] = content[b]
    BY <1>9 DEF Types, Charge, Ours
  <2>3. Buffered'
    BY <2>1, <2>2 DEF ChildInv, Buffered
  <2>4. CASE ~ InChild(t)
    BY <2>1, <2>2, <2>3, <2>4, Ordinary DEF Types
  <2>5. CASE InChild(t)
    <3>1. \A u \in Thread : ~ InChild(u)'
      BY <2>1, <2>5 DEF ChildInv, Alone, InChild
    <3>2. Alone'
      BY <3>1 DEF Alone
    <3>3. Cleared'
      BY <2>1, <2>5, <3>1 DEF ChildInv, Alone, Cleared
    <3>4. ChildProfile'
      BY <2>1, <2>2, <2>5 DEF ChildInv, Cleared, ChildProfile, Types, Ours
    <3> QED BY <2>3, <3>2, <3>3, <3>4 DEF ChildInv
  <2> QED BY <2>4, <2>5
<1>10. ASSUME NEW t \in Thread, ResetBegin(t) PROVE ChildInv'
  <2>1. /\ pc[t] = "reset" /\ pc'[t] = "reset walk" /\ UNCHANGED <<keep, child, bufs, content>>
        /\ \A u \in Thread \ {t} : pc'[u] = pc[u] /\ loc'[u] = loc[u]
        /\ loc'[t].call = loc[t].call /\ loc'[t].left = bufs \cup {Master}
    BY <1>10 DEF Types, ResetBegin, profile, Go, Locals
  <2>2. \A u \in Thread : InChild(u)' <=> InChild(u)
    BY <2>1 DEF InChild
  <2>3. Alone' /\ Buffered' /\ ChildProfile'
    <3>1. Alone'
      BY <2>1, <2>2 DEF ChildInv, Alone
    <3>2. Buffered'
      BY <2>1 DEF ChildInv, Buffered
    <3>3. ChildProfile'
      BY <2>1, <2>2 DEF ChildInv, ChildProfile, InChild
    <3> QED BY <3>1, <3>2, <3>3
  <2>4. Cleared'
    BY <2>1, <2>2 DEF ChildInv, Cleared, Ours
  <2> QED BY <2>3, <2>4 DEF ChildInv
<1>11. ASSUME NEW t \in Thread, NEW b \in Buffers, ResetBuffer(t, b) PROVE ChildInv'
  <2>1. /\ pc[t] = "reset walk" /\ UNCHANGED <<keep, child, bufs, pc>>
        /\ \A u \in Thread \ {t} : loc'[u] = loc[u]
        /\ loc'[t].call = loc[t].call /\ loc'[t].left = loc[t].left \ {b}
    BY <1>11 DEF Types, ResetBuffer, Locals
  <2>2. content'[b] = {} /\ \A c \in Buffers \ {b} : content'[c] = content[c]
    BY <1>11 DEF Types, ResetBuffer
  <2>3. \A u \in Thread : InChild(u)' <=> InChild(u)
    BY <2>1 DEF InChild
  <2>4. InChild(t) /\ ~ keep
    BY <2>1 DEF ChildInv, Cleared
  <2>5. Alone' /\ ChildProfile'
    BY <2>1, <2>3, <2>4 DEF ChildInv, Alone, ChildProfile, InChild
  <2>6. Buffered'
    BY <2>1, <2>2 DEF ChildInv, Buffered
  <2>7. Cleared'
    <3>1. \A u \in Thread \ {t} : ~ InChild(u) /\ pc[u] \in {"none", "gone"}
      BY <2>4 DEF ChildInv, Alone
    <3>2. \A c \in (bufs \cup {Master}) \ (loc[t].left \ {b}) : Ours(c)'
      <4>1. TAKE c \in (bufs \cup {Master}) \ (loc[t].left \ {b})
      <4>2. CASE c = b
        BY <2>2, <4>2 DEF Ours
      <4>3. CASE c # b
        <5>1. Ours(c)
          BY <2>1, <2>4, <4>3 DEF ChildInv, Cleared
        <5>2. c \in Buffers \ {b}
          BY <4>3 DEF Types
        <5> QED BY <2>2, <5>1, <5>2 DEF Ours
      <4> QED BY <4>2, <4>3
    <3> QED BY <2>1, <2>3, <2>4, <3>1, <3>2 DEF Cleared
  <2> QED BY <2>5, <2>6, <2>7 DEF ChildInv
<1>12. ASSUME NEW t \in Thread, ResetEnd(t) PROVE ChildInv'
  <2>1. /\ pc[t] = "reset walk" /\ pc'[t] = "charge" /\ UNCHANGED <<keep, child, bufs, content, loc>>
        /\ loc[t].left = {} /\ \A u \in Thread \ {t} : pc'[u] = pc[u]
    BY <1>12 DEF Types, ResetEnd, profile, Go
  <2>2. Alone' /\ Buffered' /\ ChildProfile'
    BY <2>1 DEF ChildInv, Alone, Buffered, ChildProfile, InChild
  <2>3. Cleared'
    BY <2>1 DEF ChildInv, Cleared, Ours, InChild
  <2> QED BY <2>2, <2>3 DEF ChildInv
<1>13. ASSUME NEW t \in Thread, Create(t) PROVE ChildInv'
  <2>1. PICK u \in Thread : pc[u] = "running"
    BY <1>13 DEF Create
  <2>2. \A v \in Thread : ~ InChild(v) /\ ~ InChild(v)'
    BY <1>13, <2>1, Running, NotAlone DEF ChildInv, Create, InChild
  <2>3. /\ pc[t] = "none" /\ pc'[t] = "insert" /\ UNCHANGED <<keep, child, bufs, loc>>
        /\ \A v \in Thread \ {t} : pc'[v] = pc[v]
    BY <1>13 DEF Types, Create, Go
  <2>4. content'[t] = {} /\ \A b \in Buffers \ {t} : content'[b] = content[b]
    BY <1>13 DEF Types, Create
  <2>5. Alone' /\ Cleared'
    BY <2>2, <2>3 DEF ChildInv, Alone, Cleared
  <2>6. Buffered'
    BY <2>3, <2>4 DEF ChildInv, Buffered
  <2>7. ChildProfile'
    BY <2>2, <2>3, <2>4 DEF ChildInv, ChildProfile, InChild, Types
  <2> QED BY <2>5, <2>6, <2>7 DEF ChildInv
<1>14. ASSUME NEW t \in Thread, Insert(t) PROVE ChildInv'
  <2>1. /\ pc[t] = "insert" /\ pc'[t] = "init" /\ UNCHANGED <<keep, child, content>>
        /\ \A u \in Thread \ {t} : pc'[u] = pc[u] /\ loc'[u] = loc[u]
        /\ loc'[t].call = "init" /\ bufs' = bufs \cup {t}
    BY <1>14 DEF Types, Insert, Go, Locals
  <2>2. ~ InChild(t) /\ ~ InChild(t)'
    BY <2>1, Running DEF ChildInv, InChild
  <2>3. Buffered'
    BY <2>1 DEF ChildInv, Buffered
  <2>4. Ours(t)'
    BY <2>1 DEF ChildInv, Buffered, Ours
  <2>5. \A b \in bufs' \cup {Master} : b = t \/ (b \in bufs \cup {Master} /\ (Ours(b) => Ours(b)'))
    BY <2>1 DEF Ours
  <2> QED BY <2>1, <2>2, <2>3, <2>4, <2>5, Ordinary
<1>15. ASSUME NEW t \in Thread, ThreadInit(t) \/ Leave(t) PROVE ChildInv'
  <2>1. /\ pc[t] \in {"init", "running"} /\ pc'[t] \in {"running", "free"}
        /\ UNCHANGED <<keep, child, bufs, content>>
        /\ \A u \in Thread \ {t} : pc'[u] = pc[u] /\ loc'[u] = loc[u]
    BY <1>15 DEF Types, ThreadInit, Leave, profile, Go
  <2>2. loc'[t].call \in {"none", loc[t].call}
    BY <1>15 DEF Types, ThreadInit, Leave
  <2>3. ~ InChild(t)
    BY <2>1, Running DEF ChildInv
  <2>4. ~ InChild(t)'
    BY <2>2, <2>3 DEF InChild
  <2>5. Buffered'
    BY <2>1 DEF ChildInv, Buffered
  <2> QED BY <2>1, <2>3, <2>4, <2>5, Ordinary DEF Ours
<1>16. ASSUME NEW t \in Thread, FreeLock(t) PROVE ChildInv'
  <2>1. /\ pc[t] = "free" /\ pc'[t] = "merge" /\ UNCHANGED <<keep, child, bufs, content, loc>>
        /\ \A u \in Thread \ {t} : pc'[u] = pc[u]
    BY <1>16 DEF Types, FreeLock, profile, Go
  <2>2. ~ InChild(t) /\ ~ InChild(t)'
    BY <2>1, Running DEF ChildInv, InChild
  <2>3. Buffered'
    BY <2>1 DEF ChildInv, Buffered
  <2> QED BY <2>1, <2>2, <2>3, Ordinary DEF Ours
<1>17. ASSUME NEW t \in Thread, Merge(t) PROVE ChildInv'
  <2>1. /\ pc[t] = "merge" /\ pc'[t] = "none" /\ UNCHANGED <<keep, child, loc>>
        /\ \A u \in Thread \ {t} : pc'[u] = pc[u]
        /\ bufs' = bufs \ {t}
    BY <1>17 DEF Types, Merge, Go
  <2>2. /\ content'[Master] = content[Master] \cup content[t]
        /\ content'[t] = {}
        /\ \A b \in Buffers \ {Master, t} : content'[b] = content[b]
    BY <1>17 DEF Types, Merge
  <2>3. ~ InChild(t) /\ ~ InChild(t)'
    BY <2>1, Running DEF ChildInv, InChild
  <2>4. Buffered'
    BY <2>1, <2>2 DEF ChildInv, Buffered
  <2>5. t \in bufs
    BY <2>1 DEF ChildInv, Buffered
  <2>6. \A b \in bufs' \cup {Master} :
          (\A c \in bufs \cup {Master} : Ours(c)) => Ours(b)'
    BY <2>1, <2>2, <2>5 DEF Ours, Types
  <2> QED BY <2>1, <2>3, <2>4, <2>6, Ordinary
<1>18. ASSUME NEW b \in Buffers,
              DumpBegin \/ DumpLock \/ DumpBuffer(b) \/ DumpRead(b) \/ DumpEnd
       PROVE  ChildInv'
  <2>1. UNCHANGED profile /\ \A u \in Thread : loc'[u] = loc[u] /\ pc'[u] = pc[u]
    BY <1>18 DEF Types, DumpBegin, DumpLock, DumpBuffer, DumpRead, DumpEnd, Go
  <2> QED BY <2>1, Elsewhere
<1>19. CASE UNCHANGED vars
  BY <1>19, Elsewhere DEF vars, profile
<1> QED
  BY <1>1, <1>2, <1>3, <1>4, <1>5, <1>6, <1>7, <1>8, <1>9, <1>10, <1>11, <1>12,
     <1>13, <1>14, <1>15, <1>16, <1>17, <1>18, <1>19, <1>20 DEF Next, Proceed

(* For any threads, whatever they were doing when one of them forked: a child
   that is back in its program has no samples of its parent in the buffers it
   would dump, if the profiles are not to be kept. *)
THEOREM ChildIsItsOwn == Spec => []ChildProfile
<1>1. ChildInv => ChildProfile
  BY DEF ChildInv
<1> QED BY InitTypes, NextTypes, InitChild, NextChild, <1>1, PTL DEF Spec

-----------------------------------------------------------------------------
(* Ticks and time *)

(* What a timer can be: stopped, or with something left of its interval. *)
Timers == {t \in [interval : {0, Interval, Slow}, value : Nat] :
             t.value <= t.interval /\ (t.value = 0 <=> t.interval = 0)}
Progress(t) == t.interval - t.value

(* How far a timer is with its next tick: a slow one only at the end. *)
Worth(t) == IF t.value = 0 \/ t.value >= Interval THEN 0 ELSE Interval - t.value

Shape == /\ timer \in Timers /\ now \in Int /\ calls \in Int /\ ticks \in Int
         /\ \A a \in Actor : loc[a].orig \in Timers /\ loc[a].dt \in Int

(* A thread whose call nobody has overtaken has slowed down the timer. *)
InSlow(a) == pc[a] \in {"read slow", "chain"}
Slowed ==
  \A t \in Thread : InSlow(t) /\ t \notin stale /\ loc[t].call # "child" =>
    timer.interval = Slow

(* Of those who have set the timer all but the last know that they are overtaken. *)
Sole ==
  \A a, b \in Actor : Saving(a) /\ Saving(b) /\ a \notin stale /\ b \notin stale => a = b

(* What a call that has seen the timer run at its interval has in dt so far: the
   time since the last tick, and then what the slow timer had left. *)
Begun ==
  \A t \in Thread : loc[t].seen = Interval =>
    /\ pc[t] \in {"slow", "read slow"} => loc[t].dt <= Interval - 1
    /\ pc[t] = "chain" => loc[t].dt <= Interval - 1 + Slow

(* What an actor is still to be paid: the tick of its signal, how far the timer it
   has saved is, and what its call is allowed or, in the end, charged. *)
Allowance == 4 * (Interval - 1) + Interval
Honest(a) == ~ Overlaps(a) /\ loc[a].call # "child"
Timed(a) == InSlow(a) /\ Honest(a)
Reckoned(a) == pc[a] \in {"put back", "charge"} /\ Honest(a)
Cost(a) == IF loc[a].dt >= 0 THEN 2 * loc[a].dt + Interval ELSE 0
Sampled(a) == IF pc[a] \in {"sample", "record"} THEN 2 * Interval ELSE 0
Saved(a) == IF Saving(a) THEN 2 * Worth(loc[a].orig) ELSE 0
Owed(a) == IF pc[a] = "slow" \/ Timed(a) THEN Allowance
           ELSE IF Reckoned(a) THEN Cost(a) ELSE 0
Due(a) == Sampled(a) + Saved(a) + Owed(a)
Dues == [a \in Actor |-> Due(a)]

(* What is on the way: a signal, and the timer's next tick, or all its progress
   while that measures a call. *)
Pace == IF \E t \in Thread : Timed(t) THEN Progress(timer) ELSE Worth(timer)
Coming == (IF pending THEN 2 * Interval ELSE 0) + 2 * Pace

(* The time and the calls so far pay for the ticks and for all dues. *)
Budget == 2 * now + (4 * (Interval - 1) + Interval) * calls
Paid == 2 * Interval * ticks + Coming + SumFunctionOnSet(Dues, Actor) <= Budget

(* The timers that the program sets, and how far they have come. *)
LEMMA TimerFacts ==
  /\ Interval \in Nat \ {0} /\ Slow \in Nat \ {0} /\ Interval < Slow
  /\ \A n \in {Interval, Slow} : Every(n) \in Timers /\ Progress(Every(n)) = 0
                                 /\ Worth(Every(n)) = 0 /\ Every(n).interval = n
  /\ Stopped \in Timers /\ Progress(Stopped) = 0 /\ Worth(Stopped) = 0
  /\ \A t \in Timers : /\ t.interval \in {0, Interval, Slow}
                       /\ t.value \in Nat /\ t.value <= t.interval /\ t.value <= Slow
                       /\ Progress(t) \in Nat /\ Progress(t) = t.interval - t.value
                       /\ t.interval = Interval => Progress(t) <= Interval - 1
                       /\ Worth(t) \in Nat /\ Worth(t) <= Progress(t)
                       /\ Worth(t) <= Interval - 1
<1>1. /\ Interval \in Nat \ {0} /\ Slow \in Nat \ {0} /\ Interval < Slow
  BY PerfAssumption
<1>2. \A n \in {Interval, Slow} : Every(n) \in Timers /\ Every(n).interval = n /\ Every(n).value = n
  BY <1>1 DEF Timers, Every
<1>3. Stopped \in Timers /\ Stopped.interval = 0 /\ Stopped.value = 0
  BY <1>1 DEF Timers, Stopped
<1>4. \A t \in Timers : t.interval \in {0, Interval, Slow} /\ t.value \in Nat
                       /\ t.value <= t.interval /\ (t.value = 0 <=> t.interval = 0)
  BY DEF Timers
<1>5. ASSUME NEW t \in Timers
      PROVE  /\ t.value <= Slow
             /\ Progress(t) \in Nat /\ Progress(t) = t.interval - t.value
             /\ t.interval = Interval => Progress(t) <= Interval - 1
             /\ Worth(t) \in Nat /\ Worth(t) <= Progress(t) /\ Worth(t) <= Interval - 1
  BY <1>1, <1>4 DEF Progress, Worth
<1>6. \A n \in {Interval, Slow} : Progress(Every(n)) = 0 /\ Worth(Every(n)) = 0
  BY <1>1, <1>2 DEF Progress, Worth
<1>7. Progress(Stopped) = 0 /\ Worth(Stopped) = 0
  BY <1>3 DEF Progress, Worth
<1> QED BY <1>1, <1>2, <1>3, <1>4, <1>5, <1>6, <1>7

(* There are finitely many actors. *)
LEMMA FiniteActors == IsFiniteSet(Actor)
BY PerfAssumption, FS_AddElement DEF Actor

(* What an actor is due is a number. *)
LEMMA DueTypes ==
  ASSUME Shape, NEW a \in Actor
  PROVE  /\ Sampled(a) \in Nat /\ Saved(a) \in Nat /\ Owed(a) \in Nat
         /\ Due(a) \in Nat /\ Dues[a] = Due(a)
<1>1. Worth(loc[a].orig) \in Nat /\ loc[a].dt \in Int /\ Interval \in Nat \ {0}
  BY TimerFacts DEF Shape
<1>2. Allowance \in Nat /\ Cost(a) \in Nat
  BY <1>1 DEF Allowance, Cost
<1>3. Sampled(a) \in Nat /\ Saved(a) \in Nat /\ Owed(a) \in Nat
  BY <1>1, <1>2 DEF Sampled, Saved, Owed
<1> QED BY <1>3 DEF Due, Dues

(* What is on the way is a number, at least the timer's next tick. *)
LEMMA ComingTypes ==
  ASSUME Shape
  PROVE  /\ Coming \in Nat /\ Progress(timer) \in Nat /\ Budget \in Int
         /\ 2 * Interval * ticks \in Int
         /\ Pace \in Nat /\ Worth(timer) \in Nat
         /\ Worth(timer) <= Pace /\ Pace <= Progress(timer)
<1>1. Interval \in Nat /\ now \in Int /\ calls \in Int /\ ticks \in Int
  BY TimerFacts DEF Shape
<1>2. Progress(timer) \in Nat /\ Worth(timer) \in Nat /\ Worth(timer) <= Progress(timer)
  BY TimerFacts DEF Shape
<1>3. Pace \in Nat /\ Worth(timer) <= Pace /\ Pace <= Progress(timer)
  BY <1>2 DEF Pace
<1> QED BY <1>1, <1>2, <1>3 DEF Coming, Budget

(* Who goes on as before is due no more: a call can only come to overlap. *)
LEMMA SameDue ==
  ASSUME Shape, NEW a \in Actor, pc'[a] = pc[a], loc'[a] = loc[a],
         a \in stale => a \in stale'
  PROVE  Due(a)' <= Due(a)
<1>1. Sampled(a)' = Sampled(a) /\ Saved(a)' = Saved(a)
  BY DEF Sampled, Saved, Saving
<1>2. Owed(a)' = Owed(a) \/ Owed(a)' = 0
  BY DEF Owed, Timed, Reckoned, Honest, InSlow, Overlaps, Cost
<1>3. Sampled(a) \in Nat /\ Saved(a) \in Nat /\ Owed(a) \in Nat
  BY DueTypes
<1> QED BY <1>1, <1>2, <1>3 DEF Due

(* The account of a step. *)
LEMMA Balance ==
  \A x, y, c, e, s, r, b, k, d \in Int :
    x + c + s <= b /\ r <= s + d /\ y + e + d - k <= x + c - b => y + e + r <= k
  OBVIOUS

(* With nothing else changed. *)
LEMMA EvenBalance ==
  \A x, y, c, e, b, k, d \in Int : y = x /\ k = b /\ e + d <= c => y + e + d - k <= x + c - b
  OBVIOUS

(* A step pays if what t is due more is covered by what else has changed. *)
LEMMA Pays ==
  ASSUME Shape, Shape', Paid, NEW t \in Actor, NEW d \in Int,
         Due(t)' <= Due(t) + d, \A a \in Actor \ {t} : Due(a)' <= Due(a),
         2 * Interval * ticks' + Coming' + d - Budget' <=
           2 * Interval * ticks + Coming - Budget
  PROVE  Paid'
<1>1. \A a \in Actor : Dues[a] = Due(a) /\ Due(a) \in Int
  BY DueTypes
<1>2. \A a \in Actor : Dues'[a] = Due(a)' /\ Due(a)' \in Int
  <2> SUFFICES ASSUME NEW a \in Actor PROVE Dues'[a] = Due(a)' /\ Due(a)' \in Int
    OBVIOUS
  <2>1. Shape' => (/\ Sampled(a) \in Nat /\ Saved(a) \in Nat /\ Owed(a) \in Nat
                   /\ Due(a) \in Nat /\ Dues[a] = Due(a))'
    BY DueTypes, PTL
  <2> QED BY <2>1
<1>3. SumFunctionOnSet(Dues', Actor) <= SumFunctionOnSet(Dues, Actor) + d
  BY <1>1, <1>2, FiniteActors, SumBounded
<1>4. SumFunctionOnSet(Dues, Actor) \in Int /\ SumFunctionOnSet(Dues', Actor) \in Int
  BY <1>1, <1>2, FiniteActors, SumInt
<1>5. Coming \in Int /\ Budget \in Int /\ 2 * Interval * ticks \in Int
  BY ComingTypes
<1>6. Coming' \in Int /\ Budget' \in Int /\ 2 * Interval * ticks' \in Int
  <2>1. Shape' => (Coming \in Nat /\ Budget \in Int /\ 2 * Interval * ticks \in Int)'
    BY ComingTypes, PTL
  <2> QED BY <2>1
<1>7. 2 * Interval * ticks + Coming + SumFunctionOnSet(Dues, Actor) <= Budget
  BY DEF Paid
<1>8. 2 * Interval * ticks' + Coming' + SumFunctionOnSet(Dues', Actor) <= Budget'
  BY <1>3, <1>4, <1>5, <1>6, <1>7, Balance
<1> QED BY <1>8 DEF Paid

(* What a timer charges for a time, to the nearest tick: not more than the time
   and half an Interval, even if it is as slow as during a call. *)
LEMMA NearestBound ==
  ASSUME NEW dt \in Nat, NEW ival \in Nat, Interval <= ival
  PROVE  Nearest(dt, ival) \in Nat /\ 2 * Interval * Nearest(dt, ival) <= 2 * dt + Interval
<1> DEFINE q == (2 * dt + ival) \div (2 * ival)
<1>1. Interval \in Nat \ {0} /\ ival \in Nat \ {0}
  BY TimerFacts
<1>2. Nearest(dt, ival) = q
  <2>1. 2 * dt + ival >= 0
    BY <1>1
  <2> QED BY <2>1 DEF Nearest
<1>3. \A x \in Nat, y \in Nat \ {0} : x \div y \in Nat /\ y * (x \div y) <= x
  OBVIOUS
<1>4. q \in Nat /\ (2 * ival) * q <= 2 * dt + ival
  <2>1. 2 * dt + ival \in Nat /\ 2 * ival \in Nat \ {0}
    BY <1>1
  <2> QED BY <2>1, <1>3
<1> HIDE DEF q
<1>5. 2 * Interval * q <= 2 * dt + Interval
  <2>1. CASE q = 0
    BY <1>1, <2>1
  <2>2. CASE q >= 1
    <3>1. \A x, y \in Nat : x * y \in Nat
      OBVIOUS
    <3>2. (ival - Interval) * (2 * q - 1) >= 0
      BY <1>1, <1>4, <2>2, <3>1
    <3>3. (ival - Interval) * (2 * q - 1) =
            (2 * ival) * q - ival - 2 * Interval * q + Interval
      BY <1>1, <1>4
    <3>4. (2 * ival) * q \in Int /\ 2 * Interval * q \in Int
      BY <1>1, <1>4
    <3> QED BY <1>1, <1>4, <3>2, <3>3, <3>4
  <2> QED BY <1>4, <2>1, <2>2
<1> QED BY <1>2, <1>4, <1>5

(* A time below 0 is charged nothing, or less. *)
LEMMA NearestLow ==
  ASSUME NEW dt \in Int, dt < 0, NEW ival \in Nat \ {0}
  PROVE  Nearest(dt, ival) \in Int /\ Nearest(dt, ival) <= 0
<1>1. \A x \in Nat, y \in Nat \ {0} : /\ x \div y \in Nat
                                     /\ x < y => x \div y = 0
  OBVIOUS
<1>2. 2 * ival \in Nat \ {0}
  OBVIOUS
<1>3. CASE 2 * dt + ival >= 0
  <2>1. 2 * dt + ival \in Nat /\ 2 * dt + ival < 2 * ival
    BY <1>3
  <2>2. (2 * dt + ival) \div (2 * ival) = 0
    BY <2>1, <1>1, <1>2
  <2> QED BY <1>3, <2>2 DEF Nearest
<1>4. CASE ~ (2 * dt + ival >= 0)
  <2>1. - 2 * dt - ival \in Nat
    BY <1>4
  <2>2. (- 2 * dt - ival) \div (2 * ival) \in Nat
    BY <2>1, <1>1, <1>2
  <2>3. Nearest(dt, ival) = - ((- 2 * dt - ival) \div (2 * ival))
    BY <1>4 DEF Nearest
  <2> QED BY <2>2, <2>3
<1> QED BY <1>3, <1>4

(* Who measures a call with the timer has the slow one. *)
LEMMA TimedSlow ==
  ASSUME Slowed, NEW t \in Thread, Timed(t)
  PROVE  timer.interval = Slow
  BY DEF Slowed, Timed, Honest, Overlaps

(* The time that passes is paid into what is on the way: the progress of the
   timer, or its signal. *)
LEMMA ElapseTimer ==
  ASSUME Shape, Elapse
  PROVE  /\ timer' \in Timers /\ timer'.interval = timer.interval
         /\ Coming' <= Coming + 2
<1>1. timer \in Timers /\ timer.interval \in {0, Interval, Slow} /\ timer.value \in Nat
  BY TimerFacts DEF Shape
<1>2. timer = [interval |-> timer.interval, value |-> timer.value]
  BY <1>1 DEF Timers
<1>6. \A t \in Thread : Timed(t)' <=> Timed(t)
  BY DEF Elapse, Timed, InSlow, Honest, Overlaps
<1>7. Interval \in Nat \ {0} /\ Coming \in Nat /\ Pace \in Nat /\ Worth(timer) <= Pace
      /\ Worth(timer) \in Nat /\ Progress(timer) \in Nat
  BY TimerFacts, ComingTypes
<1>3. CASE timer.value = 0
  <2>1. timer' = timer /\ (pending' <=> pending)
    <3>1. timer.value # 1
      BY <1>3
    <3>2. timer' = timer
      BY <1>3, <3>1 DEF Elapse
    <3>3. pending' = (pending \/ timer.value = 1)
      BY DEF Elapse
    <3> QED BY <3>1, <3>2, <3>3
  <2>2. Pace' = Pace
    BY <1>6, <2>1 DEF Pace, Progress, Worth
  <2>3. Coming' = Coming
    BY <2>1, <2>2 DEF Coming
  <2> QED BY <1>1, <1>7, <2>1, <2>3
<1>4. CASE timer.value = 1
  <2>1. timer' = Every(timer.interval) /\ pending'
    <3>1. timer.value # 0
      BY <1>4
    <3> QED BY <1>4, <3>1 DEF Elapse
  <2>2. timer.interval \in {Interval, Slow}
    BY <1>1, <1>4 DEF Timers
  <2>3. /\ timer' \in Timers /\ timer'.interval = timer.interval
        /\ Progress(timer') = 0 /\ Worth(timer') = 0
    BY <2>1, <2>2, TimerFacts
  <2>4. Pace' = 0
    BY <2>3 DEF Pace, Progress, Worth
  <2>5. Coming' = 2 * Interval
    BY <1>7, <2>1, <2>4 DEF Coming
  <2>6. Worth(timer) = Interval - 1
    BY <1>4, <1>7 DEF Worth
  <2>7. Coming >= 2 * Pace
    BY <1>7 DEF Coming
  <2> QED BY <1>7, <2>3, <2>5, <2>6, <2>7
<1>5. CASE timer.value \notin {0, 1}
  <2>1. timer' = [timer EXCEPT !.value = timer.value - 1] /\ (pending' <=> pending)
    BY <1>5, <1>1 DEF Elapse
  <2>2. timer' = [interval |-> timer.interval, value |-> timer.value - 1]
    BY <1>2, <2>1
  <2>3. timer' \in Timers /\ timer'.interval = timer.interval
    BY <1>1, <1>5, <2>2, TimerFacts DEF Timers
  <2>4. Progress(timer') = Progress(timer) + 1
    BY <1>1, <2>2, TimerFacts DEF Progress
  <2>5. Worth(timer') <= Worth(timer) + 1 /\ Worth(timer') \in Nat
    <3>1. timer'.value = timer.value - 1 /\ timer.value >= 2
      BY <1>1, <1>5, <2>2
    <3>2. Worth(timer') \in Nat
      BY <2>3, TimerFacts
    <3> QED BY <1>1, <1>7, <3>1, <3>2 DEF Worth
  <2>6. Pace' <= Pace + 1 /\ Pace' \in Nat
    <3>1. CASE \E t \in Thread : Timed(t)
      <4>1. Pace' = Progress(timer') /\ Pace = Progress(timer)
        BY <1>6, <3>1 DEF Pace, Progress
      <4> QED BY <1>7, <2>4, <4>1
    <3>2. CASE ~ \E t \in Thread : Timed(t)
      <4>1. Pace' = Worth(timer') /\ Pace = Worth(timer)
        BY <1>6, <3>2 DEF Pace, Worth
      <4> QED BY <1>7, <2>5, <4>1
    <3> QED BY <3>1, <3>2
  <2>7. Coming' <= Coming + 2
    <3>1. CASE pending
      BY <1>7, <2>1, <2>6, <3>1 DEF Coming
    <3>2. CASE ~ pending
      BY <1>7, <2>1, <2>6, <3>2 DEF Coming
    <3> QED BY <3>1, <3>2
  <2> QED BY <2>3, <2>7
<1> QED BY <1>3, <1>4, <1>5

(* Setting the timer to one of its values. *)
LEMMA Shaped ==
  ASSUME Types, Shape, timer' \in Timers, now' \in Int, calls' \in Int, ticks' \in Int,
         \A a \in Actor : \/ loc'[a].orig = loc[a].orig /\ loc'[a].dt = loc[a].dt
                          \/ loc'[a] = NoLocals
                          \/ loc'[a].orig \in Timers /\ loc'[a].dt \in Int
  PROVE  Shape'
<1>1. NoLocals.orig \in Timers /\ NoLocals.dt \in Int
  BY TimerFacts DEF NoLocals
<1> QED BY <1>1 DEF Shape

(* Every step keeps the timers what they can be, and the times numbers. *)
LEMMA NextShape == Types /\ Shape /\ [Next]_vars => Shape'
<1> SUFFICES ASSUME Types, Shape, [Next]_vars PROVE Shape'
  OBVIOUS
<1> USE Setters
<1>0. /\ timer \in Timers /\ Stopped \in Timers /\ Every(Slow) \in Timers
      /\ Every(Interval) \in Timers
      /\ now \in Int /\ now + 1 \in Int /\ calls \in Int /\ calls + 1 \in Int
      /\ ticks \in Int /\ ticks + 1 \in Int
      /\ \A a \in Actor : loc[a].orig \in Timers /\ loc[a].dt \in Int
  BY TimerFacts DEF Shape
<1>1. CASE Elapse
  <2>1. timer' \in Timers
    BY <1>1, ElapseTimer
  <2> QED BY <1>0, <1>1, <2>1, Shaped DEF Elapse
<1>2. ASSUME NEW a \in Actor, Signal(a) PROVE Shape'
  BY <1>0, <1>2, Shaped DEF Signal, history
<1>3. ASSUME NEW t \in Thread, SampleLock(t) \/ SampleRecord(t) PROVE Shape'
  BY <1>0, <1>3, Shaped DEF SampleLock, SampleRecord, history
<1>4. ASSUME NEW t \in Thread, Enter(t) PROVE Shape'
  <2>1. loc'[t].orig = Stopped /\ loc'[t].dt = timer.interval - timer.value
        /\ \A a \in Actor \ {t} : loc'[a] = loc[a]
    BY <1>4 DEF Types, Enter, NoLocals
  <2>2. timer.interval - timer.value \in Int
    BY <1>0, TimerFacts
  <2>3. \A a \in Actor : \/ loc'[a].orig = loc[a].orig /\ loc'[a].dt = loc[a].dt
                         \/ loc'[a].orig \in Timers /\ loc'[a].dt \in Int
    BY <1>0, <2>1, <2>2
  <2> QED BY <1>0, <1>4, <2>3, Shaped DEF Enter
<1>16. ASSUME NEW t \in Thread, SlowDown(t) PROVE Shape'
  <2>1. timer' \in Timers
    BY <1>0, <1>16 DEF SlowDown, SetTimer
  <2>2. loc'[t].orig = timer /\ loc'[t].dt = loc[t].dt
        /\ \A a \in Actor \ {t} : loc'[a] = loc[a]
    BY <1>16 DEF Types, SlowDown, Locals
  <2>3. \A a \in Actor : \/ loc'[a].orig = loc[a].orig /\ loc'[a].dt = loc[a].dt
                         \/ loc'[a].orig \in Timers /\ loc'[a].dt \in Int
    BY <1>0, <2>2
  <2> QED BY <1>0, <1>16, <2>1, <2>3, Shaped DEF SlowDown, history
<1>17. ASSUME NEW t \in Thread, ReadSlow(t) \/ Return(t) PROVE Shape'
  <2>1. loc'[t].orig = loc[t].orig /\ \A a \in Actor \ {t} : loc'[a] = loc[a]
    BY <1>17 DEF Types, ReadSlow, Return, Locals
  <2>2. loc'[t].dt \in Int
    <3>1. loc[t].dt \in Int /\ timer.value \in Int
      BY <1>0, TimerFacts
    <3>2. CASE ReadSlow(t)
      <4>1. loc'[t].dt = loc[t].dt + timer.value
        BY <3>2 DEF Types, ReadSlow, Locals
      <4> QED BY <3>1, <4>1
    <3>3. CASE Return(t)
      <4>1. loc'[t].dt = loc[t].dt - timer.value
        BY <3>3 DEF Types, Return, Locals
      <4> QED BY <3>1, <4>1
    <3> QED BY <1>17, <3>2, <3>3
  <2>3. \A a \in Actor : \/ loc'[a].orig = loc[a].orig /\ loc'[a].dt = loc[a].dt
                         \/ loc'[a].orig \in Timers /\ loc'[a].dt \in Int
    BY <1>0, <2>1, <2>2
  <2> QED BY <1>0, <1>17, <2>3, Shaped DEF ReadSlow, Return, history
<1>5. ASSUME NEW t \in Thread, Fail(t) PROVE Shape'
  <2>1. \A a \in Actor : loc'[a] = loc[a] \/ loc'[a] = NoLocals
    BY <1>5 DEF Types, Fail
  <2> QED BY <1>0, <1>5, <2>1, Shaped DEF Fail, history
<1>6. ASSUME NEW t \in Thread, Born(t) PROVE Shape'
  <2>1. \A a \in Actor : \/ loc'[a].orig = loc[a].orig /\ loc'[a].dt = loc[a].dt
                         \/ loc'[a] = NoLocals
    BY <1>6 DEF Types, Born, Locals
  <2> QED BY <1>0, <1>6, <2>1, Shaped DEF Born, history
<1>7. ASSUME NEW t \in Thread, Resume(t) PROVE Shape'
  <2>1. timer' \in Timers
    BY <1>0, <1>7 DEF Resume, PutBack
  <2> QED BY <1>0, <1>7, <2>1, Shaped DEF Resume, history
<1>8. ASSUME NEW t \in Thread, Charge(t) PROVE Shape'
  <2>1. \A a \in Actor : loc'[a] = loc[a] \/ loc'[a] = NoLocals
    BY <1>8 DEF Types, Charge
  <2>2. timer.interval = 0 \/ Nearest(loc[t].dt, timer.interval) \in Int
    <3> SUFFICES ASSUME timer.interval # 0 PROVE Nearest(loc[t].dt, timer.interval) \in Int
      OBVIOUS
    <3>1. timer.interval \in Nat \ {0} /\ Interval <= timer.interval
      BY <1>0, TimerFacts
    <3>2. loc[t].dt \in Int
      BY <1>0
    <3>3. CASE loc[t].dt >= 0
      <4>1. loc[t].dt \in Nat
        BY <3>2, <3>3
      <4>2. Nearest(loc[t].dt, timer.interval) \in Nat
        BY <3>1, <4>1, NearestBound
      <4> QED BY <4>2
    <3>4. CASE loc[t].dt < 0
      BY <3>1, <3>2, <3>4, NearestLow
    <3> QED BY <3>2, <3>3, <3>4
  <2>3. ticks' \in Int
    <3>1. timer.interval > 0 => Nearest(loc[t].dt, timer.interval) \in Int
      BY <2>2
    <3>2. ticks' = ticks \/ ticks' = ticks + 0
          \/ (timer.interval > 0 /\ ticks' = ticks + Nearest(loc[t].dt, timer.interval))
      BY <1>8 DEF Charge
    <3> QED BY <1>0, <3>1, <3>2
  <2> QED BY <1>0, <1>8, <2>1, <2>3, Shaped DEF Charge
<1>9. ASSUME NEW t \in Thread,
             ResetBegin(t) \/ ResetEnd(t) \/ Insert(t) \/ FreeLock(t) \/ Create(t) \/ Merge(t)
      PROVE  Shape'
  <2>1. \A a \in Actor : loc'[a].orig = loc[a].orig /\ loc'[a].dt = loc[a].dt
    <3>1. CASE ResetBegin(t)
      BY <3>1 DEF Types, ResetBegin, Locals
    <3>2. CASE Insert(t)
      BY <3>2 DEF Types, Insert, Locals
    <3> QED BY <1>9, <3>1, <3>2 DEF ResetEnd, FreeLock, Create, Merge
  <2> QED BY <1>0, <1>9, <2>1, Shaped
          DEF ResetBegin, ResetEnd, Insert, FreeLock, Create, Merge, history
<1>10. ASSUME NEW t \in Thread, NEW b \in Buffers, ResetBuffer(t, b) PROVE Shape'
  <2>1. \A a \in Actor : loc'[a].orig = loc[a].orig /\ loc'[a].dt = loc[a].dt
    BY <1>10 DEF Types, ResetBuffer, Locals
  <2> QED BY <1>0, <1>10, <2>1, Shaped DEF ResetBuffer, history
<1>11. ASSUME NEW t \in Thread, ThreadInit(t) \/ Leave(t) PROVE Shape'
  <2>1. \A a \in Actor : loc'[a] = loc[a] \/ loc'[a] = NoLocals
    BY <1>11 DEF Types, ThreadInit, Leave
  <2> QED BY <1>0, <1>11, <2>1, Shaped DEF ThreadInit, Leave, SetTimer, history
<1>12. CASE DumpBegin
  <2>1. loc'[Dumper].orig = timer /\ loc'[Dumper].dt = loc[Dumper].dt
        /\ \A a \in Actor \ {Dumper} : loc'[a] = loc[a]
    BY <1>12 DEF Types, DumpBegin, Locals
  <2>2. \A a \in Actor : \/ loc'[a].orig = loc[a].orig /\ loc'[a].dt = loc[a].dt
                         \/ loc'[a].orig \in Timers /\ loc'[a].dt \in Int
    BY <1>0, <2>1
  <2> QED BY <1>0, <1>12, <2>2, Shaped DEF DumpBegin, SetTimer
<1>13. ASSUME NEW b \in Buffers, DumpLock \/ DumpBuffer(b) \/ DumpRead(b) PROVE Shape'
  <2>1. \A a \in Actor : loc'[a].orig = loc[a].orig /\ loc'[a].dt = loc[a].dt
    <3>1. CASE DumpLock
      BY <3>1 DEF Types, DumpLock, Locals
    <3>2. CASE DumpBuffer(b)
      BY <3>2 DEF Types, DumpBuffer, Locals
    <3> QED BY <1>13, <3>1, <3>2 DEF DumpRead
  <2> QED BY <1>0, <1>13, <2>1, Shaped DEF DumpLock, DumpBuffer, DumpRead, history
<1>14. CASE DumpEnd
  <2>1. \A a \in Actor : loc'[a] = loc[a] \/ loc'[a] = NoLocals
    BY <1>14 DEF Types, DumpEnd
  <2> QED BY <1>0, <1>14, <2>1, Shaped DEF DumpEnd, history
<1>15. CASE UNCHANGED vars
  BY <1>0, <1>15, Shaped DEF vars, history
<1> QED
  BY <1>1, <1>2, <1>3, <1>4, <1>5, <1>6, <1>7, <1>8, <1>9, <1>10, <1>11, <1>12,
     <1>13, <1>14, <1>15, <1>16, <1>17 DEF Next, Proceed

(* Every step keeps the timer slow for those who count on it, or they know. *)
LEMMA NextSlowed == Types /\ Slowed /\ [Next]_vars => Slowed'
<1> SUFFICES ASSUME Types, Slowed, [Next]_vars PROVE Slowed'
  OBVIOUS
<1> USE Setters
<1>0. ASSUME NEW a \in Actor,
             \A t \in Thread \ {a} : /\ InSlow(t)' => InSlow(t)
                                     /\ loc'[t].call = loc[t].call
                                     /\ t \in stale => t \in stale',
             ~ InSlow(a)' \/ a \notin Thread,
             timer'.interval = timer.interval
               \/ \A t \in Thread \ {a} : Saving(t) => t \in stale'
      PROVE  Slowed'
  BY <1>0 DEF Slowed, Saving, InSlow
<1>1. CASE Elapse
  <2>1. timer'.interval = timer.interval
    BY <1>1, ElapseTypes
  <2> QED BY <1>1, <2>1 DEF Elapse, Slowed, InSlow
<1>2. ASSUME NEW a \in Actor, Signal(a) PROVE Slowed'
  BY <1>2 DEF Types, Signal, Slowed, InSlow, Go
<1>3. ASSUME NEW t \in Thread, SampleLock(t) \/ SampleRecord(t) PROVE Slowed'
  BY <1>3 DEF Types, SampleLock, SampleRecord, Slowed, InSlow, Go
<1>4. ASSUME NEW t \in Thread, SlowDown(t) PROVE Slowed'
  <2>1. timer'.interval = Slow
    BY <1>4, TimerFacts DEF SlowDown, SetTimer
  <2> QED BY <2>1 DEF Slowed
<1>14. ASSUME NEW t \in Thread, ReadSlow(t) PROVE Slowed'
  <2>1. \A u \in Thread : loc'[u].call = loc[u].call /\ (InSlow(u)' => InSlow(u))
    BY <1>14 DEF Types, ReadSlow, Locals, InSlow, Go
  <2> QED BY <1>14, <2>1 DEF ReadSlow, Slowed
<1>15. ASSUME NEW t \in Thread, Enter(t) \/ Return(t) PROVE Slowed'
  <2>1. ~ InSlow(t)' /\ timer' = timer /\ stale' = stale
    BY <1>15 DEF Types, Enter, Return, InSlow, Go
  <2>2. \A u \in Thread \ {t} : loc'[u] = loc[u] /\ pc'[u] = pc[u]
    BY <1>15 DEF Types, Enter, Return, Go
  <2> QED BY <2>1, <2>2, <1>0 DEF InSlow
<1>5. ASSUME NEW t \in Thread, Fail(t) PROVE Slowed'
  BY <1>5, <1>0 DEF Types, Fail, InSlow, Go
<1>6. ASSUME NEW t \in Thread, Born(t) PROVE Slowed'
  <2>1. loc'[t].call = "child" /\ \A u \in Thread \ {t} : ~ InSlow(u)'
    BY <1>6 DEF Types, Born, Locals, InSlow
  <2> QED BY <2>1 DEF Slowed
<1>7. ASSUME NEW t \in Thread, Resume(t) PROVE Slowed'
  BY <1>7, <1>0 DEF Types, Resume, PutBack, InSlow, Go
<1>8. ASSUME NEW t \in Thread, Charge(t) PROVE Slowed'
  BY <1>8, <1>0 DEF Types, Charge, InSlow, Go
<1>9. ASSUME NEW t \in Thread,
             ResetBegin(t) \/ ResetEnd(t) \/ Insert(t) \/ FreeLock(t) \/ Create(t) \/ Merge(t)
      PROVE  Slowed'
  <2>1. \A u \in Thread \ {t} : pc'[u] = pc[u] /\ loc'[u] = loc[u]
    BY <1>9 DEF Types, ResetBegin, ResetEnd, Insert, FreeLock, Create, Merge, Go
  <2>2. ~ InSlow(t)' /\ timer' = timer /\ stale' = stale
    BY <1>9 DEF Types, ResetBegin, ResetEnd, Insert, FreeLock, Create, Merge, InSlow, Go
  <2> QED BY <2>1, <2>2, <1>0 DEF InSlow
<1>10. ASSUME NEW t \in Thread, NEW b \in Buffers, ResetBuffer(t, b) PROVE Slowed'
  BY <1>10, <1>0 DEF Types, ResetBuffer, InSlow
<1>11. ASSUME NEW t \in Thread, ThreadInit(t) \/ Leave(t) PROVE Slowed'
  BY <1>11, <1>0 DEF Types, ThreadInit, Leave, SetTimer, InSlow, Go
<1>12. ASSUME NEW b \in Buffers,
              DumpBegin \/ DumpLock \/ DumpBuffer(b) \/ DumpRead(b) \/ DumpEnd
       PROVE  Slowed'
  <2>1. \A t \in Thread : pc'[t] = pc[t] /\ loc'[t] = loc[t] /\ (t \in stale => t \in stale')
    BY <1>12 DEF Types, DumpBegin, DumpLock, DumpBuffer, DumpRead, DumpEnd, SetTimer, Go
  <2>2. timer'.interval = timer.interval \/ \A t \in Thread : Saving(t) => t \in stale'
    BY <1>12 DEF DumpBegin, DumpLock, DumpBuffer, DumpRead, DumpEnd, SetTimer
  <2> QED BY <2>1, <2>2, <1>0 DEF InSlow
<1>13. CASE UNCHANGED vars
  BY <1>13 DEF vars, Slowed, InSlow
<1> QED
  BY <1>1, <1>2, <1>3, <1>4, <1>5, <1>6, <1>7, <1>8, <1>9, <1>10, <1>11, <1>12,
     <1>13, <1>14, <1>15 DEF Next, Proceed

(* Every step keeps that only the last is not overtaken. *)
LEMMA NextSole == Types /\ Sole /\ [Next]_vars => Sole'
<1> SUFFICES ASSUME Types, Sole, [Next]_vars PROVE Sole'
  OBVIOUS
<1> USE Setters
<1>0. ASSUME \A a \in Actor : /\ Saving(a)' => Saving(a)
                              /\ Saving(a)' /\ a \in stale => a \in stale'
      PROVE  Sole'
  BY <1>0 DEF Sole
<1>1. ASSUME NEW t \in Actor, \A a \in Actor \ {t} : Saving(a)' => a \in stale'
      PROVE  Sole'
  BY <1>1 DEF Sole
<1>2. ASSUME Elapse \/ UNCHANGED vars PROVE Sole'
  BY <1>2, <1>0 DEF Elapse, vars, Saving
<1>3. ASSUME NEW a \in Actor, Signal(a) PROVE Sole'
  BY <1>3, <1>0 DEF Types, Signal, Saving, Go
<1>4. ASSUME NEW t \in Thread,
             SlowDown(t) \/ Resume(t) \/ ThreadInit(t) \/ Leave(t) PROVE Sole'
  <2>1. \A a \in Actor \ {t} : Saving(a)' => a \in stale'
    BY <1>4 DEF Types, SlowDown, Resume, ThreadInit, Leave, SetTimer, PutBack, Saving, Go
  <2> QED BY <2>1, <1>1
<1>5. ASSUME NEW t \in Thread,
             Enter(t) \/ ReadSlow(t) \/ Fail(t) \/ Return(t) \/ Charge(t) PROVE Sole'
  <2>1. \A a \in Actor : /\ Saving(a)' => Saving(a)
                         /\ Saving(a)' /\ a \in stale => a \in stale'
    BY <1>5 DEF Types, Enter, ReadSlow, Fail, Return, Charge, Saving, Go
  <2> QED BY <2>1, <1>0
<1>6. ASSUME NEW t \in Thread, Born(t) PROVE Sole'
  <2>1. \A a \in Actor \ {t} : ~ Saving(a)'
    BY <1>6 DEF Types, Born, Saving
  <2> QED BY <2>1, <1>1
<1>7. ASSUME NEW t \in Thread,
             SampleLock(t) \/ SampleRecord(t) \/ ResetBegin(t) \/ ResetEnd(t) \/ Insert(t)
               \/ FreeLock(t) \/ Create(t) \/ Merge(t)
      PROVE  Sole'
  <2>1. \A a \in Actor : Saving(a)' => Saving(a)
    BY <1>7 DEF Types, SampleLock, SampleRecord, ResetBegin, ResetEnd, Insert, FreeLock,
                Create, Merge, Saving, Go
  <2>2. stale' = stale
    BY <1>7 DEF SampleLock, SampleRecord, ResetBegin, ResetEnd, Insert, FreeLock, Create, Merge
  <2> QED BY <2>1, <2>2, <1>0
<1>8. ASSUME NEW t \in Thread, NEW b \in Buffers, ResetBuffer(t, b) PROVE Sole'
  BY <1>8, <1>0 DEF Types, ResetBuffer, Saving
<1>9. CASE DumpBegin \/ DumpEnd
  <2>1. \A a \in Actor \ {Dumper} : Saving(a)' => a \in stale'
    BY <1>9 DEF Types, DumpBegin, DumpEnd, SetTimer, Saving, Go, Actor
  <2> QED BY <2>1, <1>1
<1>10. ASSUME NEW b \in Buffers, DumpLock \/ DumpBuffer(b) \/ DumpRead(b) PROVE Sole'
  <2>1. \A a \in Actor : Saving(a)' => Saving(a)
    BY <1>10 DEF Types, DumpLock, DumpBuffer, DumpRead, Saving, Go
  <2>2. stale' = stale
    BY <1>10 DEF DumpLock, DumpBuffer, DumpRead
  <2> QED BY <2>1, <2>2, <1>0
<1> QED
  BY <1>2, <1>3, <1>4, <1>5, <1>6, <1>7, <1>8, <1>9, <1>10 DEF Next, Proceed

(* Every step keeps the bounds of dt: a timer has at most the slow interval left. *)
LEMMA NextBegun == Types /\ Shape /\ Begun /\ [Next]_vars => Begun'
<1> SUFFICES ASSUME Types, Shape, Begun, [Next]_vars PROVE Begun'
  OBVIOUS
<1> USE Setters
<1>0. ASSUME NEW t \in Actor, \A u \in Thread \ {t} : loc'[u] = loc[u] /\ pc'[u] = pc[u],
             pc'[t] \notin {"slow", "read slow", "chain"} \/ t \notin Thread
      PROVE  Begun'
  BY <1>0 DEF Begun
<1>1. CASE Elapse \/ UNCHANGED vars
  BY <1>1 DEF Elapse, vars, Begun
<1>2. ASSUME NEW a \in Actor, Signal(a) PROVE Begun'
  BY <1>2 DEF Types, Signal, Begun, Go
<1>3. ASSUME NEW t \in Thread, Enter(t) PROVE Begun'
  <2>1. /\ pc'[t] = "slow" /\ loc'[t].seen = timer.interval
        /\ loc'[t].dt = timer.interval - timer.value
        /\ \A u \in Thread \ {t} : loc'[u] = loc[u] /\ pc'[u] = pc[u]
    BY <1>3 DEF Types, Enter, Go, NoLocals
  <2>2. loc'[t].seen = Interval => loc'[t].dt <= Interval - 1
    <3>1. timer.interval = Interval => timer.interval - timer.value <= Interval - 1
      BY TimerFacts DEF Shape
    <3> QED BY <2>1, <3>1
  <2> QED BY <2>1, <2>2 DEF Begun
<1>4. ASSUME NEW t \in Thread, SlowDown(t) PROVE Begun'
  <2>1. /\ pc[t] = "slow" /\ pc'[t] = "read slow" /\ loc'[t].seen = loc[t].seen
        /\ loc'[t].dt = loc[t].dt
        /\ \A u \in Thread \ {t} : loc'[u] = loc[u] /\ pc'[u] = pc[u]
    BY <1>4 DEF Types, SlowDown, Go, Locals
  <2> QED BY <2>1 DEF Begun
<1>5. ASSUME NEW t \in Thread, ReadSlow(t) PROVE Begun'
  <2>1. /\ pc[t] = "read slow" /\ pc'[t] = "chain" /\ loc'[t].seen = loc[t].seen
        /\ loc'[t].dt = loc[t].dt + timer.value
        /\ \A u \in Thread \ {t} : loc'[u] = loc[u] /\ pc'[u] = pc[u]
    BY <1>5 DEF Types, ReadSlow, Go, Locals
  <2>2. loc'[t].seen = Interval => loc'[t].dt <= Interval - 1 + Slow
    <3>1. timer.value \in Int /\ timer.value <= Slow /\ loc[t].dt \in Int
          /\ Interval \in Int /\ Slow \in Int
      BY TimerFacts DEF Shape
    <3>2. loc[t].seen = Interval => loc[t].dt <= Interval - 1
      BY <2>1 DEF Begun
    <3>3. loc[t].dt <= Interval - 1 => loc[t].dt + timer.value <= Interval - 1 + Slow
      BY <3>1
    <3> QED BY <2>1, <3>2, <3>3
  <2> QED BY <2>1, <2>2 DEF Begun
<1>6. ASSUME NEW t \in Thread, Born(t) PROVE Begun'
  <2>1. /\ pc[t] = "chain" /\ pc'[t] = "chain" /\ loc'[t].seen = loc[t].seen
        /\ loc'[t].dt = loc[t].dt
        /\ \A u \in Thread \ {t} : pc'[u] \in {"none", "gone"}
    BY <1>6 DEF Types, Born, Locals
  <2> QED BY <2>1 DEF Begun
<1>7. ASSUME NEW t \in Thread,
             SampleLock(t) \/ SampleRecord(t) \/ Fail(t) \/ Return(t) \/ Resume(t) \/ Charge(t)
      PROVE  Begun'
  <2>1. /\ pc'[t] \notin {"slow", "read slow", "chain"}
        /\ \A u \in Thread \ {t} : loc'[u] = loc[u] /\ pc'[u] = pc[u]
    BY <1>7 DEF Types, SampleLock, SampleRecord, Fail, Return, Resume, Charge, Go
  <2> QED BY <2>1, <1>0
<1>8. ASSUME NEW t \in Thread,
             ResetBegin(t) \/ ResetEnd(t) \/ Insert(t) \/ ThreadInit(t) \/ Leave(t)
               \/ FreeLock(t) \/ Create(t) \/ Merge(t)
      PROVE  Begun'
  <2>1. /\ pc'[t] \notin {"slow", "read slow", "chain"}
        /\ \A u \in Thread \ {t} : loc'[u] = loc[u] /\ pc'[u] = pc[u]
    BY <1>8 DEF Types, ResetBegin, ResetEnd, Insert, ThreadInit, Leave, FreeLock, Create,
                Merge, Go
  <2> QED BY <2>1, <1>0
<1>9. ASSUME NEW t \in Thread, NEW b \in Buffers, ResetBuffer(t, b) PROVE Begun'
  <2>1. /\ pc'[t] = "reset walk"
        /\ \A u \in Thread \ {t} : loc'[u] = loc[u] /\ pc'[u] = pc[u]
    BY <1>9 DEF Types, ResetBuffer
  <2> QED BY <2>1, <1>0
<1>10. ASSUME NEW b \in Buffers,
              DumpBegin \/ DumpLock \/ DumpBuffer(b) \/ DumpRead(b) \/ DumpEnd
       PROVE  Begun'
  <2>1. \A u \in Thread : loc'[u] = loc[u] /\ pc'[u] = pc[u]
    BY <1>10 DEF Types, DumpBegin, DumpLock, DumpBuffer, DumpRead, DumpEnd, Go
  <2> QED BY <2>1 DEF Begun
<1> QED
  BY <1>1, <1>2, <1>3, <1>4, <1>5, <1>6, <1>7, <1>8, <1>9, <1>10 DEF Next, Proceed

(* What an actor is due where it is. *)
Account(a) ==
  /\ Due(a) \in Nat /\ Owed(a) \in Nat /\ Worth(loc[a].orig) \in Nat
  /\ pc[a] \in {"sample", "record"} => Due(a) = 2 * Interval
  /\ pc[a] \notin {"sample", "record", "slow", "charge"} /\ ~ Saving(a) => Due(a) = 0
  /\ pc[a] = "slow" => Due(a) = Allowance
  /\ pc[a] = "charge" => Due(a) = Owed(a)
  /\ pc[a] \in {"read slow", "chain", "put back"} =>
       Due(a) = 2 * Worth(loc[a].orig) + Owed(a)
  /\ Saving(a) /\ pc[a] \notin {"read slow", "chain", "put back"} =>
       Due(a) = 2 * Worth(loc[a].orig)

(* That is what it is due. *)
LEMMA Accounts == Shape => \A a \in Actor : Account(a)
<1> SUFFICES ASSUME Shape, NEW a \in Actor PROVE Account(a)
  OBVIOUS
<1>1. /\ Sampled(a) \in Nat /\ Saved(a) \in Nat /\ Owed(a) \in Nat
      /\ Due(a) \in Nat /\ Due(a) = Sampled(a) + Saved(a) + Owed(a)
  BY DueTypes DEF Due
<1>2. Worth(loc[a].orig) \in Nat /\ Interval \in Nat
  BY TimerFacts DEF Shape
<1>3. ASSUME pc[a] \in {"sample", "record"} PROVE Due(a) = 2 * Interval
  <2>1. Sampled(a) = 2 * Interval /\ Saved(a) = 0 /\ Owed(a) = 0
    BY <1>3 DEF Sampled, Saved, Saving, Owed, Timed, Reckoned, InSlow
  <2> QED BY <1>1, <1>2, <2>1
<1>4. ASSUME pc[a] \notin {"sample", "record", "slow", "charge"}, ~ Saving(a) PROVE Due(a) = 0
  <2>1. Sampled(a) = 0 /\ Saved(a) = 0 /\ Owed(a) = 0
    BY <1>4 DEF Sampled, Saved, Saving, Owed, Timed, Reckoned, InSlow
  <2> QED BY <1>1, <2>1
<1>5. ASSUME pc[a] = "slow" PROVE Due(a) = Allowance
  <2>1. Sampled(a) = 0 /\ Saved(a) = 0 /\ Owed(a) = Allowance
    BY <1>5 DEF Sampled, Saved, Saving, Owed
  <2> QED BY <1>1, <2>1
<1>6. ASSUME pc[a] = "charge" PROVE Due(a) = Owed(a)
  <2>1. Sampled(a) = 0 /\ Saved(a) = 0
    BY <1>6 DEF Sampled, Saved, Saving
  <2> QED BY <1>1, <2>1
<1>7. ASSUME pc[a] \in {"read slow", "chain", "put back"}
      PROVE  Due(a) = 2 * Worth(loc[a].orig) + Owed(a)
  <2>1. Sampled(a) = 0 /\ Saved(a) = 2 * Worth(loc[a].orig)
    BY <1>7 DEF Sampled, Saved, Saving
  <2> QED BY <1>1, <2>1
<1>8. ASSUME Saving(a), pc[a] \notin {"read slow", "chain", "put back"}
      PROVE  Due(a) = 2 * Worth(loc[a].orig)
  <2>1. Sampled(a) = 0 /\ Saved(a) = 2 * Worth(loc[a].orig) /\ Owed(a) = 0
    BY <1>8 DEF Sampled, Saved, Saving, Owed, Timed, Reckoned, InSlow
  <2> QED BY <1>1, <1>2, <2>1
<1> QED BY <1>1, <1>2, <1>3, <1>4, <1>5, <1>6, <1>7, <1>8 DEF Account

(* In the next state as well. *)
LEMMA AccountsNext == Shape' => \A a \in Actor : Account(a)'
<1>1. Shape' => (\A a \in Actor : Account(a))'
  BY Accounts, PTL
<1> QED BY <1>1

(* Who is in no call, sample or dump is due nothing. *)
LEMMA Settled ==
  ASSUME Shape, Shape', NEW a \in Actor,
         (pc'[a] \notin {"sample", "record", "slow", "charge"} /\ ~ Saving(a)')
           \/ (pc'[a] = "charge" /\ Owed(a)' = 0)
  PROVE  Due(a)' = 0 /\ Due(a)' <= Due(a) /\ Due(a) \in Nat
<1>1. Account(a) /\ Account(a)'
  BY Accounts, AccountsNext
<1>2. Due(a)' = 0
  BY <1>1 DEF Account
<1>3. Due(a) \in Nat
  BY <1>1 DEF Account
<1> QED BY <1>2, <1>3

(* All others than t go on as before, and are due no more. *)
LEMMA Others ==
  ASSUME Shape, NEW t \in Actor,
         \A a \in Actor \ {t} : /\ pc'[a] = pc[a] /\ loc'[a] = loc[a]
                                /\ a \in stale => a \in stale'
  PROVE  \A a \in Actor \ {t} : Due(a)' <= Due(a)
  BY SameDue

(* So nobody else comes to measure a call. *)
LEMMA NoMoreTimed ==
  ASSUME NEW t \in Actor,
         \A a \in Actor \ {t} : /\ pc'[a] = pc[a] /\ loc'[a] = loc[a]
                                /\ a \in stale => a \in stale',
         Timed(t)' => Timed(t)
  PROVE  \A a \in Actor : Timed(a)' => Timed(a)
  BY DEF Timed, InSlow, Honest, Overlaps

(* What is on the way does not grow with the timer and the signal as they were. *)
LEMMA SamePace ==
  ASSUME Shape, timer' = timer, pending' = pending,
         \A a \in Actor : Timed(a)' => Timed(a)
  PROVE  Pace' <= Pace /\ Coming' <= Coming /\ Pace' \in Nat /\ Coming' \in Nat
<1>1. /\ Worth(timer) \in Nat /\ Worth(timer) <= Progress(timer) /\ Progress(timer) \in Nat
      /\ Interval \in Nat
  BY ComingTypes, TimerFacts DEF Shape
<1>2. Progress(timer)' = Progress(timer) /\ Worth(timer)' = Worth(timer)
  BY DEF Progress, Worth
<1>3. (\E t \in Thread : Timed(t))' => \E t \in Thread : Timed(t)
  BY Setters
<1>4. Pace' <= Pace /\ Pace' \in Nat /\ Pace \in Nat
  <2>1. Pace' \in {Pace, Worth(timer)} /\ Pace \in {Progress(timer), Worth(timer)}
    BY <1>2, <1>3 DEF Pace
  <2> QED BY <1>1, <2>1
<1>5. PICK i \in Nat : Coming = i + 2 * Pace /\ Coming' = i + 2 * Pace'
  <2>1. 2 * Interval \in Nat
    BY <1>1
  <2>2. CASE pending
    BY <2>1, <2>2 DEF Coming
  <2>3. CASE ~ pending
    BY <2>3 DEF Coming
  <2> QED BY <2>2, <2>3
<1>6. \A x, y \in Nat : x <= y => i + 2 * x <= i + 2 * y /\ i + 2 * x \in Nat
  OBVIOUS
<1> QED BY <1>4, <1>5, <1>6

(* A step of t that leaves the timer, the signal and the counts alone. *)
LEMMA Calm ==
  ASSUME Shape, Shape', Paid, NEW t \in Actor,
         timer' = timer, pending' = pending, ticks' = ticks, now' = now, calls' = calls,
         \A a \in Actor \ {t} : /\ pc'[a] = pc[a] /\ loc'[a] = loc[a]
                                /\ a \in stale => a \in stale',
         Timed(t)' => Timed(t), Due(t)' <= Due(t)
  PROVE  Paid'
<1>5. Coming' <= Coming /\ Coming' \in Int
  BY NoMoreTimed, SamePace
<1>1. Budget' = Budget /\ 2 * Interval * ticks' = 2 * Interval * ticks
  BY DEF Budget
<1>2. Coming \in Int /\ Budget \in Int /\ 2 * Interval * ticks \in Int /\ Due(t) \in Int
  BY ComingTypes, DueTypes
<1>3. Due(t)' <= Due(t) + 0
  BY <1>2
<1>4. 2 * Interval * ticks' + Coming' + 0 - Budget' <= 2 * Interval * ticks + Coming - Budget
  BY <1>1, <1>2, <1>5
<1> QED BY <1>3, <1>4, Others, Pays

(* A step of t that sets the timer, for which it is due the next tick that was:
   nobody measures a call with the timer any more, or it begins anew. *)
LEMMA Settle ==
  ASSUME Shape, Shape', Paid, NEW t \in Actor, NEW d \in Int,
         timer' \in Timers, pending' => pending, ticks' = ticks, now' = now, calls' = calls,
         \A a \in Actor \ {t} : Due(a)' <= Due(a),
         (\A a \in Thread : ~ Timed(a)') \/ Progress(timer') = 0,
         Due(t)' <= Due(t) + d, d <= 2 * Worth(timer) - 2 * Worth(timer')
  PROVE  Paid'
<1>1. Budget' = Budget /\ 2 * Interval * ticks' = 2 * Interval * ticks
  BY DEF Budget
<1>2. /\ Budget \in Int /\ 2 * Interval * ticks \in Int
      /\ Worth(timer) \in Nat /\ Pace \in Nat /\ Worth(timer) <= Pace
  BY ComingTypes
<1>3. Worth(timer') \in Nat /\ Worth(timer') <= Progress(timer') /\ Interval \in Nat
  BY TimerFacts
<1>6. Pace' = Worth(timer')
  <2>1. Pace' \in {Progress(timer'), Worth(timer')}
        /\ ((\A a \in Thread : ~ Timed(a)') => Pace' = Worth(timer'))
    BY DEF Pace, Progress, Worth
  <2> QED BY <1>3, <2>1
<1>7. Coming \in Int /\ Coming = (IF pending THEN 2 * Interval ELSE 0) + 2 * Pace
  BY ComingTypes DEF Coming
<1>8. Coming' = (IF pending' THEN 2 * Interval ELSE 0) + 2 * Pace'
  BY DEF Coming
<1>4. Coming' <= Coming - 2 * Worth(timer) + 2 * Worth(timer')
      /\ Coming \in Int /\ Coming' \in Int
  <2>1. CASE pending'
    <3>1. Coming' = 2 * Interval + 2 * Worth(timer') /\ Coming = 2 * Interval + 2 * Pace
      BY <1>6, <1>7, <1>8, <2>1
    <3> QED BY <1>2, <1>3, <1>7, <3>1
  <2>2. CASE ~ pending'
    <3>1. Coming' = 0 + 2 * Worth(timer')
      BY <1>6, <1>8, <2>2
    <3>2. Coming >= 2 * Pace
      BY <1>2, <1>3, <1>7
    <3> QED BY <1>2, <1>3, <1>7, <3>1, <3>2
  <2> QED BY <2>1, <2>2
<1>5. 2 * Interval * ticks' + Coming' + d - Budget' <= 2 * Interval * ticks + Coming - Budget
  BY <1>1, <1>2, <1>3, <1>4
<1> QED BY <1>5, Pays

(* Time that passes pays for what comes of it. *)
LEMMA ElapsePays ==
  ASSUME Types, Shape, Shape', Paid, Elapse
  PROVE  Paid'
<1> USE Setters
<1>1. Coming' <= Coming + 2
  BY ElapseTimer
<1>2. now' = now + 1 /\ calls' = calls /\ ticks' = ticks /\ now \in Int /\ calls \in Int
  BY DEF Elapse, Shape
<1>3. Coming \in Int /\ Budget \in Int /\ 2 * Interval * ticks \in Int /\ Due(Main) \in Int
  BY ComingTypes, DueTypes
<1>4. Budget' = Budget + 2
  <2>1. (4 * (Interval - 1) + Interval) * calls \in Int
    BY <1>2, TimerFacts
  <2> QED BY <1>2, <2>1 DEF Budget
<1>5. \A a \in Actor : pc'[a] = pc[a] /\ loc'[a] = loc[a] /\ (a \in stale => a \in stale')
  BY DEF Elapse
<1>6. \A a \in Actor : Due(a)' <= Due(a)
  BY <1>5, SameDue
<1>7. Due(Main)' <= Due(Main) + 0
  BY <1>3, <1>6
<1>8. Coming' \in Int
  <2>1. Shape' => (Coming \in Nat)'
    BY ComingTypes, PTL
  <2> QED BY <2>1
<1>9. 2 * Interval * ticks' + Coming' + 0 - Budget' <= 2 * Interval * ticks + Coming - Budget
  BY <1>1, <1>2, <1>3, <1>4, <1>8
<1> QED BY <1>6, <1>7, <1>9, Pays

(* A signal becomes a sample, or is lost. *)
LEMMA SignalPays ==
  ASSUME Types, Shape, Shape', Paid, NEW a \in Actor, Signal(a)
  PROVE  Paid'
<1>1. Account(a) /\ Account(a)' /\ Interval \in Nat
  BY Accounts, AccountsNext, TimerFacts
<1>2. /\ timer' = timer /\ ticks' = ticks /\ now' = now /\ calls' = calls
      /\ pending /\ ~ pending'
      /\ \A b \in Actor \ {a} : pc'[b] = pc[b] /\ loc'[b] = loc[b]
      /\ loc'[a] = loc[a] /\ (a \in stale => a \in stale')
  BY DEF Types, Signal, history, Go
<1>3. Due(a)' <= Due(a) + 2 * Interval
  <2>1. CASE pc[a] \in {"running", "init"}
    <3>1. pc'[a] = "sample"
      BY <2>1 DEF Types, Signal, Go
    <3>2. Due(a)' = 2 * Interval /\ Due(a) \in Nat
      BY <1>1, <3>1 DEF Account
    <3> QED BY <1>1, <3>2
  <2>2. CASE pc[a] \notin {"running", "init"}
    <3>1. pc'[a] = pc[a]
      BY <2>2 DEF Signal
    <3>2. Due(a)' <= Due(a)
      BY <1>2, <3>1, SameDue
    <3>3. Due(a)' \in Nat /\ Due(a) \in Nat
      BY <1>1 DEF Account
    <3> QED BY <1>1, <3>2, <3>3
  <2> QED BY <2>1, <2>2
<1>4. \A b \in Actor \ {a} : Due(b)' <= Due(b)
  BY <1>2, Others DEF Signal
<1>9. Pace' <= Pace /\ Pace' \in Nat /\ Pace \in Nat
  <2>1. \A b \in Actor : Timed(b)' => Timed(b)
    BY <1>2 DEF Types, Signal, Go, Timed, InSlow, Honest, Overlaps
  <2>2. Worth(timer) \in Nat /\ Worth(timer) <= Progress(timer) /\ Progress(timer) \in Nat
    BY TimerFacts DEF Shape
  <2>3. Pace' \in {Pace, Worth(timer)} /\ Pace \in {Progress(timer), Worth(timer)}
    BY <1>2, <2>1, Setters DEF Pace, Progress, Worth
  <2> QED BY <2>2, <2>3
<1>5. Budget' = Budget /\ 2 * Interval * ticks' = 2 * Interval * ticks
  BY <1>2 DEF Budget
<1>6. /\ Coming \in Int /\ Budget \in Int /\ 2 * Interval * ticks \in Int
      /\ Coming' \in Int /\ 2 * Interval \in Int
  <2>1. Shape' => (Coming \in Nat)'
    BY ComingTypes, PTL
  <2> QED BY <1>1, <2>1, ComingTypes
<1>8. Coming' + 2 * Interval <= Coming
  <2>1. Coming = 2 * Interval + 2 * Pace
    BY <1>2 DEF Coming
  <2>2. Coming' = 0 + 2 * Pace'
    BY <1>2 DEF Coming
  <2>3. \A i, p, q \in Nat : q <= p => 0 + 2 * q + 2 * i <= 2 * i + 2 * p
    OBVIOUS
  <2> QED BY <1>1, <1>9, <2>1, <2>2, <2>3
<1>7. 2 * Interval * ticks' + Coming' + 2 * Interval - Budget' <=
        2 * Interval * ticks + Coming - Budget
  BY <1>5, <1>6, <1>8, EvenBalance
<1> QED BY <1>3, <1>4, <1>6, <1>7, Pays

(* A sample is a tick. *)
LEMMA SamplePays ==
  ASSUME Types, Shape, Shape', Paid, NEW t \in Thread, SampleRecord(t)
  PROVE  Paid'
<1> USE Setters
<1>1. Account(t) /\ Account(t)' /\ Interval \in Nat /\ ticks \in Int
  BY Accounts, AccountsNext, TimerFacts DEF Shape
<1>2. /\ pc[t] = "record" /\ pc'[t] \in {"init", "running"} /\ ticks' = ticks + 1
      /\ \A b \in Actor \ {t} : /\ pc'[b] = pc[b] /\ loc'[b] = loc[b]
                                /\ b \in stale => b \in stale'
  BY DEF Types, SampleRecord, Go
<1>3. Coming' <= Coming /\ Coming' \in Int /\ Budget' = Budget
  <2>1. ~ Timed(t)'
    BY <1>2 DEF Timed, InSlow
  <2>2. timer' = timer /\ pending' = pending /\ now' = now /\ calls' = calls
    BY DEF SampleRecord
  <2> QED BY <1>2, <2>1, <2>2, NoMoreTimed, SamePace DEF Budget
<1>4. Due(t)' <= Due(t) + (- (2 * Interval))
  <2>1. Due(t) = 2 * Interval
    BY <1>1, <1>2 DEF Account
  <2>2. Due(t)' = 0
    <3>1. ~ Saving(t)'
      BY <1>2 DEF Saving
    <3> QED BY <1>1, <1>2, <3>1 DEF Account
  <2> QED BY <1>1, <2>1, <2>2
<1>5. 2 * Interval * ticks' = 2 * Interval * ticks + 2 * Interval
  BY <1>1, <1>2
<1>6. Coming \in Int /\ Budget \in Int /\ 2 * Interval * ticks \in Int
  BY ComingTypes
<1>7. 2 * Interval * ticks' + Coming' + (- (2 * Interval)) - Budget' <=
        2 * Interval * ticks + Coming - Budget
  BY <1>1, <1>3, <1>5, <1>6
<1>8. - (2 * Interval) \in Int
  BY <1>1
<1> QED BY <1>2, <1>4, <1>7, <1>8, Others, Pays

(* A call is given what it is allowed. *)
LEMMA EnterPays ==
  ASSUME Types, Shape, Shape', Paid, NEW t \in Thread, Enter(t)
  PROVE  Paid'
<1> USE Setters
<1>1. Account(t) /\ Account(t)' /\ Interval \in Nat \ {0} /\ calls \in Int /\ now \in Int
  BY Accounts, AccountsNext, TimerFacts DEF Shape
<1>2. /\ pc[t] = "running" /\ pc'[t] = "slow"
      /\ calls' = calls + 1 /\ now' = now /\ ticks' = ticks /\ pending' = pending
      /\ timer' = timer
      /\ \A b \in Actor \ {t} : /\ pc'[b] = pc[b] /\ loc'[b] = loc[b]
                                /\ b \in stale => b \in stale'
  BY DEF Types, Enter, Go
<1>3. Allowance \in Int
  BY <1>1 DEF Allowance
<1>4. Due(t) = 0 /\ Due(t)' = Allowance
  <2>1. ~ Saving(t)
    BY <1>2 DEF Saving
  <2>2. Allowance' = Allowance
    BY DEF Allowance
  <2> QED BY <1>1, <1>2, <2>1, <2>2 DEF Account
<1>5. Due(t)' <= Due(t) + Allowance
  BY <1>3, <1>4
<1>6. Budget' = Budget + Allowance /\ Budget \in Int
  <2>1. \A k \in Int : k * (calls + 1) = k * calls + k /\ k * calls \in Int
    BY <1>1
  <2>2. Budget = 2 * now + Allowance * calls /\ Budget' = 2 * now' + Allowance * calls'
    BY DEF Budget, Allowance
  <2>3. Allowance * (calls + 1) = Allowance * calls + Allowance /\ Allowance * calls \in Int
    BY <1>3, <2>1
  <2>4. Budget' = 2 * now + Allowance * (calls + 1)
    BY <1>2, <2>2
  <2> HIDE DEF Allowance
  <2> QED BY <1>1, <1>3, <2>2, <2>3, <2>4
<1>7. Coming' <= Coming /\ Coming' \in Int
  <2>1. ~ Timed(t)'
    BY <1>2 DEF Timed, InSlow
  <2> QED BY <1>2, <2>1, NoMoreTimed, SamePace
<1>8. Coming \in Int /\ 2 * Interval * ticks \in Int /\ 2 * Interval * ticks' = 2 * Interval * ticks
  BY <1>2, ComingTypes
<1>9. 2 * Interval * ticks' + Coming' + Allowance - Budget' <=
        2 * Interval * ticks + Coming - Budget
  BY <1>3, <1>6, <1>7, <1>8
<1> QED BY <1>2, <1>3, <1>5, <1>9, Others, Pays

(* A call that slows down the timer saves its next tick. *)
LEMMA SlowDownPays ==
  ASSUME Types, Shape, Shape', Paid, NEW t \in Thread, SlowDown(t)
  PROVE  Paid'
<1> USE Setters
<1>1. Account(t) /\ Account(t)' /\ Interval \in Nat \ {0}
  BY Accounts, AccountsNext, TimerFacts
<1>2. /\ pc[t] = "slow" /\ pc'[t] = "read slow"
      /\ UNCHANGED <<calls, now, ticks, pending>>
      /\ timer' = Every(Slow) /\ loc'[t].orig = timer
      /\ \A b \in Actor \ {t} : /\ pc'[b] = pc[b] /\ loc'[b] = loc[b]
                                /\ b \in stale => b \in stale'
  BY DEF Types, SlowDown, SetTimer, Go, Locals, history
<1>3. /\ timer' \in Timers /\ Progress(timer') = 0 /\ Worth(timer') = 0
      /\ Worth(timer) \in Nat
  BY <1>2, TimerFacts DEF Shape
<1>4. Due(t) = Allowance /\ Allowance \in Nat
  BY <1>1, <1>2 DEF Account
<1>5. Owed(t)' <= Allowance /\ Owed(t)' \in Int
  <2>1. Owed(t)' \in {0, Allowance}
    BY <1>2 DEF Owed, Timed, Reckoned, InSlow, Allowance
  <2> QED BY <1>4, <2>1
<1>6. Due(t)' = 2 * Worth(timer) + Owed(t)'
  <2>1. Due(t)' = 2 * Worth(loc'[t].orig) + Owed(t)'
    BY <1>1, <1>2 DEF Account, Worth
  <2> QED BY <1>2, <2>1
<1>7. /\ Due(t)' <= Due(t) + 2 * Worth(timer) /\ 2 * Worth(timer) \in Int
      /\ 2 * Worth(timer) <= 2 * Worth(timer) - 2 * Worth(timer')
  BY <1>3, <1>4, <1>5, <1>6
<1>8. \A a \in Actor \ {t} : Due(a)' <= Due(a)
  BY <1>2, Others
<1> QED BY <1>2, <1>3, <1>7, <1>8, Settle

(* Reading the slow timer changes nothing of what the call is allowed. *)
LEMMA ReadSlowPays ==
  ASSUME Types, Shape, Shape', Paid, NEW t \in Thread, ReadSlow(t)
  PROVE  Paid'
<1> USE Setters
<1>1. Account(t) /\ Account(t)'
  BY Accounts, AccountsNext
<1>2. /\ pc[t] = "read slow" /\ pc'[t] = "chain"
      /\ UNCHANGED <<timer, calls, now, ticks, pending, stale>>
      /\ loc'[t].orig = loc[t].orig /\ loc'[t].seen = loc[t].seen /\ loc'[t].call = loc[t].call
      /\ \A b \in Actor \ {t} : pc'[b] = pc[b] /\ loc'[b] = loc[b]
  BY DEF Types, ReadSlow, Go, Locals, history
<1>3. Timed(t)' <=> Timed(t)
  BY <1>2 DEF Timed, InSlow, Honest, Overlaps
<1>4. Owed(t)' = Owed(t)
  <2>1. ~ Reckoned(t) /\ ~ Reckoned(t)'
    BY <1>2 DEF Reckoned
  <2> QED BY <1>2, <1>3, <2>1 DEF Owed, Allowance
<1>5. Due(t)' = Due(t) /\ Due(t) \in Nat
  <2>1. Due(t)' = 2 * Worth(loc'[t].orig) + Owed(t)' /\ Due(t) = 2 * Worth(loc[t].orig) + Owed(t)
    BY <1>1, <1>2 DEF Account, Worth
  <2> QED BY <1>1, <1>2, <1>4, <2>1 DEF Account
<1>6. Due(t)' <= Due(t)
  BY <1>5
<1> QED BY <1>2, <1>3, <1>6, Calm

(* A call that returns is charged for the progress of the slow timer, which is not
   on the way any more but for the next tick. *)
LEMMA ReturnPays ==
  ASSUME Types, Shape, Shape', Slowed, Sole, Begun, Paid, NEW t \in Thread, Return(t)
  PROVE  Paid'
<1> USE Setters
<1> DEFINE d == Owed(t)' - Owed(t)
<1>0. d = Owed(t)' - Owed(t)
  OBVIOUS
<1> HIDE DEF d
<1>1. Account(t) /\ Account(t)' /\ Interval \in Nat \ {0} /\ Slow \in Nat
  BY Accounts, AccountsNext, TimerFacts
<1>2. /\ pc[t] = "chain" /\ pc'[t] = "put back"
      /\ UNCHANGED <<timer, calls, now, ticks, pending, stale>>
      /\ loc'[t].orig = loc[t].orig /\ loc'[t].seen = loc[t].seen /\ loc'[t].call = loc[t].call
      /\ loc'[t].dt = loc[t].dt - timer.value
      /\ \A b \in Actor \ {t} : pc'[b] = pc[b] /\ loc'[b] = loc[b]
  BY DEF Types, Return, Go, Locals, history
<1>3. Due(t)' <= Due(t) + d /\ d \in Int /\ Owed(t) \in Nat /\ Owed(t)' \in Nat
  <2>1. Due(t)' = 2 * Worth(loc'[t].orig) + Owed(t)' /\ Due(t) = 2 * Worth(loc[t].orig) + Owed(t)
    BY <1>1, <1>2 DEF Account, Worth
  <2>2. Owed(t) \in Nat /\ Owed(t)' \in Nat /\ Worth(loc[t].orig) \in Nat
    BY <1>1 DEF Account
  <2>3. Due(t)' = 2 * Worth(loc[t].orig) + Owed(t)'
    BY <1>2, <2>1
  <2>4. \A w, o, r \in Nat : w + r <= (w + o) + (r - o) /\ r - o \in Int /\ 2 * w \in Nat
    OBVIOUS
  <2> QED BY <1>0, <2>1, <2>2, <2>3, <2>4
<1>4. /\ Coming \in Int /\ Pace \in Nat /\ Worth(timer) \in Nat /\ Progress(timer) \in Nat
      /\ Worth(timer) <= Interval - 1
      /\ timer.value \in Nat /\ Progress(timer) = timer.interval - timer.value
      /\ timer.interval \in Nat /\ loc[t].dt \in Int
  BY ComingTypes, TimerFacts DEF Shape
<1>5. Coming' + d <= Coming /\ Coming' \in Int
  <2>1. CASE Timed(t)
    <3>1. timer.interval = Slow
      BY <2>1, TimedSlow
    <3>2. t \notin stale /\ loc[t].seen = Interval
      BY <2>1 DEF Timed, Honest, Overlaps
    <3>3. \A a \in Thread : ~ Timed(a)'
      <4> SUFFICES ASSUME NEW a \in Thread, Timed(a)' PROVE FALSE
        OBVIOUS
      <4>1. a # t /\ a \notin stale /\ Saving(a)
        BY <1>2 DEF Timed, InSlow, Honest, Overlaps, Saving
      <4>2. Saving(t)
        BY <1>2 DEF Saving
      <4> QED BY <3>2, <4>1, <4>2 DEF Sole
    <3>4. Pace = Progress(timer) /\ Pace' = Worth(timer)
      BY <1>2, <2>1, <3>3 DEF Pace, Worth
    <3>5. loc'[t].dt <= Interval - 1 + Progress(timer) /\ loc'[t].dt \in Int
      <4>1. loc[t].dt <= Interval - 1 + Slow
        BY <1>2, <3>2 DEF Begun
      <4>2. loc'[t].dt = loc[t].dt - timer.value /\ Progress(timer) = Slow - timer.value
        BY <1>2, <1>4, <3>1
      <4>3. \A x \in Int, i, s, v \in Nat :
              x <= i - 1 + s => x - v <= i - 1 + (s - v) /\ x - v \in Int
        OBVIOUS
      <4> QED BY <1>1, <1>4, <4>1, <4>2, <4>3
    <3>6. Owed(t) = 4 * (Interval - 1) + Interval
      BY <2>1 DEF Owed, Allowance
    <3>7. Owed(t)' <= 2 * (Interval - 1) + 2 * Progress(timer) + Interval
      <4>1. Owed(t)' \in {Cost(t)', 0}
        BY <1>2 DEF Owed, Timed, InSlow
      <4>2. Cost(t)' = IF loc'[t].dt >= 0 THEN 2 * loc'[t].dt + Interval ELSE 0
        BY DEF Cost
      <4>3. Cost(t)' <= 2 * (Interval - 1) + 2 * Progress(timer) + Interval
        BY <1>1, <1>4, <3>5, <4>2
      <4> QED BY <1>1, <1>4, <4>1, <4>3
    <3>8. d <= 2 * Progress(timer) - 2 * (Interval - 1)
      <4>1. \A r, o, p \in Nat :
              /\ o = 4 * (Interval - 1) + Interval
              /\ r <= 2 * (Interval - 1) + 2 * p + Interval
              => r - o <= 2 * p - 2 * (Interval - 1)
        BY <1>1
      <4> QED BY <1>0, <1>3, <1>4, <3>6, <3>7, <4>1
    <3>9. PICK i \in Nat : Coming = i + 2 * Progress(timer) /\ Coming' = i + 2 * Worth(timer)
      <4>1. 2 * Interval \in Nat
        BY <1>1
      <4>2. CASE pending
        BY <1>2, <3>4, <4>1, <4>2 DEF Coming
      <4>3. CASE ~ pending
        BY <1>2, <3>4, <4>3 DEF Coming
      <4> QED BY <4>2, <4>3
    <3>10. \A p, w \in Nat : /\ w <= Interval - 1 /\ d <= 2 * p - 2 * (Interval - 1)
                                => i + 2 * w + d <= i + 2 * p
                            /\ i + 2 * w \in Int
      BY <1>1, <1>3
    <3>11. i + 2 * Worth(timer) + d <= i + 2 * Progress(timer) /\ i + 2 * Worth(timer) \in Int
      BY <1>4, <3>8, <3>10
    <3> QED BY <3>9, <3>11, Zenon
  <2>2. CASE ~ Timed(t)
    <3>1. ~ Timed(t)' /\ ~ Reckoned(t)'
      BY <1>2, <2>2 DEF Timed, Reckoned, InSlow, Honest, Overlaps
    <3>2. Owed(t)' = 0
      BY <1>2, <3>1 DEF Owed
    <3>3. \A a \in Actor : Timed(a)' => Timed(a)
      BY <1>2, <3>1, NoMoreTimed
    <3>4. Coming' <= Coming /\ Coming' \in Nat
      BY <1>2, <3>3, SamePace
    <3>5. d <= 0
      BY <1>0, <1>3, <3>2
    <3>6. \A x, y \in Int : x <= y => x + d <= y
      BY <1>3, <3>5
    <3> QED BY <1>4, <3>4, <3>6
  <2> QED BY <2>1, <2>2
<1>6. Budget' = Budget /\ 2 * Interval * ticks' = 2 * Interval * ticks
  BY <1>2 DEF Budget
<1>7. Budget \in Int /\ 2 * Interval * ticks \in Int
  BY ComingTypes
<1>8. 2 * Interval * ticks' + Coming' + d - Budget' <= 2 * Interval * ticks + Coming - Budget
  BY <1>3, <1>4, <1>5, <1>6, <1>7, EvenBalance
<1> QED BY <1>2, <1>3, <1>8, Others, Pays

(* A call that puts the timer back gives back the next tick it has saved. *)
LEMMA ResumePays ==
  ASSUME Types, Shape, Shape', Paid, NEW t \in Thread, Resume(t)
  PROVE  Paid'
<1> USE Setters
<1>1. Account(t) /\ Account(t)'
  BY Accounts, AccountsNext
<1>2. /\ pc[t] = "put back" /\ pc'[t] \in {"reset", "charge"}
      /\ timer' = loc[t].orig /\ UNCHANGED <<pending, now, calls, ticks, loc>>
      /\ t \in stale' <=> t \in stale
      /\ \A b \in Actor \ {t} : /\ pc'[b] = pc[b] /\ (b \in stale => b \in stale')
                                /\ Saving(b) => b \in stale'
  BY DEF Types, Resume, PutBack, Go, history, Saving
<1>3. /\ timer' \in Timers /\ Worth(timer') \in Nat /\ Worth(timer') = Worth(loc[t].orig)
      /\ Worth(timer) \in Nat
  BY <1>2, TimerFacts DEF Shape
<1>4. \A a \in Thread : ~ Timed(a)'
  BY <1>2 DEF Timed, InSlow, Honest, Overlaps, Saving
<1>5. Owed(t)' <= Owed(t) /\ Owed(t) \in Nat /\ Owed(t)' \in Nat
  <2>1. Owed(t) \in Nat /\ Owed(t)' \in Nat
    BY <1>1 DEF Account
  <2>2. Reckoned(t)' => Reckoned(t)
    BY <1>2 DEF Reckoned, Honest, Overlaps
  <2>3. ~ Timed(t) /\ ~ Timed(t)' /\ pc'[t] # "slow" /\ pc[t] # "slow"
    BY <1>2 DEF Timed, InSlow
  <2>4. Owed(t)' \in {0, Owed(t)}
    BY <1>2, <2>2, <2>3 DEF Owed, Cost
  <2> QED BY <2>1, <2>4
<1>6. Due(t)' <= Owed(t)'
  <2>1. ~ Saving(t)'
    BY <1>2 DEF Saving
  <2>2. CASE pc'[t] = "charge"
    <3>1. Due(t)' = Owed(t)'
      BY <1>1, <2>2 DEF Account
    <3> QED BY <1>5, <3>1
  <2>3. CASE pc'[t] = "reset"
    <3>1. Due(t)' = 0
      BY <1>1, <2>1, <2>3 DEF Account
    <3> QED BY <1>5, <3>1
  <2> QED BY <1>2, <2>2, <2>3
<1>7. Due(t) = 2 * Worth(timer') + Owed(t) /\ Due(t)' \in Int
  <2>1. Due(t) = 2 * Worth(loc[t].orig) + Owed(t) /\ Due(t)' \in Nat
    BY <1>1, <1>2 DEF Account
  <2> QED BY <1>3, <2>1
<1>8. /\ Due(t)' <= Due(t) + (- (2 * Worth(timer'))) /\ - (2 * Worth(timer')) \in Int
      /\ - (2 * Worth(timer')) <= 2 * Worth(timer) - 2 * Worth(timer')
  BY <1>3, <1>5, <1>6, <1>7
<1>9. \A a \in Actor \ {t} : Due(a)' <= Due(a)
  BY <1>2, Others
<1> QED BY <1>2, <1>3, <1>4, <1>8, <1>9, Settle

(* The ticks of a call are paid for by its time and the rounding. *)
LEMMA ChargePays ==
  ASSUME Types, Shape, Shape', Paid, NEW t \in Thread, Charge(t)
  PROVE  Paid'
<1> USE Setters
<1> DEFINE n == Nearest(loc[t].dt, timer.interval)
<1>1. Account(t) /\ Account(t)' /\ Interval \in Nat \ {0} /\ ticks \in Int
  BY Accounts, AccountsNext, TimerFacts DEF Shape
<1>2. /\ pc[t] = "charge" /\ pc'[t] = "running"
      /\ UNCHANGED <<timer, pending, now, calls>>
      /\ \A b \in Actor \ {t} : /\ pc'[b] = pc[b] /\ loc'[b] = loc[b]
                                /\ b \in stale => b \in stale'
  BY DEF Types, Charge, Go
<1>3. Due(t) = Owed(t) /\ Owed(t) \in Nat /\ Due(t)' = 0
  <2>1. ~ Saving(t)'
    BY <1>2 DEF Saving
  <2> QED BY <1>1, <1>2, <2>1 DEF Account
<1>4. ticks' \in Int /\ 2 * Interval * ticks' <= 2 * Interval * ticks + Owed(t)
  <2>1. CASE Honest(t) /\ timer.interval > 0
    <3>1. ticks' = ticks + n
      BY <2>1 DEF Charge, Honest
    <3>2. timer.interval \in Nat \ {0} /\ Interval <= timer.interval /\ loc[t].dt \in Int
      BY <1>1, <2>1, TimerFacts DEF Shape
    <3>4. Owed(t) = Cost(t)
      BY <1>2, <2>1 DEF Owed, Timed, InSlow, Reckoned
    <3>3. n \in Int /\ 2 * Interval * n <= Cost(t) /\ Cost(t) \in Int
      <4>1. CASE loc[t].dt >= 0
        <5>1. n \in Int /\ 2 * Interval * n <= 2 * loc[t].dt + Interval
          BY <3>2, <4>1, NearestBound
        <5>2. Cost(t) = 2 * loc[t].dt + Interval
          BY <4>1 DEF Cost
        <5> QED BY <1>1, <3>2, <5>1, <5>2
      <4>2. CASE loc[t].dt < 0
        <5>1. n \in Int /\ n <= 0
          BY <3>2, <4>2, NearestLow
        <5>2. Cost(t) = 0
          BY <3>2, <4>2 DEF Cost
        <5>3. \A k \in Nat, m \in Int : m <= 0 => k * m <= 0
          OBVIOUS
        <5>4. (2 * Interval) * n <= 0
          BY <1>1, <5>1, <5>3
        <5> QED BY <5>1, <5>2, <5>4
      <4> QED BY <3>2, <4>1, <4>2
    <3> HIDE DEF n
    <3>5. 2 * Interval * (ticks + n) = 2 * Interval * ticks + 2 * Interval * n
          /\ 2 * Interval * ticks \in Int /\ 2 * Interval * n \in Int
      BY <1>1, <3>3
    <3> QED BY <1>1, <1>3, <3>1, <3>3, <3>4, <3>5
  <2>2. CASE ~ (Honest(t) /\ timer.interval > 0)
    <3>1. ticks' = ticks \/ ticks' = ticks + 0
      BY <1>2, <2>2 DEF Charge, Honest
    <3>2. ticks' = ticks
      BY <1>1, <3>1
    <3>3. 2 * Interval * ticks \in Int
      BY <1>1
    <3> QED BY <1>1, <1>3, <3>2, <3>3
  <2> QED BY <2>1, <2>2
<1>5. Due(t)' <= Due(t) + (- Owed(t)) /\ - Owed(t) \in Int
  BY <1>3
<1>6. Coming' <= Coming /\ Coming' \in Int /\ Budget' = Budget
  <2>1. ~ Timed(t)'
    BY <1>2 DEF Timed, InSlow
  <2> QED BY <1>2, <2>1, NoMoreTimed, SamePace DEF Budget
<1>7. Coming \in Int /\ Budget \in Int /\ 2 * Interval * ticks \in Int
      /\ 2 * Interval * ticks' \in Int
  BY <1>1, <1>4, ComingTypes
<1>8. 2 * Interval * ticks' + Coming' + (- Owed(t)) - Budget' <=
        2 * Interval * ticks + Coming - Budget
  BY <1>3, <1>4, <1>6, <1>7
<1> QED BY <1>2, <1>5, <1>8, Others, Pays

(* The child has no timer and one thread, whose call is not counted. *)
LEMMA BornPays ==
  ASSUME Types, Shape, Shape', Paid, NEW t \in Thread, Born(t)
  PROVE  Paid'
<1> USE Setters
<1>1. \A b \in Actor : Account(b) /\ Account(b)'
  BY Accounts, AccountsNext
<1>2. /\ pc[t] = "chain" /\ pc'[t] = "chain" /\ loc'[t].call = "child"
      /\ loc'[t].orig = loc[t].orig /\ timer' = Stopped /\ ~ pending'
      /\ UNCHANGED <<now, calls, ticks>>
      /\ \A b \in Actor \ {t} : pc'[b] \in {"none", "gone"}
  BY DEF Types, Born, history, Locals
<1>3. \A b \in Actor \ {t} : Due(b)' <= Due(b)
  <2> TAKE b \in Actor \ {t}
  <2>1. ~ Saving(b)' /\ pc'[b] \notin {"sample", "record", "slow", "charge"}
    BY <1>2 DEF Saving
  <2> QED BY <2>1, Settled
<1>4. Due(t)' <= Due(t) + 0
  <2>1. Owed(t)' = 0
    BY <1>2 DEF Owed, Timed, Reckoned, Honest
  <2>2. Due(t)' = 2 * Worth(loc'[t].orig) + Owed(t)'
    BY <1>1, <1>2 DEF Account, Worth
  <2>3. /\ Due(t) = 2 * Worth(loc[t].orig) + Owed(t)
        /\ Owed(t) \in Nat /\ Worth(loc[t].orig) \in Nat
    BY <1>1, <1>2 DEF Account
  <2> QED BY <1>2, <2>1, <2>2, <2>3
<1>5. timer' \in Timers /\ Progress(timer') = 0 /\ Worth(timer') = 0 /\ Worth(timer) \in Nat
  BY <1>2, TimerFacts DEF Shape
<1>6. 0 <= 2 * Worth(timer) - 2 * Worth(timer')
  BY <1>5
<1> QED BY <1>2, <1>3, <1>4, <1>5, <1>6, Settle

(* A fork() that fails is not charged. *)
LEMMA FailPays ==
  ASSUME Types, Shape, Shape', Paid, NEW t \in Thread, Fail(t)
  PROVE  Paid'
<1> USE Setters
<1>1. /\ pc'[t] = "running" /\ UNCHANGED <<timer, pending, ticks, now, calls>>
      /\ \A b \in Actor \ {t} : /\ pc'[b] = pc[b] /\ loc'[b] = loc[b]
                                /\ b \in stale => b \in stale'
  BY DEF Types, Fail, Go, history
<1>2. Due(t)' <= Due(t)
  <2>1. ~ Saving(t)'
    BY <1>1 DEF Saving
  <2> QED BY <1>1, <2>1, Settled
<1>3. ~ Timed(t)'
  BY <1>1 DEF Timed, InSlow
<1> QED BY <1>1, <1>2, <1>3, Calm

(* A thread that starts or ends sets the timer, and drops its progress. *)
LEMMA StartPays ==
  ASSUME Types, Shape, Shape', Paid, NEW t \in Thread, ThreadInit(t) \/ Leave(t)
  PROVE  Paid'
<1> USE Setters
<1>1. /\ pc'[t] \in {"running", "free"} /\ UNCHANGED <<pending, ticks, now, calls>>
      /\ timer' \in {Every(Interval), Stopped}
      /\ \A b \in Actor \ {t} : /\ pc'[b] = pc[b] /\ loc'[b] = loc[b]
                                /\ b \in stale => b \in stale'
  BY DEF Types, ThreadInit, Leave, SetTimer, Go, history
<1>2. Due(t)' <= Due(t) + 0
  <2>1. ~ Saving(t)'
    BY <1>1 DEF Saving
  <2> QED BY <1>1, <2>1, Settled
<1>3. timer' \in Timers /\ Progress(timer') = 0 /\ Worth(timer') = 0 /\ Worth(timer) \in Nat
  BY <1>1, TimerFacts DEF Shape
<1>4. 0 <= 2 * Worth(timer) - 2 * Worth(timer')
  BY <1>3
<1>5. \A a \in Actor \ {t} : Due(a)' <= Due(a)
  BY <1>1, Others
<1> QED BY <1>1, <1>2, <1>3, <1>4, <1>5, Settle

(* A dump saves the progress of the timer and gives it back. *)
LEMMA DumpPays ==
  ASSUME Types, Shape, Shape', Paid, DumpBegin \/ DumpEnd
  PROVE  Paid'
<1> USE Setters
<1>1. Account(Dumper) /\ Account(Dumper)'
  BY Accounts, AccountsNext
<1>2. /\ UNCHANGED <<pending, ticks, now, calls>>
      /\ \A b \in Actor \ {Dumper} : /\ pc'[b] = pc[b] /\ loc'[b] = loc[b]
                                     /\ b \in stale => b \in stale'
      /\ \A b \in Thread : Saving(b) => b \in stale'
  BY DEF Types, DumpBegin, DumpEnd, SetTimer, Go, history
<1>6. \A a \in Thread : ~ Timed(a)'
  BY <1>2 DEF Timed, InSlow, Honest, Overlaps, Saving
<1>3. \A a \in Actor \ {Dumper} : Due(a)' <= Due(a)
  BY <1>2, Others
<1>4. CASE DumpBegin
  <2>1. pc[Dumper] = "idle" /\ pc'[Dumper] = "dump lock" /\ loc'[Dumper].orig = timer
        /\ timer' = Stopped
    BY <1>4 DEF Types, DumpBegin, SetTimer, Go, Locals
  <2>2. ~ Saving(Dumper) /\ Saving(Dumper)'
    BY <2>1 DEF Saving
  <2>3. Due(Dumper) = 0
    BY <1>1, <2>1, <2>2 DEF Account
  <2>4. Due(Dumper)' = 2 * Worth(timer)
    <3>1. Due(Dumper)' = 2 * Worth(loc'[Dumper].orig)
      BY <1>1, <2>1, <2>2 DEF Account, Worth
    <3> QED BY <2>1, <3>1
  <2>5. timer' \in Timers /\ Worth(timer') = 0 /\ Worth(timer) \in Nat
    BY <2>1, TimerFacts DEF Shape
  <2>6. /\ Due(Dumper)' <= Due(Dumper) + 2 * Worth(timer)
        /\ 2 * Worth(timer) \in Int
        /\ 2 * Worth(timer) <= 2 * Worth(timer) - 2 * Worth(timer')
    BY <2>3, <2>4, <2>5
  <2> QED BY <1>2, <1>3, <1>6, <2>5, <2>6, Settle
<1>5. CASE DumpEnd
  <2>1. pc[Dumper] = "dump end" /\ pc'[Dumper] = "idle" /\ timer' = loc[Dumper].orig
    BY <1>5 DEF Types, DumpEnd, Go
  <2>2. Saving(Dumper) /\ ~ Saving(Dumper)'
    BY <2>1 DEF Saving
  <2>3. Due(Dumper) = 2 * Worth(timer')
    BY <1>1, <2>1, <2>2 DEF Account
  <2>4. Due(Dumper)' = 0
    BY <1>1, <2>1, <2>2 DEF Account
  <2>5. timer' \in Timers /\ Worth(timer') \in Nat /\ Worth(timer) \in Nat
    BY <2>1, TimerFacts DEF Shape
  <2>6. /\ Due(Dumper)' <= Due(Dumper) + (- (2 * Worth(timer')))
        /\ - (2 * Worth(timer')) \in Int
        /\ - (2 * Worth(timer')) <= 2 * Worth(timer) - 2 * Worth(timer')
    BY <2>3, <2>4, <2>5
  <2> QED BY <1>2, <1>3, <1>6, <2>5, <2>6, Settle
<1> QED BY <1>4, <1>5

(* Every step is paid for. *)
LEMMA NextPaid ==
  Types /\ ChildInv /\ Shape /\ Shape' /\ Slowed /\ Sole /\ Begun /\ Paid /\ [Next]_vars
    => Paid'
<1> SUFFICES ASSUME Types, ChildInv, Shape, Shape', Slowed, Sole, Begun, Paid, [Next]_vars
             PROVE  Paid'
  OBVIOUS
<1> USE Setters
<1>0. \A b \in Actor : Account(b) /\ Account(b)'
  BY Accounts, AccountsNext
<1>1. ASSUME NEW t \in Thread, SampleLock(t) PROVE Paid'
  <2>1. pc[t] = "sample" /\ pc'[t] = "record"
    BY <1>1 DEF Types, SampleLock, Go
  <2>2. Due(t)' <= Due(t)
    <3>1. Due(t)' = 2 * Interval
      BY <1>0, <2>1 DEF Account
    <3>2. Due(t) = 2 * Interval /\ Due(t) \in Nat
      BY <1>0, <2>1 DEF Account
    <3> QED BY <3>1, <3>2
  <2>3. ~ Timed(t)'
    BY <2>1 DEF Timed, InSlow
  <2> QED BY <1>1, <2>2, <2>3, Calm DEF Types, SampleLock, Go, history
<1>2. ASSUME NEW t \in Thread, ResetBegin(t) \/ Insert(t) \/ FreeLock(t) \/ Create(t) \/ Merge(t)
      PROVE  Paid'
  <2>1. pc'[t] \in {"reset walk", "init", "merge", "insert", "none"}
    BY <1>2 DEF Types, ResetBegin, Insert, FreeLock, Create, Merge, Go
  <2>2. Due(t)' <= Due(t)
    <3>1. ~ Saving(t)'
      BY <2>1 DEF Saving
    <3> QED BY <2>1, <3>1, Settled
  <2>3. /\ UNCHANGED <<timer, pending, ticks, now, calls, stale>>
        /\ \A b \in Actor \ {t} : pc'[b] = pc[b] /\ loc'[b] = loc[b]
    BY <1>2 DEF Types, ResetBegin, Insert, FreeLock, Create, Merge, Go, history
  <2>4. ~ Timed(t)'
    BY <2>1 DEF Timed, InSlow
  <2> QED BY <2>2, <2>3, <2>4, Calm
<1>3. ASSUME NEW t \in Thread, NEW b \in Buffers, ResetBuffer(t, b) PROVE Paid'
  <2>1. pc'[t] = "reset walk"
    BY <1>3 DEF Types, ResetBuffer
  <2>2. Due(t)' <= Due(t)
    <3>1. ~ Saving(t)'
      BY <2>1 DEF Saving
    <3> QED BY <2>1, <3>1, Settled
  <2>3. ~ Timed(t)'
    BY <2>1 DEF Timed, InSlow
  <2> QED BY <1>3, <2>2, <2>3, Calm DEF Types, ResetBuffer, history
<1>4. ASSUME NEW t \in Thread, ResetEnd(t) PROVE Paid'
  <2>1. pc[t] = "reset walk" /\ pc'[t] = "charge" /\ loc' = loc
        /\ UNCHANGED <<timer, pending, ticks, now, calls, stale>>
        /\ \A b \in Actor \ {t} : pc'[b] = pc[b]
    BY <1>4 DEF Types, ResetEnd, Go, history
  <2>2. loc[t].call = "child"
    BY <2>1 DEF ChildInv, Cleared, InChild
  <2>3. Due(t)' <= Due(t)
    <3>1. Owed(t)' = 0
      BY <2>1, <2>2 DEF Owed, Timed, Reckoned, Honest
    <3> QED BY <2>1, <3>1, Settled
  <2>4. ~ Timed(t)'
    BY <2>1 DEF Timed, InSlow
  <2> QED BY <2>1, <2>3, <2>4, Calm
<1>5. ASSUME NEW b \in Buffers, DumpLock \/ DumpBuffer(b) \/ DumpRead(b) PROVE Paid'
  <2>1. /\ Saving(Dumper) /\ Saving(Dumper)'
        /\ pc[Dumper] \notin {"read slow", "chain", "put back"}
        /\ pc'[Dumper] \notin {"read slow", "chain", "put back"}
    BY <1>5 DEF Types, DumpLock, DumpBuffer, DumpRead, Go, Saving
  <2>2. loc'[Dumper].orig = loc[Dumper].orig
    <3>1. CASE DumpLock
      BY <3>1 DEF Types, DumpLock, Locals
    <3>2. CASE DumpBuffer(b)
      BY <3>2 DEF Types, DumpBuffer, Locals
    <3> QED BY <1>5, <3>1, <3>2 DEF DumpRead
  <2>3. Due(Dumper)' <= Due(Dumper)
    <3>1. Due(Dumper)' = 2 * Worth(loc'[Dumper].orig)
      BY <1>0, <2>1 DEF Account, Worth
    <3>2. Due(Dumper) = 2 * Worth(loc[Dumper].orig) /\ Due(Dumper) \in Nat
      BY <1>0, <2>1 DEF Account
    <3> QED BY <2>2, <3>1, <3>2
  <2>4. /\ UNCHANGED <<timer, pending, ticks, now, calls, stale>>
        /\ \A b_1 \in Actor \ {Dumper} : pc'[b_1] = pc[b_1] /\ loc'[b_1] = loc[b_1]
    BY <1>5 DEF Types, DumpLock, DumpBuffer, DumpRead, Go, history
  <2>5. ~ Timed(Dumper)'
    BY <2>1 DEF Timed, InSlow
  <2> QED BY <2>3, <2>4, <2>5, Calm
<1>6. CASE UNCHANGED vars
  <2>1. /\ UNCHANGED <<timer, pending, ticks, now, calls, stale, pc, loc>>
    BY <1>6 DEF vars
  <2>2. Due(Main)' <= Due(Main)
    BY <2>1, SameDue
  <2>3. Timed(Main)' => Timed(Main)
    BY <2>1 DEF Timed, InSlow, Honest, Overlaps
  <2> QED BY <2>1, <2>2, <2>3, Calm
<1> QED
  BY <1>1, <1>2, <1>3, <1>4, <1>5, <1>6, ElapsePays, SignalPays, SamplePays, EnterPays,
     SlowDownPays, ReadSlowPays, ReturnPays, ResumePays, ChargePays, BornPays, FailPays,
     StartPays, DumpPays DEF Next, Proceed

(* A sum of zeros over the actors. *)
LEMMA NoSum ==
  ASSUME NEW f, \A a \in Actor : f[a] = 0
  PROVE  SumFunctionOnSet(f, Actor) = 0
<1>1. \A a \in Actor : f[a] \in Int
  OBVIOUS
<1>2. SumFunctionOnSet(f, Actor) = SumFunctionOnSet(f, {})
  BY <1>1, FiniteActors, SumZeros
<1> QED BY <1>2, SumEmpty

(* Nothing is due before the first step. *)
LEMMA InitTicks == Init => Shape /\ Slowed /\ Sole /\ Begun /\ Paid
<1> SUFFICES ASSUME Init PROVE Shape /\ Slowed /\ Sole /\ Begun /\ Paid
  OBVIOUS
<1> USE Setters
<1>1. Shape
  BY TimerFacts DEF Init, Shape, NoLocals
<1>2. Slowed
  BY DEF Init, Slowed, InSlow
<1>7. Sole /\ Begun
  BY DEF Init, Sole, Begun, Saving
<1>3. \A a \in Actor : Dues[a] = 0
  <2> TAKE a \in Actor
  <2>1. pc[a] \in {"running", "none", "idle"}
    BY DEF Init
  <2>2. Account(a) /\ ~ Saving(a)
    BY <1>1, <2>1, Accounts DEF Saving
  <2> QED BY <2>1, <2>2 DEF Account, Dues
<1>4. SumFunctionOnSet(Dues, Actor) = 0
  BY <1>3, NoSum
<1>5. Coming = 0 /\ Budget = 0 /\ 2 * Interval * ticks = 0
  <2>1. timer = Every(Interval) /\ ~ pending /\ now = 0 /\ calls = 0 /\ ticks = 0
    BY DEF Init
  <2>2. Progress(timer) = 0 /\ Worth(timer) = 0 /\ Interval \in Nat
    BY <2>1, TimerFacts
  <2>3. Pace = 0
    BY <2>2 DEF Pace
  <2> QED BY <2>1, <2>2, <2>3 DEF Coming, Budget
<1>6. Paid
  BY <1>4, <1>5 DEF Paid
<1> QED BY <1>1, <1>2, <1>6, <1>7

(* What is paid for is bounded by the time that has passed. *)
LEMMA PaidBounds == Shape /\ Paid => TicksBounded
<1> SUFFICES ASSUME Shape, Paid PROVE TicksBounded
  OBVIOUS
<1>1. \A a \in Actor : Dues[a] \in Nat
  BY DueTypes
<1> DEFINE zeros == [a \in Actor |-> 0]
<1>2. SumFunctionOnSet(Dues, Actor) \in Int /\ SumFunctionOnSet(Dues, Actor) >= 0
  <2>1. SumFunctionOnSet(zeros, Actor) = 0
    BY NoSum
  <2>2. \A a \in Actor : zeros[a] \in Int /\ Dues[a] \in Int /\ zeros[a] <= Dues[a]
    BY <1>1
  <2>3. SumFunctionOnSet(zeros, Actor) <= SumFunctionOnSet(Dues, Actor)
    <3> HIDE DEF zeros
    <3> QED BY <2>2, FiniteActors, SumMonotone
  <2>4. SumFunctionOnSet(Dues, Actor) \in Int
    BY <2>2, FiniteActors, SumInt
  <2> QED BY <2>1, <2>3, <2>4
<1>3. Coming \in Nat /\ Budget \in Int /\ 2 * Interval * ticks \in Int
  BY ComingTypes
<1>4. 2 * Interval * ticks <= Budget
  BY <1>2, <1>3 DEF Paid
<1> QED BY <1>4 DEF TicksBounded, Budget

(* For any threads and intervals, however calls, dumps, samples and threads that
   start and end interleave: the ticks that calls and samples record stand for
   CPU time that has passed, but for less than two Intervals and a half a call. *)
THEOREM TicksAreTime == Spec => []TicksBounded
<1>1. Init => Types /\ ChildInv /\ Shape /\ Slowed /\ Sole /\ Begun /\ Paid
  BY InitTypes, InitChild, InitTicks
<1>2. Types /\ ChildInv /\ Shape /\ Slowed /\ Sole /\ Begun /\ Paid /\ [Next]_vars =>
        Types' /\ ChildInv' /\ Shape' /\ Slowed' /\ Sole' /\ Begun' /\ Paid'
  BY NextTypes, NextChild, NextShape, NextSlowed, NextSole, NextBegun, NextPaid
<1> QED BY <1>1, <1>2, PaidBounds, PTL DEF Spec
===============================================================================

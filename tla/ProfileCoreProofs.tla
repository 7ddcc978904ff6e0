------------------------- MODULE ProfileCoreProofs --------------------------
(***************************************************************************)
(* Proofs about ProfileCore: its types, that no buffer is used after its   *)
(* deletion, that no thread waits for a lock it holds, that overlapping    *)
(* calls of kill() leave the profilers on, that every sample stays in one  *)
(* buffer and that a dump shows each once, for any number of threads,      *)
(* dumpers, samples and dumps.                                             *)
(***************************************************************************)
EXTENDS ProfileCore, SumTheorems, FiniteSetTheorems, TLAPS

Buf == Thread \cup {Master}
Dump == [left : SUBSET Buf, reading : Buf \cup {Nobody},
         seen : [Thread -> Nat], since : [Thread -> Nat]]

(* Places where no lock is held, those of thread end, and those of a dump. *)
Quiet == {"none", "wrapper", "unprofiled", "running", "handler", "sample",
          "free", "idle", "dump", "kill", "killed", "exit", "exit disable",
          "over"}
Merging == {"merge", "merge other", "merge tree", "erase"}
Place == Quiet \cup Merging \cup {"insert", "push", "freed", "walk", "read",
                                   "written"}

(* Types of all variables but the history of dumps. *)
Types ==
  /\ activated \in BOOLEAN /\ enabled \in Int
  /\ perThread \in BOOLEAN /\ exiting \in Thread \cup {Nobody}
  /\ bufs \in SUBSET Thread
  /\ made \in SUBSET Buf
  /\ content \in [Buf -> [Thread -> Nat]]
  /\ big \in Actor \cup {Nobody}
  /\ held \in [Buf -> Actor \cup {Nobody}]
  /\ pc \in [Actor -> Place]
  /\ dump \in [Actor -> Dump]
  /\ taken \in [Thread -> Nat]

(* Where s_buflock is held. *)
BigPlaces == Merging \cup {"freed", "walk", "read", "written"}
BigOK == \A a \in Actor : (big = a) <=> (pc[a] \in BigPlaces)

(* Where the lock of which buffer is held. *)
Holds(a, b) ==
  \/ pc[a] = "push" /\ b = Own(a)
  \/ pc[a] \in {"merge other", "merge tree"} /\ b = Master
  \/ pc[a] = "merge tree" /\ b = a
  \/ pc[a] = "read" /\ b = dump[a].reading
HeldOK == \A a \in Actor, b \in Buf : (held[b] = a) <=> Holds(a, b)

(* Which buffers exist: those remembered and the master buffer; a profiled
   thread's buffer is remembered, and so is what a dump still goes through. *)
Outside == {"none", "wrapper", "insert", "unprofiled", "freed"}
BufsOK ==
  /\ Master \in made /\ bufs \subseteq made
  /\ \A t \in Thread : perThread /\ pc[t] \notin Outside => t \in bufs
  /\ \A t \in Thread : pc[t] = "insert" => t \in made
  /\ \A t \in Thread : pc[t] \in Merging => perThread
  /\ \A a \in Actor : pc[a] \in {"walk", "read"} =>
       dump[a].left \subseteq bufs \cup {Master}
  /\ \A a \in Actor : pc[a] = "read" => dump[a].reading \in dump[a].left
  /\ \A a \in Dumper : pc[a] \in {"idle", "dump", "walk", "read", "written"}

IInv == Types /\ BigOK /\ HeldOK /\ BufsOK

-----------------------------------------------------------------------------
(* The invariant holds when the profiler has been initialised. *)
LEMMA InitOK == Init => IInv
<1> SUFFICES ASSUME Init PROVE IInv
  OBVIOUS
<1>1. None \in [Thread -> Nat] /\ NoDump \in Dump
  BY DEF None, NoDump, Dump
<1>2. Types
  <2>1. bufs \in SUBSET Thread /\ made \in SUBSET Buf
    BY ThreadAssumption DEF Init, Buf
  <2>2. pc \in [Actor -> Place] /\ dump \in [Actor -> Dump]
    BY <1>1 DEF Init, Place, Quiet
  <2>3. content \in [Buf -> [Thread -> Nat]] /\ taken \in [Thread -> Nat]
    BY <1>1 DEF Init, Buf
  <2>4. held \in [Buf -> Actor \cup {Nobody}]
    BY DEF Init, Buf
  <2>5. /\ activated \in BOOLEAN /\ enabled \in Int /\ perThread \in BOOLEAN
        /\ exiting \in Thread \cup {Nobody} /\ big \in Actor \cup {Nobody}
    BY DEF Init
  <2> QED
    BY <2>1, <2>2, <2>3, <2>4, <2>5 DEF Types
<1>3. \A a \in Actor : pc[a] \in {"running", "none", "idle"}
  BY DEF Init
<1>4. BigOK
  BY <1>3, ThreadAssumption DEF Init, BigOK, BigPlaces, Merging, Actor
<1>5. HeldOK
  BY <1>3, ThreadAssumption DEF Init, HeldOK, Holds, Buf, Actor
<1>6. BufsOK
  <2>1. \A t \in Thread : pc[t] = "running" <=> t = Main
    BY DEF Init, Actor
  <2>2. \A t \in Thread : pc[t] \in {"running", "none"}
    BY DEF Init, Actor
  <2>3. \A a \in Dumper : pc[a] = "idle"
    BY ThreadAssumption DEF Init, Actor
  <2> QED
    BY <1>3, <2>1, <2>2, <2>3 DEF Init, BufsOK, Outside, Merging
<1> QED
  BY <1>2, <1>4, <1>5, <1>6 DEF IInv

(* An actor that goes from one place to another leaves the others where they
   are. *)
LEMMA GoOK ==
  ASSUME Types, NEW a \in Actor, NEW to \in Place, Go(a, to)
  PROVE  /\ pc'[a] = to
         /\ \A c \in Actor : c # a => pc'[c] = pc[c]
         /\ pc' \in [Actor -> Place]
BY DEF Types, Go

(* s_buflock stays with who had it, is taken when free, or is released by who
   held it. *)
LEMMA BigStep ==
  ASSUME Types, BigOK, NEW a \in Actor, NEW to \in Place, Go(a, to),
         \/ big' = big /\ (to \in BigPlaces <=> pc[a] \in BigPlaces)
         \/ big = Nobody /\ big' = a /\ to \in BigPlaces
         \/ big' = Nobody /\ pc[a] \in BigPlaces /\ to \notin BigPlaces
  PROVE  BigOK'
<1> SUFFICES ASSUME NEW c \in Actor PROVE (big' = c) <=> (pc'[c] \in BigPlaces)
  BY DEF BigOK
<1>1. pc'[a] = to /\ (c # a => pc'[c] = pc[c])
  BY GoOK
<1>2. c # Nobody /\ a # Nobody
  BY ThreadAssumption DEF Actor
<1>3. /\ (big = c) <=> (pc[c] \in BigPlaces)
      /\ (big = a) <=> (pc[a] \in BigPlaces)
  BY DEF BigOK
<1> QED
  BY <1>1, <1>2, <1>3

(* The lock of a buffer changes hands only between nobody and the one that
   moves, who then holds exactly what its new place says. *)
LEMMA HeldStep ==
  ASSUME Types, HeldOK, NEW a \in Actor, NEW to \in Place, Go(a, to),
         UNCHANGED perThread,
         \A c \in Actor : c # a => dump'[c] = dump[c],
         \A b \in Buf : \/ held'[b] = held[b]
                        \/ held[b] \in {a, Nobody} /\ held'[b] \in {a, Nobody},
         \A b \in Buf : (held'[b] = a) <=> Holds(a, b)'
  PROVE  HeldOK'
<1> SUFFICES ASSUME NEW c \in Actor, NEW b \in Buf, c # a
             PROVE  (held'[b] = c) <=> Holds(c, b)'
  BY DEF HeldOK
<1>1. pc'[c] = pc[c] /\ dump'[c] = dump[c]
  BY GoOK
<1>2. Holds(c, b)' <=> Holds(c, b)
  BY <1>1 DEF Holds, Own
<1>3. c # Nobody
  BY ThreadAssumption DEF Actor
<1>4. (held[b] = c) <=> Holds(c, b)
  BY DEF HeldOK
<1> QED
  BY <1>2, <1>3, <1>4

(* A step that leaves the buffers and the dumps alone keeps what is known of
   them, if its new place asks for no more than its old one. *)
LEMMA BufsStep ==
  ASSUME Types, BufsOK, NEW a \in Actor, NEW to \in Place, Go(a, to),
         UNCHANGED <<perThread, bufs, made, dump>>,
         perThread /\ pc[a] \in Outside => to \in Outside,
         to \in Merging => perThread,
         to \notin {"insert", "walk", "read"},
         a \in Dumper => to \in {"idle", "dump", "written"}
  PROVE  BufsOK'
<1>1. pc'[a] = to /\ (\A c \in Actor : c # a => pc'[c] = pc[c])
  BY GoOK
<1>2. Master \in made' /\ bufs' \subseteq made'
  BY DEF BufsOK
<1>3. ASSUME NEW t \in Thread
      PROVE  /\ perThread' /\ pc'[t] \notin Outside => t \in bufs'
             /\ pc'[t] = "insert" => t \in made'
             /\ pc'[t] \in Merging => perThread'
  <2>1. t \in Actor
    BY DEF Actor
  <2>2. CASE t = a
    BY <1>1, <2>1, <2>2 DEF BufsOK
  <2>3. CASE t # a
    BY <1>1, <2>1, <2>3 DEF BufsOK
  <2> QED
    BY <2>2, <2>3
<1>4. ASSUME NEW c \in Actor
      PROVE  /\ pc'[c] \in {"walk", "read"} =>
                  dump'[c].left \subseteq bufs' \cup {Master}
             /\ pc'[c] = "read" => dump'[c].reading \in dump'[c].left
  BY <1>1 DEF BufsOK
<1>5. ASSUME NEW c \in Dumper
      PROVE  pc'[c] \in {"idle", "dump", "walk", "read", "written"}
  BY <1>1 DEF BufsOK, Actor
<1> QED
  BY <1>2, <1>3, <1>4, <1>5 DEF BufsOK

(* A step from a place without locks to another one, that leaves all but the
   flags alone. *)
Quietly(a, from, to) ==
  /\ pc[a] = from
  /\ Go(a, to)
  /\ activated' \in BOOLEAN /\ enabled' \in Int
  /\ exiting' \in Thread \cup {Nobody}
  /\ UNCHANGED <<perThread, bufs, made, content, big, held, dump, taken>>

(* Such a step keeps the invariant. *)
LEMMA QuietOK ==
  ASSUME IInv, NEW a \in Actor, NEW from \in Quiet, NEW to \in Quiet,
         Quietly(a, from, to),
         from \in Outside => to \in Outside,
         a \in Dumper => to \in {"idle", "dump"}
  PROVE  IInv'
<1>1. to \in Place /\ Go(a, to)
  BY DEF Quietly, Place
<1>2. pc'[a] = to /\ pc' \in [Actor -> Place]
  BY <1>1, GoOK DEF IInv
<1>3. Types'
  BY <1>2 DEF IInv, Types, Quietly
<1>4. BigOK'
  <2>1. to \notin BigPlaces /\ pc[a] \notin BigPlaces
    BY DEF Quietly, BigPlaces, Merging, Quiet
  <2> QED
    BY <1>1, <2>1, BigStep DEF IInv, Quietly
<1>5. HeldOK'
  <2>1. ASSUME NEW b \in Buf PROVE ~ Holds(a, b) /\ ~ Holds(a, b)'
    BY <1>2 DEF Holds, Quietly, Quiet
  <2>2. \A b \in Buf : (held'[b] = a) <=> Holds(a, b)'
    BY <2>1 DEF IInv, HeldOK, Quietly
  <2> QED
    BY <1>1, <2>2, HeldStep DEF IInv, Quietly
<1>6. BufsOK'
  <2>1. to \notin Merging /\ to \notin {"insert", "walk", "read"}
    BY DEF Quiet, Merging
  <2> QED
    BY <1>1, <2>1, BufsStep DEF IInv, Quietly
<1> QED
  BY <1>3, <1>4, <1>5, <1>6 DEF IInv

(* The steps that only move an actor between places without locks, or change
   a flag, keep the invariant. *)
LEMMA QuietSteps ==
  ASSUME IInv, NEW a \in Actor,
         \/ a \in Thread /\ \/ Create(a) \/ WrapLate(a) \/ SampleBegin(a)
                            \/ SampleBuffer(a) \/ Leave(a) \/ Kill(a)
                            \/ KillDisable(a) \/ KillEnable(a) \/ Exit(a)
                            \/ ExitDeactivate(a) \/ ExitDisable(a)
         \/ DumpNow(a) \/ DumpFails(a)
  PROVE  IInv'
<1>1. a \in Thread => a \notin Dumper
  BY ThreadAssumption
<1>2. /\ activated \in BOOLEAN /\ enabled \in Int
      /\ exiting \in Thread \cup {Nobody}
      /\ enabled - 1 \in Int /\ enabled + 1 \in Int /\ 0 \in Int
  BY DEF IInv, Types
<1>3. ASSUME a \in Thread, Create(a) PROVE IInv'
  <2>1. Quietly(a, "none", "wrapper")
    BY <1>2, <1>3 DEF Create, Quietly, At, flags, buffers, locks, history
  <2> QED
    BY <1>1, <1>3, <2>1, QuietOK DEF Quiet, Outside
<1>4. ASSUME a \in Thread, WrapLate(a) PROVE IInv'
  <2>1. Quietly(a, "wrapper", "unprofiled")
    BY <1>2, <1>4 DEF WrapLate, Quietly, At, flags, buffers, locks, history
  <2> QED
    BY <1>1, <1>4, <2>1, QuietOK DEF Quiet, Outside
<1>5. ASSUME a \in Thread, SampleBegin(a) PROVE IInv'
  <2>1. Quietly(a, "running", "handler")
    BY <1>2, <1>5 DEF SampleBegin, Quietly, At, flags, buffers, locks, history
  <2> QED
    BY <1>1, <1>5, <2>1, QuietOK DEF Quiet, Outside
<1>6. ASSUME a \in Thread, SampleBuffer(a) PROVE IInv'
  <2> DEFINE to == IF activated THEN "sample" ELSE "running"
  <2>1. Quietly(a, "handler", to)
    BY <1>2, <1>6 DEF SampleBuffer, Quietly, At, flags, buffers, locks, history
  <2>2. to \in {"sample", "running"}
    OBVIOUS
  <2>3. to \in Quiet /\ "handler" \in Quiet /\ "handler" \notin Outside
    BY <2>2 DEF Quiet, Outside
  <2> HIDE DEF to
  <2> QED
    BY <1>1, <1>6, <2>1, <2>3, QuietOK
<1>7. ASSUME a \in Thread, Leave(a) PROVE IInv'
  <2>1. Quietly(a, "running", "free")
    BY <1>2, <1>7 DEF Leave, Quietly, At, flags, buffers, locks, history
  <2> QED
    BY <1>1, <1>7, <2>1, QuietOK DEF Quiet, Outside
<1>8. ASSUME a \in Thread, Kill(a) PROVE IInv'
  <2>1. Quietly(a, "running", "kill")
    BY <1>2, <1>8 DEF Kill, Quietly, At, flags, buffers, locks, history
  <2> QED
    BY <1>1, <1>8, <2>1, QuietOK DEF Quiet, Outside
<1>9. ASSUME a \in Thread, KillDisable(a) PROVE IInv'
  <2>1. Quietly(a, "kill", "dump")
    BY <1>2, <1>9 DEF KillDisable, Quietly, At, flags, buffers, locks, history
  <2> QED
    BY <1>1, <1>9, <2>1, QuietOK DEF Quiet, Outside
<1>10. ASSUME a \in Thread, KillEnable(a) PROVE IInv'
  <2>1. Quietly(a, "killed", "running")
    BY <1>2, <1>10 DEF KillEnable, Quietly, At, flags, buffers, locks, history
  <2> QED
    BY <1>1, <1>10, <2>1, QuietOK DEF Quiet, Outside
<1>11. ASSUME a \in Thread, Exit(a) PROVE IInv'
  <2>1. Quietly(a, "running", "exit")
    BY <1>2, <1>11 DEF Exit, Quietly, At, flags, buffers, locks, history
  <2> QED
    BY <1>1, <1>11, <2>1, QuietOK DEF Quiet, Outside
<1>12. ASSUME a \in Thread, ExitDeactivate(a) PROVE IInv'
  <2>1. Quietly(a, "exit", "exit disable")
    BY <1>2, <1>12 DEF ExitDeactivate, Quietly, At, flags, buffers, locks, history
  <2> QED
    BY <1>1, <1>12, <2>1, QuietOK DEF Quiet, Outside
<1>13. ASSUME a \in Thread, ExitDisable(a) PROVE IInv'
  <2>1. Quietly(a, "exit disable", "dump")
    BY <1>2, <1>13 DEF ExitDisable, Quietly, At, flags, buffers, locks, history
  <2> QED
    BY <1>1, <1>13, <2>1, QuietOK DEF Quiet, Outside
<1>14. ASSUME DumpNow(a) PROVE IInv'
  <2>1. Quietly(a, "idle", "dump")
    BY <1>2, <1>14 DEF DumpNow, Quietly, At, flags, buffers, locks, history
  <2> QED
    BY <1>1, <1>14, <2>1, QuietOK DEF Quiet, Outside
<1>15. ASSUME DumpFails(a) PROVE IInv'
  <2> DEFINE to == Return(a)
  <2>1. Quietly(a, "dump", to)
    BY <1>2, <1>15 DEF DumpFails, Quietly, At, flags, buffers, locks, history
  <2>2. to \in {"idle", "over", "killed"} /\ (a \in Dumper => to = "idle")
    BY DEF Return
  <2>3. to \in Quiet /\ "dump" \in Quiet /\ "dump" \notin Outside
    BY <2>2 DEF Quiet, Outside
  <2> HIDE DEF to
  <2> QED
    BY <1>1, <2>1, <2>2, <2>3, QuietOK
<1> QED
  BY <1>3, <1>4, <1>5, <1>6, <1>7, <1>8, <1>9, <1>10, <1>11, <1>12, <1>13, <1>14, <1>15

(* A step that leaves the flags, the set of buffers and the dumps alone. *)
Locally(a, from, to) ==
  /\ pc[a] = from
  /\ Go(a, to)
  /\ UNCHANGED <<flags, bufs, made, dump>>

(* Locking and unlocking around a sample, a merge or the end of a thread keeps
   the invariant, if the locks change as the two places say. *)
LEMMA LocalOK ==
  ASSUME IInv, NEW a \in Thread, NEW from \in Place, NEW to \in Place,
         Locally(a, from, to),
         content' \in [Buf -> [Thread -> Nat]], taken' \in [Thread -> Nat],
         held' \in [Buf -> Actor \cup {Nobody}],
         big' \in Actor \cup {Nobody},
         perThread /\ from \in Outside => to \in Outside,
         to \in Merging => perThread,
         to \notin {"insert", "walk", "read"},
         \/ big' = big /\ (to \in BigPlaces <=> from \in BigPlaces)
         \/ big = Nobody /\ big' = a /\ to \in BigPlaces
         \/ big' = Nobody /\ from \in BigPlaces /\ to \notin BigPlaces,
         \A b \in Buf : \/ held'[b] = held[b]
                        \/ held[b] \in {a, Nobody} /\ held'[b] \in {a, Nobody},
         \A b \in Buf : (held'[b] = a) <=> Holds(a, b)'
  PROVE  IInv'
<1>1. a \in Actor /\ a \notin Dumper /\ Go(a, to)
  BY ThreadAssumption DEF Actor, Locally
<1>2. pc'[a] = to /\ pc' \in [Actor -> Place]
  BY <1>1, GoOK DEF IInv
<1>3. Types'
  BY <1>2 DEF IInv, Types, Locally, flags
<1>4. BigOK'
  BY <1>1, BigStep DEF IInv, Locally
<1>5. HeldOK'
  BY <1>1, HeldStep DEF IInv, Locally, flags
<1>6. BufsOK'
  BY <1>1, BufsStep DEF IInv, Locally, flags
<1> QED
  BY <1>3, <1>4, <1>5, <1>6 DEF IInv

(* A sample locks the buffer that the thread then pushes into. *)
LEMMA SampleOK ==
  ASSUME IInv, NEW a \in Thread, SampleLock(a) \/ SampleRecord(a)
  PROVE  IInv'
<1>1. a \in Actor /\ Own(a) \in Buf /\ a # Nobody
  BY ThreadAssumption DEF Actor, Own, Buf
<1>2. /\ held \in [Buf -> Actor \cup {Nobody}] /\ big \in Actor \cup {Nobody}
      /\ content \in [Buf -> [Thread -> Nat]] /\ taken \in [Thread -> Nat]
  BY DEF IInv, Types
<1>3. \A b \in Buf : (held[b] = a) <=> Holds(a, b)
  BY <1>1 DEF IInv, HeldOK
<1>4. CASE SampleLock(a)
  <2>1. /\ Locally(a, "sample", "push")
        /\ held[Own(a)] = Nobody /\ held' = [held EXCEPT ![Own(a)] = a]
        /\ UNCHANGED <<content, taken, big>>
    BY <1>4 DEF SampleLock, Locally, At, flags, buffers, history
  <2>2. pc'[a] = "push"
    BY <1>1, <2>1, GoOK DEF Locally, Place, IInv
  <2>3. /\ held' \in [Buf -> Actor \cup {Nobody}] /\ held'[Own(a)] = a
        /\ \A b \in Buf : b # Own(a) => held'[b] = held[b]
    BY <1>1, <1>2, <2>1
  <2>4. \A b \in Buf : (held'[b] = a) <=> Holds(a, b)'
    <3> SUFFICES ASSUME NEW b \in Buf PROVE (held'[b] = a) <=> b = Own(a)
      BY <2>1, <2>2 DEF Holds, Own, Locally, flags
    <3>1. ~ Holds(a, b)
      BY <2>1 DEF Holds, Locally
    <3> QED
      BY <1>3, <2>3, <3>1
  <2>5. \A b \in Buf : \/ held'[b] = held[b]
                       \/ held[b] \in {a, Nobody} /\ held'[b] \in {a, Nobody}
    BY <2>1, <2>3
  <2> QED
    BY <1>2, <2>1, <2>3, <2>4, <2>5, LocalOK
       DEF Outside, Merging, BigPlaces, Place, Quiet
<1>5. CASE SampleRecord(a)
  <2>1. /\ Locally(a, "push", "running")
        /\ held' = [held EXCEPT ![Own(a)] = Nobody]
        /\ content' = [content EXCEPT ![Own(a)][a] = @ + 1]
        /\ taken' = [taken EXCEPT ![a] = @ + 1]
        /\ UNCHANGED big
    BY <1>5 DEF SampleRecord, Locally, At, flags
  <2>2. pc'[a] = "running"
    BY <1>1, <2>1, GoOK DEF Locally, Place, Quiet, IInv
  <2>3. /\ held' \in [Buf -> Actor \cup {Nobody}] /\ held'[Own(a)] = Nobody
        /\ \A b \in Buf : b # Own(a) => held'[b] = held[b]
    BY <1>1, <1>2, <2>1
  <2>4. held[Own(a)] = a /\ \A b \in Buf : b # Own(a) => held[b] # a
    <3>1. \A b \in Buf : Holds(a, b) <=> b = Own(a)
      BY <2>1 DEF Holds, Locally
    <3> QED
      BY <1>1, <1>3, <3>1
  <2>5. \A b \in Buf : (held'[b] = a) <=> Holds(a, b)'
    <3>1. \A b \in Buf : ~ Holds(a, b)'
      BY <2>2 DEF Holds
    <3> QED
      BY <1>1, <2>3, <2>4, <3>1
  <2>6. content' \in [Buf -> [Thread -> Nat]] /\ taken' \in [Thread -> Nat]
    BY <1>1, <1>2, <2>1
  <2>7. \A b \in Buf : \/ held'[b] = held[b]
                       \/ held[b] \in {a, Nobody} /\ held'[b] \in {a, Nobody}
    BY <2>3, <2>4
  <2> QED
    BY <1>2, <2>1, <2>3, <2>5, <2>6, <2>7, LocalOK
       DEF Outside, Merging, BigPlaces, Place, Quiet
<1> QED
  BY <1>4, <1>5

(* The end of a thread takes s_buflock, and gives it back. *)
LEMMA FreeOK ==
  ASSUME IInv, NEW a \in Thread, FreeLock(a) \/ FreeUnlock(a)
  PROVE  IInv'
<1>1. a \in Actor
  BY DEF Actor
<1>2. /\ held \in [Buf -> Actor \cup {Nobody}] /\ big \in Actor \cup {Nobody}
      /\ content \in [Buf -> [Thread -> Nat]] /\ taken \in [Thread -> Nat]
  BY DEF IInv, Types
<1>3. \A b \in Buf : (held[b] = a) <=> Holds(a, b)
  BY <1>1 DEF IInv, HeldOK
<1>4. CASE FreeLock(a)
  <2> DEFINE to == IF perThread THEN "merge" ELSE "freed"
  <2>1. /\ Locally(a, "free", to) /\ big = Nobody /\ big' = a
        /\ UNCHANGED <<content, taken, held>>
    BY <1>4 DEF FreeLock, Locally, At, flags, buffers, history
  <2>2. /\ to \in {"merge", "freed"} /\ (to = "merge" => perThread)
        /\ to \in Place /\ to \in BigPlaces
    BY DEF Place, BigPlaces, Merging
  <2> HIDE DEF to
  <2>3. pc'[a] = to
    BY <1>1, <2>1, <2>2, GoOK DEF Locally, IInv
  <2>4. \A b \in Buf : (held'[b] = a) <=> Holds(a, b)'
    <3>1. \A b \in Buf : ~ Holds(a, b)' /\ ~ Holds(a, b)
      BY <2>1, <2>2, <2>3 DEF Holds, Locally
    <3> QED
      BY <1>3, <2>1, <3>1
  <2> QED
    BY <1>1, <1>2, <2>1, <2>2, <2>4, LocalOK DEF Outside, Merging, Place, Quiet
<1>5. CASE FreeUnlock(a)
  <2>1. /\ Locally(a, "freed", "none") /\ big' = Nobody
        /\ UNCHANGED <<content, taken, held>>
    BY <1>5 DEF FreeUnlock, Locally, At, flags, buffers, history
  <2>2. pc'[a] = "none"
    BY <1>1, <2>1, GoOK DEF Locally, IInv, Place, Quiet
  <2>3. \A b \in Buf : (held'[b] = a) <=> Holds(a, b)'
    <3>1. \A b \in Buf : ~ Holds(a, b)' /\ ~ Holds(a, b)
      BY <2>1, <2>2 DEF Holds, Locally
    <3> QED
      BY <1>3, <2>1, <3>1
  <2> QED
    BY <1>1, <1>2, <2>1, <2>3, LocalOK
       DEF Outside, BigPlaces, Merging, Place, Quiet
<1> QED
  BY <1>4, <1>5

(* A merge locks the master buffer and the thread's own, and releases both. *)
LEMMA MergeOK ==
  ASSUME IInv, NEW a \in Thread,
         MergeLockMaster(a) \/ MergeLockOther(a) \/ MergeTree(a)
  PROVE  IInv'
<1>1. /\ a \in Actor /\ a # Nobody /\ a \in Buf /\ Master \in Buf
      /\ a # Master
  BY ThreadAssumption DEF Actor, Buf
<1>2. /\ held \in [Buf -> Actor \cup {Nobody}] /\ big \in Actor \cup {Nobody}
      /\ content \in [Buf -> [Thread -> Nat]] /\ taken \in [Thread -> Nat]
  BY DEF IInv, Types
<1>3. \A b \in Buf : (held[b] = a) <=> Holds(a, b)
  BY <1>1 DEF IInv, HeldOK
<1>4. pc[a] \in Merging => perThread
  BY DEF IInv, BufsOK
<1>5. CASE MergeLockMaster(a)
  <2>1. /\ Locally(a, "merge", "merge other")
        /\ held[Master] = Nobody /\ held' = [held EXCEPT ![Master] = a]
        /\ UNCHANGED <<content, taken, big>>
    BY <1>5 DEF MergeLockMaster, Locally, At, flags, buffers, history
  <2>2. pc'[a] = "merge other"
    BY <1>1, <2>1, GoOK DEF Locally, Place, Merging, IInv
  <2>3. /\ held' \in [Buf -> Actor \cup {Nobody}] /\ held'[Master] = a
        /\ \A b \in Buf : b # Master => held'[b] = held[b]
    BY <1>1, <1>2, <2>1
  <2>4. \A b \in Buf : (held'[b] = a) <=> Holds(a, b)'
    <3> SUFFICES ASSUME NEW b \in Buf PROVE (held'[b] = a) <=> b = Master
      BY <2>2 DEF Holds
    <3>1. ~ Holds(a, b)
      BY <2>1 DEF Holds, Locally
    <3> QED
      BY <1>3, <2>3, <3>1
  <2>5. \A b \in Buf : \/ held'[b] = held[b]
                       \/ held[b] \in {a, Nobody} /\ held'[b] \in {a, Nobody}
    BY <2>1, <2>3
  <2>6. perThread
    BY <1>4, <2>1 DEF Locally, Merging
  <2> QED
    BY <1>2, <2>1, <2>3, <2>4, <2>5, <2>6, LocalOK
       DEF Outside, Merging, BigPlaces, Place
<1>6. CASE MergeLockOther(a)
  <2>1. /\ Locally(a, "merge other", "merge tree")
        /\ held[a] = Nobody /\ held' = [held EXCEPT ![a] = a]
        /\ UNCHANGED <<content, taken, big>>
    BY <1>6 DEF MergeLockOther, Locally, At, flags, buffers, history
  <2>2. pc'[a] = "merge tree"
    BY <1>1, <2>1, GoOK DEF Locally, Place, Merging, IInv
  <2>3. /\ held' \in [Buf -> Actor \cup {Nobody}] /\ held'[a] = a
        /\ \A b \in Buf : b # a => held'[b] = held[b]
    BY <1>1, <1>2, <2>1
  <2>4. \A b \in Buf : (held'[b] = a) <=> Holds(a, b)'
    <3> SUFFICES ASSUME NEW b \in Buf
                 PROVE  (held'[b] = a) <=> (b = Master \/ b = a)
      BY <2>2 DEF Holds
    <3>1. Holds(a, b) <=> b = Master
      BY <2>1 DEF Holds, Locally
    <3> QED
      BY <1>3, <2>3, <3>1
  <2>5. \A b \in Buf : \/ held'[b] = held[b]
                       \/ held[b] \in {a, Nobody} /\ held'[b] \in {a, Nobody}
    BY <2>1, <2>3
  <2>6. perThread
    BY <1>4, <2>1 DEF Locally, Merging
  <2> QED
    BY <1>2, <2>1, <2>3, <2>4, <2>5, <2>6, LocalOK
       DEF Outside, Merging, BigPlaces, Place
<1>7. CASE MergeTree(a)
  <2>1. /\ Locally(a, "merge tree", "erase")
        /\ held' = [held EXCEPT ![a] = Nobody, ![Master] = Nobody]
        /\ content' = [content EXCEPT ![Master] = Plus(@, content[a])]
        /\ UNCHANGED <<taken, big>>
    BY <1>7 DEF MergeTree, Locally, At, flags, history
  <2>2. pc'[a] = "erase"
    BY <1>1, <2>1, GoOK DEF Locally, Place, Merging, IInv
  <2>3. /\ held' \in [Buf -> Actor \cup {Nobody}]
        /\ held'[a] = Nobody /\ held'[Master] = Nobody
        /\ \A b \in Buf : b # a /\ b # Master => held'[b] = held[b]
    BY <1>1, <1>2, <2>1
  <2>4. \A b \in Buf : (held[b] = a) <=> (b = Master \/ b = a)
    <3>1. \A b \in Buf : Holds(a, b) <=> (b = Master \/ b = a)
      BY <2>1 DEF Holds, Locally
    <3> QED
      BY <1>3, <3>1
  <2>5. \A b \in Buf : (held'[b] = a) <=> Holds(a, b)'
    <3>1. \A b \in Buf : ~ Holds(a, b)'
      BY <2>2 DEF Holds
    <3> QED
      BY <1>1, <2>3, <2>4, <3>1
  <2>6. content' \in [Buf -> [Thread -> Nat]]
    <3>1. Plus(content[Master], content[a]) \in [Thread -> Nat]
      BY <1>1, <1>2 DEF Plus
    <3> QED
      BY <1>1, <1>2, <2>1, <3>1
  <2>7. \A b \in Buf : \/ held'[b] = held[b]
                       \/ held[b] \in {a, Nobody} /\ held'[b] \in {a, Nobody}
    BY <1>1, <2>3, <2>4
  <2>8. perThread
    BY <1>4, <2>1 DEF Locally, Merging
  <2> QED
    BY <1>2, <2>1, <2>3, <2>5, <2>6, <2>7, <2>8, LocalOK
       DEF Outside, Merging, BigPlaces, Place
<1> QED
  BY <1>5, <1>6, <1>7

(* A new thread's buffer exists before it is remembered. *)
LEMMA WrapOK == ASSUME IInv, NEW a \in Thread, Wrap(a) PROVE IInv'
<1> DEFINE to == IF perThread THEN "insert" ELSE "running"
<1> DEFINE own == IF perThread THEN {a} ELSE {}
<1>1. /\ pc[a] = "wrapper" /\ Go(a, to) /\ made' = made \cup own
      /\ content' = [b \in DOMAIN content |->
                       IF b \in own THEN None ELSE content[b]]
      /\ UNCHANGED <<flags, bufs, locks, dump, history>>
  BY DEF Wrap, At
<1>2. /\ to \in {"insert", "running"} /\ (to = "insert" <=> perThread)
      /\ own \subseteq {a} /\ (perThread => a \in own)
  OBVIOUS
<1> HIDE DEF to, own
<1>3. a \in Actor /\ a \in Buf /\ a \notin Dumper
  BY ThreadAssumption DEF Actor, Buf
<1>4. to \in Place /\ to \notin BigPlaces
  BY <1>2 DEF Place, Quiet, BigPlaces, Merging
<1>5. pc'[a] = to /\ pc' \in [Actor -> Place]
      /\ \A c \in Actor : c # a => pc'[c] = pc[c]
  BY <1>1, <1>3, <1>4, GoOK DEF IInv
<1>6. Types'
  <2>1. made' \in SUBSET Buf
    BY <1>1, <1>2, <1>3 DEF IInv, Types
  <2>2. content' \in [Buf -> [Thread -> Nat]]
    <3>1. content \in [Buf -> [Thread -> Nat]] /\ None \in [Thread -> Nat]
      BY DEF IInv, Types, None
    <3> QED
      BY <1>1, <3>1
  <2> QED
    BY <1>1, <1>5, <2>1, <2>2 DEF IInv, Types, flags, locks, history
<1>7. BigOK'
  <2>1. pc[a] \notin BigPlaces
    BY <1>1 DEF BigPlaces, Merging
  <2> QED
    BY <1>1, <1>3, <1>4, <2>1, BigStep DEF IInv, locks
<1>8. HeldOK'
  <2>1. \A b \in Buf : ~ Holds(a, b) /\ ~ Holds(a, b)'
    BY <1>1, <1>2, <1>5 DEF Holds
  <2>2. \A b \in Buf : (held'[b] = a) <=> Holds(a, b)'
    BY <1>1, <1>3, <2>1 DEF IInv, HeldOK, locks
  <2> QED
    BY <1>1, <1>3, <1>4, <2>2, HeldStep DEF IInv, locks, flags
<1>9. BufsOK'
  <2>1. /\ bufs' = bufs /\ dump' = dump /\ perThread' = perThread
        /\ made \subseteq made' /\ (perThread => a \in made')
    BY <1>1, <1>2 DEF flags
  <2>2. ASSUME NEW t \in Thread
        PROVE  /\ perThread' /\ pc'[t] \notin Outside => t \in bufs'
               /\ pc'[t] = "insert" => t \in made'
               /\ pc'[t] \in Merging => perThread'
    <3>1. CASE t = a
      BY <1>2, <1>5, <2>1, <3>1 DEF Outside, Merging
    <3>2. CASE t # a
      BY <1>5, <2>1, <3>2 DEF IInv, BufsOK, Actor
    <3> QED
      BY <3>1, <3>2
  <2>3. ASSUME NEW c \in Actor
        PROVE  /\ pc'[c] \in {"walk", "read"} =>
                    dump'[c].left \subseteq bufs' \cup {Master}
               /\ pc'[c] = "read" => dump'[c].reading \in dump'[c].left
    BY <1>2, <1>5, <2>1 DEF IInv, BufsOK
  <2>4. ASSUME NEW c \in Dumper
        PROVE  pc'[c] \in {"idle", "dump", "walk", "read", "written"}
    BY <1>3, <1>5 DEF IInv, BufsOK, Actor
  <2>5. Master \in made' /\ bufs' \subseteq made'
    BY <2>1 DEF IInv, BufsOK
  <2> QED
    BY <2>2, <2>3, <2>4, <2>5 DEF BufsOK
<1> QED
  BY <1>6, <1>7, <1>8, <1>9 DEF IInv

(* A buffer that is remembered exists. *)
LEMMA InsertOK == ASSUME IInv, NEW a \in Thread, Insert(a) PROVE IInv'
<1>1. /\ pc[a] = "insert" /\ Go(a, "running") /\ bufs' = bufs \cup {a}
      /\ UNCHANGED <<flags, made, content, locks, dump, history>>
  BY DEF Insert, At
<1>2. a \in Actor /\ a \notin Dumper
  BY ThreadAssumption DEF Actor
<1>3. "running" \in Place /\ "running" \notin BigPlaces
  BY DEF Place, Quiet, BigPlaces, Merging
<1>4. pc'[a] = "running" /\ pc' \in [Actor -> Place]
      /\ \A c \in Actor : c # a => pc'[c] = pc[c]
  BY <1>1, <1>2, <1>3, GoOK DEF IInv
<1>5. Types'
  BY <1>1, <1>4 DEF IInv, Types, flags, locks, history
<1>6. BigOK'
  <2>1. pc[a] \notin BigPlaces
    BY <1>1 DEF BigPlaces, Merging
  <2> QED
    BY <1>1, <1>2, <1>3, <2>1, BigStep DEF IInv, locks
<1>7. HeldOK'
  <2>1. \A b \in Buf : ~ Holds(a, b) /\ ~ Holds(a, b)'
    BY <1>1, <1>4 DEF Holds
  <2>2. \A b \in Buf : (held'[b] = a) <=> Holds(a, b)'
    BY <1>1, <1>2, <2>1 DEF IInv, HeldOK, locks
  <2> QED
    BY <1>1, <1>2, <1>3, <2>2, HeldStep DEF IInv, locks, flags
<1>8. BufsOK'
  <2>1. /\ made' = made /\ dump' = dump /\ perThread' = perThread
        /\ bufs \subseteq bufs' /\ a \in bufs' /\ a \in made
    BY <1>1 DEF flags, IInv, BufsOK
  <2>2. ASSUME NEW t \in Thread
        PROVE  /\ perThread' /\ pc'[t] \notin Outside => t \in bufs'
               /\ pc'[t] = "insert" => t \in made'
               /\ pc'[t] \in Merging => perThread'
    <3>1. CASE t = a
      BY <1>4, <2>1, <3>1 DEF Outside, Merging
    <3>2. CASE t # a
      BY <1>4, <2>1, <3>2 DEF IInv, BufsOK, Actor
    <3> QED
      BY <3>1, <3>2
  <2>3. ASSUME NEW c \in Actor
        PROVE  /\ pc'[c] \in {"walk", "read"} =>
                    dump'[c].left \subseteq bufs' \cup {Master}
               /\ pc'[c] = "read" => dump'[c].reading \in dump'[c].left
    BY <1>4, <2>1 DEF IInv, BufsOK
  <2>4. ASSUME NEW c \in Dumper
        PROVE  pc'[c] \in {"idle", "dump", "walk", "read", "written"}
    BY <1>2, <1>4 DEF IInv, BufsOK, Actor
  <2>5. Master \in made' /\ bufs' \subseteq made'
    BY <1>1, <2>1 DEF IInv, BufsOK
  <2> QED
    BY <2>2, <2>3, <2>4, <2>5 DEF BufsOK
<1> QED
  BY <1>5, <1>6, <1>7, <1>8 DEF IInv

(* A buffer is deleted under s_buflock, when no dump goes through buffers. *)
LEMMA EraseOK == ASSUME IInv, NEW a \in Thread, Erase(a) PROVE IInv'
<1>1. /\ pc[a] = "erase" /\ Go(a, "freed")
      /\ bufs' = bufs \ {a} /\ made' = made \ {a}
      /\ UNCHANGED <<flags, content, locks, dump, history>>
  BY DEF Erase, At
<1>2. a \in Actor /\ a \notin Dumper /\ a # Master
  BY ThreadAssumption DEF Actor
<1>3. /\ "freed" \in Place /\ "freed" \in BigPlaces
      /\ "erase" \in BigPlaces
  BY DEF Place, BigPlaces, Merging
<1>4. pc'[a] = "freed" /\ pc' \in [Actor -> Place]
      /\ \A c \in Actor : c # a => pc'[c] = pc[c]
  BY <1>1, <1>2, <1>3, GoOK DEF IInv
<1>5. Types'
  BY <1>1, <1>4 DEF IInv, Types, flags, locks, history
<1>6. BigOK'
  BY <1>1, <1>2, <1>3, BigStep DEF IInv, locks
<1>7. HeldOK'
  <2>1. \A b \in Buf : ~ Holds(a, b) /\ ~ Holds(a, b)'
    BY <1>1, <1>4 DEF Holds
  <2>2. \A b \in Buf : (held'[b] = a) <=> Holds(a, b)'
    BY <1>1, <1>2, <2>1 DEF IInv, HeldOK, locks
  <2> QED
    BY <1>1, <1>2, <1>3, <2>2, HeldStep DEF IInv, locks, flags
<1>8. BufsOK'
  <2>1. dump' = dump /\ perThread' = perThread
    BY <1>1 DEF flags
  <2>2. ASSUME NEW t \in Thread
        PROVE  /\ perThread' /\ pc'[t] \notin Outside => t \in bufs'
               /\ pc'[t] = "insert" => t \in made'
               /\ pc'[t] \in Merging => perThread'
    <3>1. CASE t = a
      BY <1>4, <3>1 DEF Outside, Merging
    <3>2. CASE t # a
      BY <1>1, <1>4, <2>1, <3>2 DEF IInv, BufsOK, Actor
    <3> QED
      BY <3>1, <3>2
  <2>3. ASSUME NEW c \in Actor PROVE pc'[c] \notin {"walk", "read"}
    <3>1. CASE c = a
      BY <1>4, <3>1
    <3>2. CASE c # a
      <4>1. big = a /\ big # c
        BY <1>1, <1>2, <1>3, <3>2 DEF IInv, BigOK
      <4>2. pc[c] \notin BigPlaces
        BY <4>1 DEF IInv, BigOK
      <4> QED
        BY <1>4, <3>2, <4>2 DEF BigPlaces
    <3> QED
      BY <3>1, <3>2
  <2>4. ASSUME NEW c \in Dumper
        PROVE  pc'[c] \in {"idle", "dump", "walk", "read", "written"}
    BY <1>2, <1>4 DEF IInv, BufsOK, Actor
  <2>5. Master \in made' /\ bufs' \subseteq made'
    BY <1>1, <1>2 DEF IInv, BufsOK
  <2> QED
    BY <2>2, <2>3, <2>4, <2>5 DEF BufsOK
<1> QED
  BY <1>5, <1>6, <1>7, <1>8 DEF IInv

(* A dump in progress leaves the flags and the buffers alone, and the dumps of
   others. *)
Dumps(a, from, to, d) ==
  /\ pc[a] = from
  /\ Go(a, to)
  /\ dump' = [dump EXCEPT ![a] = d]
  /\ UNCHANGED <<flags, buffers, history>>

(* A step of a dump keeps the invariant, if the locks change as the two places
   say and what it still goes through is remembered. *)
LEMMA DumpStep ==
  ASSUME IInv, NEW a \in Actor, NEW from \in Place, NEW to \in Place,
         NEW d \in Dump, Dumps(a, from, to, d),
         held' \in [Buf -> Actor \cup {Nobody}],
         big' \in Actor \cup {Nobody},
         from \notin Outside, to \notin Merging \cup {"insert"},
         to \in {"walk", "read"} => d.left \subseteq bufs \cup {Master},
         to = "read" => d.reading \in d.left,
         a \in Dumper => to \in {"idle", "walk", "read", "written"},
         \/ big' = big /\ (to \in BigPlaces <=> from \in BigPlaces)
         \/ big = Nobody /\ big' = a /\ to \in BigPlaces
         \/ big' = Nobody /\ from \in BigPlaces /\ to \notin BigPlaces,
         \A b \in Buf : \/ held'[b] = held[b]
                        \/ held[b] \in {a, Nobody} /\ held'[b] \in {a, Nobody},
         \A b \in Buf : (held'[b] = a) <=> Holds(a, b)'
  PROVE  IInv'
<1>1. Go(a, to) /\ pc[a] = from
  BY DEF Dumps
<1>2. pc'[a] = to /\ pc' \in [Actor -> Place]
      /\ \A c \in Actor : c # a => pc'[c] = pc[c]
  BY <1>1, GoOK DEF IInv
<1>3. dump'[a] = d /\ dump' \in [Actor -> Dump]
      /\ \A c \in Actor : c # a => dump'[c] = dump[c]
  <2>1. dump \in [Actor -> Dump] /\ dump' = [dump EXCEPT ![a] = d]
    BY DEF IInv, Types, Dumps
  <2> QED
    BY <2>1
<1>4. Types'
  BY <1>2, <1>3 DEF IInv, Types, Dumps, flags, buffers, history
<1>5. BigOK'
  BY <1>1, BigStep DEF IInv
<1>6. HeldOK'
  BY <1>1, <1>3, HeldStep DEF IInv, Dumps, flags
<1>7. BufsOK'
  <2>1. bufs' = bufs /\ made' = made /\ perThread' = perThread
    BY DEF Dumps, flags, buffers
  <2>2. ASSUME NEW t \in Thread
        PROVE  /\ perThread' /\ pc'[t] \notin Outside => t \in bufs'
               /\ pc'[t] = "insert" => t \in made'
               /\ pc'[t] \in Merging => perThread'
    <3>1. t \in Actor
      BY DEF Actor
    <3>2. CASE t = a
      BY <1>1, <1>2, <2>1, <3>2 DEF IInv, BufsOK
    <3>3. CASE t # a
      BY <1>2, <2>1, <3>1, <3>3 DEF IInv, BufsOK
    <3> QED
      BY <3>2, <3>3
  <2>3. ASSUME NEW c \in Actor
        PROVE  /\ pc'[c] \in {"walk", "read"} =>
                    dump'[c].left \subseteq bufs' \cup {Master}
               /\ pc'[c] = "read" => dump'[c].reading \in dump'[c].left
    <3>1. CASE c = a
      BY <1>2, <1>3, <2>1, <3>1
    <3>2. CASE c # a
      BY <1>2, <1>3, <2>1, <3>2 DEF IInv, BufsOK
    <3> QED
      BY <3>1, <3>2
  <2>4. ASSUME NEW c \in Dumper
        PROVE  pc'[c] \in {"idle", "dump", "walk", "read", "written"}
    BY <1>2 DEF IInv, BufsOK, Actor
  <2>5. Master \in made' /\ bufs' \subseteq made'
    BY <2>1 DEF IInv, BufsOK
  <2> QED
    BY <2>2, <2>3, <2>4, <2>5 DEF BufsOK
<1> QED
  BY <1>4, <1>5, <1>6, <1>7 DEF IInv

(* A dump begins and ends with s_buflock. *)
LEMMA DumpLockOK == ASSUME IInv, NEW a \in Actor, DumpLock(a) PROVE IInv'
<1> DEFINE d == [left |-> bufs \cup {Master}, reading |-> Nobody,
                 seen |-> None, since |-> taken]
<1>1. /\ held \in [Buf -> Actor \cup {Nobody}] /\ bufs \subseteq Thread
      /\ taken \in [Thread -> Nat]
  BY DEF IInv, Types
<1>2. d \in Dump /\ d.left = bufs \cup {Master}
  BY <1>1 DEF Dump, Buf, None
<1>4. /\ Dumps(a, "dump", "walk", d) /\ big = Nobody /\ big' = a
      /\ held' = held
  BY DEF DumpLock, Dumps, At
<1> HIDE DEF d
<1>5. pc'[a] = "walk"
  BY <1>4, GoOK DEF Dumps, Place, IInv
<1>6. \A b \in Buf : (held'[b] = a) <=> Holds(a, b)'
  <2>1. \A b \in Buf : ~ Holds(a, b)' /\ ~ Holds(a, b)
    BY <1>4, <1>5 DEF Holds, Dumps
  <2> QED
    BY <1>4, <2>1 DEF IInv, HeldOK
<1> QED
  BY <1>1, <1>2, <1>4, <1>6, DumpStep
     DEF Outside, Merging, BigPlaces, Place, Quiet

(* A dump locks the buffer that it then reads, one that it has not read. *)
LEMMA DumpBufferOK ==
  ASSUME IInv, NEW a \in Actor, NEW b \in Buf, DumpBuffer(a, b)
  PROVE  IInv'
<1> DEFINE d == [left |-> dump[a].left, reading |-> b,
                 seen |-> dump[a].seen, since |-> dump[a].since]
<1>1. /\ held \in [Buf -> Actor \cup {Nobody}] /\ big \in Actor \cup {Nobody}
      /\ dump[a] \in Dump /\ a # Nobody
  BY ThreadAssumption DEF IInv, Types, Actor
<1>2. d \in Dump /\ d.left = dump[a].left /\ d.reading = b
  BY <1>1 DEF Dump
<1>3. d = [dump[a] EXCEPT !.reading = b]
  BY <1>1 DEF Dump
<1>4. /\ Dumps(a, "walk", "read", d) /\ big' = big
      /\ b \in dump[a].left /\ held[b] = Nobody
      /\ held' = [held EXCEPT ![b] = a]
  BY <1>3 DEF DumpBuffer, Dumps, At
<1> HIDE DEF d
<1>5. pc'[a] = "read" /\ dump'[a] = d /\ pc[a] = "walk"
  <2>1. dump \in [Actor -> Dump]
    BY DEF IInv, Types
  <2> QED
    BY <1>4, <2>1, GoOK DEF Dumps, Place, IInv
<1>6. /\ held' \in [Buf -> Actor \cup {Nobody}] /\ held'[b] = a
      /\ \A c \in Buf : c # b => held'[c] = held[c]
  BY <1>1, <1>4
<1>7. \A c \in Buf : (held'[c] = a) <=> Holds(a, c)'
  <2> SUFFICES ASSUME NEW c \in Buf PROVE (held'[c] = a) <=> c = b
    BY <1>2, <1>5 DEF Holds
  <2>1. held[c] # a
    BY <1>5 DEF IInv, HeldOK, Holds
  <2> QED
    BY <1>6, <2>1
<1>8. d.left \subseteq bufs \cup {Master}
  BY <1>2, <1>5 DEF IInv, BufsOK
<1>9. \A c \in Buf : \/ held'[c] = held[c]
                     \/ held[c] \in {a, Nobody} /\ held'[c] \in {a, Nobody}
  BY <1>4, <1>6
<1> QED
  BY <1>1, <1>2, <1>4, <1>6, <1>7, <1>8, <1>9, DumpStep
     DEF Outside, Merging, BigPlaces, Place

(* A buffer that has been read is released, and is not read again. *)
LEMMA DumpReadOK == ASSUME IInv, NEW a \in Actor, DumpRead(a) PROVE IInv'
<1> DEFINE b == dump[a].reading
           to == IF b = Master THEN "written" ELSE "walk"
           d == Seen(a)
<1>1. /\ held \in [Buf -> Actor \cup {Nobody}] /\ big \in Actor \cup {Nobody}
      /\ content \in [Buf -> [Thread -> Nat]]
      /\ dump \in [Actor -> Dump] /\ dump[a] \in Dump
      /\ pc[a] = "read" /\ a # Nobody
  BY ThreadAssumption DEF IInv, Types, Actor, DumpRead, At
<1>2. b \in dump[a].left /\ dump[a].left \subseteq bufs \cup {Master}
      /\ b \in Buf
  <2>1. b \in dump[a].left /\ dump[a].left \subseteq bufs \cup {Master}
    BY <1>1 DEF IInv, BufsOK
  <2> QED
    BY <1>1, <2>1 DEF Dump
<1>3. d \in Dump
  <2>1. Plus(dump[a].seen, content[b]) \in [Thread -> Nat]
    BY <1>1, <1>2 DEF Plus, Dump
  <2> QED
    BY <1>1, <2>1 DEF Dump, Seen
<1>5. Dumps(a, "read", to, d) /\ big' = big
      /\ held' = [held EXCEPT ![b] = Nobody]
  <2>1. /\ Go(a, to) /\ UNCHANGED <<flags, buffers, big, history>>
        /\ held' = [held EXCEPT ![b] = Nobody]
    BY DEF DumpRead
  <2>2. dump' = [dump EXCEPT ![a] = d]
    BY DEF DumpRead
  <2> QED
    BY <1>1, <2>1, <2>2 DEF Dumps
<1>6. to \in {"written", "walk"} /\ d.left \subseteq dump[a].left
  BY DEF Seen
<1>7. d.left \subseteq bufs \cup {Master}
  BY <1>2, <1>6
<1> HIDE DEF d, to, b
<1>8. to \in Place /\ to \in BigPlaces /\ to \notin Merging
  BY <1>6 DEF Place, BigPlaces, Merging
<1>9. pc'[a] = to
  BY <1>5, <1>8, GoOK DEF Dumps, IInv
<1>10. /\ held' \in [Buf -> Actor \cup {Nobody}] /\ held'[b] = Nobody
       /\ \A c \in Buf : c # b => held'[c] = held[c]
  BY <1>1, <1>2, <1>5
<1>11. \A c \in Buf : (held[c] = a) <=> c = b
  BY <1>1 DEF IInv, HeldOK, Holds, b
<1>12. \A c \in Buf : (held'[c] = a) <=> Holds(a, c)'
  <2>1. \A c \in Buf : ~ Holds(a, c)'
    BY <1>6, <1>9 DEF Holds
  <2> QED
    BY <1>1, <1>10, <1>11, <2>1
<1>13. \A c \in Buf : \/ held'[c] = held[c]
                      \/ held[c] \in {a, Nobody} /\ held'[c] \in {a, Nobody}
  BY <1>2, <1>10, <1>11
<1>14. "read" \in Place /\ "read" \in BigPlaces /\ "read" \notin Outside
  BY DEF Place, BigPlaces, Outside
<1> QED
  BY <1>1, <1>3, <1>5, <1>6, <1>7, <1>8, <1>10, <1>12, <1>13, <1>14, DumpStep

(* The end of a dump gives s_buflock back. *)
LEMMA DumpDoneOK == ASSUME IInv, NEW a \in Actor, DumpDone(a) PROVE IInv'
<1> DEFINE to == Return(a)
<1>1. /\ held \in [Buf -> Actor \cup {Nobody}] /\ NoDump \in Dump
  BY DEF IInv, Types, NoDump, None, Dump
<1>2. /\ Dumps(a, "written", to, NoDump) /\ big' = Nobody /\ held' = held
  BY DEF DumpDone, Dumps, At
<1>3. to \in {"idle", "over", "killed"} /\ (a \in Dumper => to = "idle")
  BY DEF Return
<1> HIDE DEF to
<1>4. to \in Place /\ to \notin BigPlaces /\ to \notin Merging
  BY <1>3 DEF Place, Quiet, BigPlaces, Merging
<1>5. pc'[a] = to
  BY <1>2, <1>4, GoOK DEF Dumps, IInv
<1>6. \A b \in Buf : (held'[b] = a) <=> Holds(a, b)'
  <2>1. \A b \in Buf : ~ Holds(a, b)' /\ ~ Holds(a, b)
    BY <1>2, <1>3, <1>5 DEF Holds, Dumps
  <2> QED
    BY <1>2, <2>1 DEF IInv, HeldOK
<1>7. "written" \in Place /\ "written" \in BigPlaces /\ "written" \notin Outside
  BY DEF Place, BigPlaces, Outside
<1> QED
  BY <1>1, <1>2, <1>3, <1>4, <1>6, <1>7, DumpStep

-----------------------------------------------------------------------------
(* Every step keeps the invariant. *)
LEMMA NextOK == ASSUME IInv, [Next]_vars PROVE IInv'
<1>1. CASE UNCHANGED vars
  <2>1. /\ UNCHANGED <<activated, enabled, perThread, exiting, bufs, made>>
        /\ UNCHANGED <<content, big, held, pc, dump, taken>>
    BY <1>1 DEF vars
  <2>2. Types'
    BY <2>1 DEF IInv, Types
  <2>3. BigOK'
    BY <2>1 DEF IInv, BigOK
  <2>4. HeldOK'
    <3>1. ASSUME NEW c \in Actor, NEW b \in Buf
          PROVE  Holds(c, b)' <=> Holds(c, b)
      BY <2>1 DEF Holds, Own
    <3> QED
      BY <2>1, <3>1 DEF IInv, HeldOK
  <2>5. BufsOK'
    BY <2>1 DEF IInv, BufsOK
  <2> QED
    BY <2>2, <2>3, <2>4, <2>5 DEF IInv
<1>2. ASSUME NEW a \in Actor, Proceed(a) \/ Begin(a) PROVE IInv'
  <2>1. CASE a \in Thread /\ (Wrap(a) \/ Insert(a) \/ Erase(a))
    BY <2>1, WrapOK, InsertOK, EraseOK
  <2>2. CASE a \in Thread /\ (SampleLock(a) \/ SampleRecord(a))
    BY <2>2, SampleOK
  <2>3. CASE a \in Thread /\ (FreeLock(a) \/ FreeUnlock(a))
    BY <2>3, FreeOK
  <2>4. CASE a \in Thread /\ \/ MergeLockMaster(a) \/ MergeLockOther(a)
                             \/ MergeTree(a)
    BY <2>4, MergeOK
  <2>5. CASE DumpLock(a) \/ DumpRead(a) \/ DumpDone(a)
    BY <2>5, DumpLockOK, DumpReadOK, DumpDoneOK
  <2>6. CASE \E b \in Thread \cup {Master} : DumpBuffer(a, b)
    BY <2>6, DumpBufferOK DEF Buf
  <2>7. CASE \/ a \in Thread /\ \/ Create(a) \/ WrapLate(a) \/ SampleBegin(a)
                                \/ SampleBuffer(a) \/ Leave(a) \/ Kill(a)
                                \/ KillDisable(a) \/ KillEnable(a) \/ Exit(a)
                                \/ ExitDeactivate(a) \/ ExitDisable(a)
             \/ DumpNow(a) \/ DumpFails(a)
    BY <2>7, QuietSteps
  <2> QED
    BY <1>2, <2>1, <2>2, <2>3, <2>4, <2>5, <2>6, <2>7 DEF Proceed, Begin
<1> QED
  BY <1>1, <1>2 DEF Next

(* The invariant holds always. *)
LEMMA Invariant == Spec => []IInv
BY InitOK, NextOK, PTL DEF Spec

(* A buffer that is remembered, gone through by a dump, or locked exists: it is
   not deleted by the end of its thread while anybody may still use it. *)
THEOREM BuffersExist == Spec => []NoDangling
<1>1. ASSUME IInv PROVE NoDangling
  <2>1. bufs \subseteq made /\ Master \in made
    BY <1>1 DEF IInv, BufsOK
  <2>2. ASSUME NEW a \in Actor, pc[a] \in {"walk", "read"}
        PROVE  dump[a].left \subseteq made
    BY <1>1, <2>1, <2>2 DEF IInv, BufsOK
  <2>3. ASSUME NEW b \in Buf, held[b] # Nobody PROVE b \in made
    <3>1. PICK a \in Actor : held[b] = a
      BY <1>1, <2>3 DEF IInv, Types
    <3>2. Holds(a, b)
      BY <1>1, <3>1 DEF IInv, HeldOK
    <3>3. CASE pc[a] = "push" /\ b = Own(a)
      <4>1. a \in Thread
        BY <1>1, <3>3 DEF IInv, BufsOK, Actor
      <4> QED
        BY <1>1, <2>1, <3>3, <4>1 DEF IInv, BufsOK, Outside, Own
    <3>4. CASE pc[a] \in {"merge other", "merge tree"} /\ b = Master
      BY <2>1, <3>4
    <3>5. CASE pc[a] = "merge tree" /\ b = a
      <4>1. a \in Thread
        BY <1>1, <3>5 DEF IInv, BufsOK, Actor
      <4>2. perThread
        BY <1>1, <3>5, <4>1 DEF IInv, BufsOK, Merging
      <4> QED
        BY <1>1, <2>1, <3>5, <4>1, <4>2 DEF IInv, BufsOK, Outside
    <3>6. CASE pc[a] = "read" /\ b = dump[a].reading
      BY <1>1, <2>1, <3>6 DEF IInv, BufsOK
    <3> QED
      BY <3>2, <3>3, <3>4, <3>5, <3>6 DEF Holds
  <2> QED
    BY <2>1, <2>2, <2>3 DEF NoDangling, Buf
<1> QED
  BY <1>1, Invariant, PTL

(* No thread waits for a lock that it holds: not for a buffer's in a sample, a
   merge or a dump, and not for s_buflock. *)
THEOREM LocksNotReentered == Spec => []NoSelfWait
<1>1. ASSUME IInv PROVE NoSelfWait
  <2>1. ASSUME NEW a \in Actor, NEW b \in Wants(a) PROVE held[b] # a
    <3>1. CASE pc[a] \in {"sample", "merge other"}
      <4>1. a \in Thread
        BY <1>1, <3>1 DEF IInv, BufsOK, Actor
      <4>2. b = Own(a) /\ b \in Buf
        BY <3>1, <4>1 DEF Wants, Own, Buf
      <4>3. pc[a] = "merge other" => b # Master
        BY <1>1, <4>1, <4>2, ThreadAssumption DEF IInv, BufsOK, Merging, Own
      <4>4. ~ Holds(a, b)
        BY <3>1, <4>3 DEF Holds
      <4> QED
        BY <1>1, <4>2, <4>4 DEF IInv, HeldOK
    <3>2. CASE pc[a] = "merge"
      <4>1. b = Master
        BY <3>2 DEF Wants
      <4> QED
        BY <1>1, <3>2, <4>1 DEF IInv, HeldOK, Holds, Buf
    <3>3. CASE pc[a] = "walk"
      <4>1. b \in dump[a].left /\ dump[a] \in Dump
        BY <1>1, <3>3 DEF Wants, IInv, Types
      <4> QED
        BY <1>1, <3>3, <4>1 DEF IInv, HeldOK, Holds, Dump
    <3>4. CASE pc[a] \notin {"sample", "merge other", "merge", "walk"}
      BY <3>4 DEF Wants
    <3> QED
      BY <3>1, <3>2, <3>3, <3>4
  <2>2. ASSUME NEW a \in Actor, pc[a] \in {"insert", "free", "dump"}
        PROVE  big # a
    BY <1>1, <2>2 DEF IInv, BigOK, BigPlaces, Merging
  <2> QED
    BY <2>1, <2>2 DEF NoSelfWait
<1> QED
  BY <1>1, Invariant, PTL

(* The flags, the buffers, the locks and the dumps have their types. *)
THEOREM CoreTypes == Spec => []TypeOK
<1>1. ASSUME IInv PROVE TypeOK
  <2>1. Types
    BY <1>1 DEF IInv
  <2>2. \A a \in Actor : dump[a] \in Dump
    BY <2>1 DEF Types
  <2>3. \A a \in Actor : /\ dump[a].left \subseteq Thread \cup {Master}
                         /\ dump[a].seen \in [Thread -> Nat]
    BY <2>2 DEF Dump, Buf
  <2> QED
    BY <2>1, <2>3 DEF Types, TypeOK, Buf
<1> QED
  BY <1>1, Invariant, PTL

-----------------------------------------------------------------------------
(* Who is in kill().  Before exit() the profilers are switched off once for
   each of them. *)
Killing == {t \in Thread : InKill(t)}
Balanced ==
  exiting = Nobody =>
    /\ IsFiniteSet(Killing) /\ enabled = 1 - Cardinality(Killing)
    /\ \A t \in Thread : pc[t] \notin {"idle", "exit", "exit disable"}

(* At first nobody is in kill(). *)
LEMMA InitBalanced == Init => Balanced
<1> SUFFICES ASSUME Init PROVE Balanced
  OBVIOUS
<1>1. \A t \in Thread : pc[t] \in {"running", "none"}
  BY DEF Init, Actor
<1>2. Killing = {}
  BY <1>1 DEF Killing, InKill, Dumping
<1>3. Cardinality(Killing) = 0 /\ IsFiniteSet(Killing)
  BY <1>2, FS_EmptySet
<1>4. enabled = 1 /\ exiting = Nobody
  BY DEF Init
<1>5. \A t \in Thread : pc[t] \notin {"idle", "exit", "exit disable"}
  BY <1>1
<1>6. enabled = 1 - Cardinality(Killing)
  BY <1>3, <1>4
<1> QED BY <1>3, <1>5, <1>6 DEF Balanced

(* A step to a place that counts for kill() as its old one does, with the flag as
   it was. *)
LEMMA BalancedStep ==
  ASSUME Types, Balanced, NEW a \in Actor, NEW to \in Place, Go(a, to),
         UNCHANGED <<enabled, exiting>>,
         a \in Thread => to \notin {"idle", "exit", "exit disable"},
         a \in Thread /\ exiting = Nobody =>
           (to \in Dumping \cup {"killed"} <=> pc[a] \in Dumping \cup {"killed"})
  PROVE  Balanced'
<1> SUFFICES ASSUME exiting = Nobody PROVE Balanced'
  BY DEF Balanced
<1>1. pc'[a] = to /\ (\A c \in Actor : c # a => pc'[c] = pc[c])
  BY GoOK
<1>2. \A t \in Thread : InKill(t)' <=> InKill(t)
  BY <1>1 DEF InKill, Actor, Dumping
<1>3. Killing' = Killing
  BY <1>2 DEF Killing
<1>4. \A t \in Thread : pc'[t] \notin {"idle", "exit", "exit disable"}
  BY <1>1 DEF Balanced, Actor
<1> QED BY <1>3, <1>4 DEF Balanced

(* Every step keeps the profilers balanced. *)
LEMMA NextBalanced == IInv /\ Balanced /\ [Next]_vars => Balanced'
<1> SUFFICES ASSUME IInv, Balanced, [Next]_vars PROVE Balanced'
  OBVIOUS
<1>a. Types
  BY DEF IInv
<1>1. CASE UNCHANGED vars
  BY <1>1 DEF vars, Balanced, Killing, InKill
<1>2. ASSUME NEW a \in Thread, KillDisable(a) PROVE Balanced'
  <2> SUFFICES ASSUME exiting' = Nobody PROVE Balanced'
    BY DEF Balanced
  <2>1. a \in Actor /\ Go(a, "dump") /\ pc[a] = "kill" /\ exiting = Nobody /\ enabled' = enabled - 1
    BY <1>2 DEF KillDisable, At, Actor
  <2>2. pc'[a] = "dump" /\ (\A c \in Actor : c # a => pc'[c] = pc[c])
    BY <1>a, <2>1, GoOK DEF Place, Quiet
  <2>3. a \notin Killing /\ Killing' = Killing \cup {a}
    BY <2>1, <2>2 DEF Killing, InKill, Actor, Dumping
  <2>4. IsFiniteSet(Killing) /\ enabled = 1 - Cardinality(Killing)
    BY <2>1 DEF Balanced
  <2>5. IsFiniteSet(Killing') /\ Cardinality(Killing') = Cardinality(Killing) + 1
    BY <2>3, <2>4, FS_AddElement
  <2>6. Cardinality(Killing) \in Nat
    BY <2>4, FS_CardinalityType
  <2>7. enabled' = 1 - Cardinality(Killing')
    BY <2>1, <2>4, <2>5, <2>6
  <2>8. \A t \in Thread : pc'[t] \notin {"idle", "exit", "exit disable"}
    BY <2>1, <2>2 DEF Balanced, Actor
  <2> QED BY <2>5, <2>7, <2>8 DEF Balanced
<1>3. ASSUME NEW a \in Thread, KillEnable(a) PROVE Balanced'
  <2> SUFFICES ASSUME exiting' = Nobody PROVE Balanced'
    BY DEF Balanced
  <2>1. a \in Actor /\ Go(a, "running") /\ pc[a] = "killed" /\ exiting = Nobody /\ enabled' = enabled + 1
    BY <1>3 DEF KillEnable, At, Actor
  <2>2. pc'[a] = "running" /\ (\A c \in Actor : c # a => pc'[c] = pc[c])
    BY <1>a, <2>1, GoOK DEF Place, Quiet
  <2>3. a \in Killing /\ Killing' = Killing \ {a}
    BY <2>1, <2>2 DEF Killing, InKill, Actor, Dumping
  <2>4. IsFiniteSet(Killing) /\ enabled = 1 - Cardinality(Killing)
    BY <2>1 DEF Balanced
  <2>5. IsFiniteSet(Killing') /\ Cardinality(Killing') = Cardinality(Killing) - 1
    BY <2>3, <2>4, FS_RemoveElement
  <2>6. Cardinality(Killing) \in Nat
    BY <2>4, FS_CardinalityType
  <2>7. enabled' = 1 - Cardinality(Killing')
    BY <2>1, <2>4, <2>5, <2>6
  <2>8. \A t \in Thread : pc'[t] \notin {"idle", "exit", "exit disable"}
    BY <2>1, <2>2 DEF Balanced, Actor
  <2> QED BY <2>5, <2>7, <2>8 DEF Balanced
<1>4. ASSUME NEW a \in Thread, Exit(a) \/ ExitDeactivate(a) \/ ExitDisable(a) PROVE Balanced'
  <2>1. a # Nobody
    BY ThreadAssumption
  <2>2. exiting' # Nobody
    BY <1>4, <2>1 DEF Exit, ExitDeactivate, ExitDisable, At, Balanced
  <2> QED BY <2>2 DEF Balanced
<1>5. ASSUME NEW a \in Thread,
             \/ Create(a) \/ Wrap(a) \/ WrapLate(a) \/ Insert(a)
             \/ SampleBegin(a) \/ SampleBuffer(a) \/ SampleLock(a) \/ SampleRecord(a)
             \/ Leave(a) \/ FreeLock(a) \/ MergeLockMaster(a) \/ MergeLockOther(a)
             \/ MergeTree(a) \/ Erase(a) \/ FreeUnlock(a) \/ Kill(a)
      PROVE  Balanced'
  <2>1. PICK to \in Place : /\ Go(a, to) /\ to \notin {"idle", "exit", "exit disable"}
                            /\ to \notin Dumping \cup {"killed"}
                            /\ pc[a] \notin Dumping \cup {"killed"}
                            /\ UNCHANGED <<enabled, exiting>>
    BY <1>5 DEF Create, Wrap, WrapLate, Insert, SampleBegin, SampleBuffer, SampleLock,
      SampleRecord, Leave, FreeLock, MergeLockMaster, MergeLockOther, MergeTree, Erase,
      FreeUnlock, Kill, At, flags, Place, Quiet, Merging, Dumping
  <2> QED BY <1>a, <2>1, BalancedStep DEF Actor
<1>6. ASSUME NEW a \in Actor, DumpNow(a) PROVE Balanced'
  <2>1. pc[a] = "idle" /\ Go(a, "dump") /\ UNCHANGED <<enabled, exiting>>
    BY <1>6 DEF DumpNow, At, flags
  <2>2. a \notin Thread \/ exiting # Nobody
    BY <2>1 DEF Balanced
  <2>3. "dump" \in Place
    BY DEF Place, Quiet
  <2> QED BY <1>a, <2>1, <2>2, <2>3, BalancedStep
<1>7. ASSUME NEW a \in Actor, DumpLock(a) PROVE Balanced'
  <2>1. pc[a] = "dump" /\ Go(a, "walk") /\ UNCHANGED <<enabled, exiting>> /\ "walk" \in Place
    BY <1>7 DEF DumpLock, At, flags, Place
  <2> QED BY <1>a, <2>1, BalancedStep DEF Dumping
<1>8. ASSUME NEW a \in Actor, NEW b, DumpBuffer(a, b) PROVE Balanced'
  <2>1. pc[a] = "walk" /\ Go(a, "read") /\ UNCHANGED <<enabled, exiting>> /\ "read" \in Place
    BY <1>8 DEF DumpBuffer, At, flags, Place
  <2> QED BY <1>a, <2>1, BalancedStep DEF Dumping
<1>9. ASSUME NEW a \in Actor, DumpRead(a) PROVE Balanced'
  <2>1. PICK to \in {"walk", "written"} :
          pc[a] = "read" /\ Go(a, to) /\ UNCHANGED <<enabled, exiting>>
    BY <1>9 DEF DumpRead, At, flags
  <2>2. to \in Place
    BY DEF Place
  <2> QED BY <1>a, <2>1, <2>2, BalancedStep DEF Dumping
<1>10. ASSUME NEW a \in Actor, DumpDone(a) PROVE Balanced'
  <2>1. PICK to \in {"idle", "over", "killed"} :
          /\ pc[a] = "written" /\ Go(a, to) /\ UNCHANGED <<enabled, exiting>>
          /\ a \in Thread => to # "idle"
          /\ a \in Thread /\ exiting = Nobody => to = "killed"
    BY <1>10, ThreadAssumption DEF DumpDone, Return, At, flags
  <2>2. to \in Place
    BY DEF Place, Quiet
  <2> QED BY <1>a, <2>1, <2>2, BalancedStep DEF Dumping
<1>11. ASSUME NEW a \in Actor, DumpFails(a) PROVE Balanced'
  <2>1. PICK to \in {"idle", "over", "killed"} :
          /\ pc[a] = "dump" /\ Go(a, to) /\ UNCHANGED <<enabled, exiting>>
          /\ a \in Thread => to # "idle"
          /\ a \in Thread /\ exiting = Nobody => to = "killed"
    BY <1>11, ThreadAssumption DEF DumpFails, Return, At, flags
  <2>2. to \in Place
    BY DEF Place, Quiet
  <2> QED BY <1>a, <2>1, <2>2, BalancedStep DEF Dumping
<1>12. ASSUME NEW a \in Actor, Proceed(a) \/ Begin(a) PROVE Balanced'
  BY <1>2, <1>3, <1>4, <1>5, <1>6, <1>7, <1>8, <1>9, <1>10, <1>11, <1>12 DEF Proceed, Begin
<1> QED BY <1>1, <1>12 DEF Next

(* Until exit() the profilers are switched on exactly when no thread is in kill(),
   however the calls of kill() overlap. *)
THEOREM KillsBalance == Spec => []EnabledBalanced
<1>1. ASSUME Balanced PROVE EnabledBalanced
  BY <1>1 DEF Balanced, EnabledBalanced, Killing
<1>2. Spec => []Balanced
  BY Invariant, InitBalanced, NextBalanced, PTL DEF Spec
<1> QED BY <1>1, <1>2, PTL

-----------------------------------------------------------------------------
(* What the buffers hold.  Only finitely many exist; one that exists is that of
   a thread at work, or the master buffer, and one that is not remembered yet
   holds nothing. *)
Gone == {"none", "wrapper", "unprofiled", "freed"}
NewOK ==
  /\ IsFiniteSet(made)
  /\ \A t \in Thread : t \in made => perThread /\ pc[t] \notin Gone
  /\ \A t \in Thread : pc[t] = "insert" => content[t] = None

(* Buffers whose samples have not been moved to the master buffer *)
Outer == {b \in made : ~ Inside(b)}

(* What a dump has shown of t's samples or is still going to show as things
   are: at least what t had recorded when it began, and never more than t has. *)
Shown(a, t) == dump[a].seen[t] + SumFunctionOnSet(Of(t), dump[a].left)
Walked(a) ==
  /\ pc[a] = "read" /\ dump[a].reading = Master => dump[a].left = {Master}
  /\ pc[a] = "written" => dump[a].left = {}
  /\ \A t \in Thread : dump[a].since[t] <= Shown(a, t) /\ Shown(a, t) <= taken[t]
Walking == {"walk", "read", "written"}
WalkOK == \A a \in Actor : pc[a] \in Walking => Walked(a)

Counted == NewOK /\ SamplesKept /\ WalkOK

(* The samples of a thread, buffer by buffer *)
LEMMA OfBuffers ==
  ASSUME Types, NEW t \in Thread
  PROVE  \A b \in Buf : Of(t)[b] = content[b][t] /\ Of(t)[b] \in Int
BY DEF Types, Of

(* What a dump goes through exists. *)
LEMMA LeftMade ==
  ASSUME IInv, NewOK, NEW a \in Actor, pc[a] \in {"walk", "read"}
  PROVE  dump[a].left \subseteq made /\ IsFiniteSet(dump[a].left) /\ dump[a].left \subseteq Buf
<1>1. dump[a].left \subseteq made /\ made \subseteq Buf
  BY DEF IInv, BufsOK, Types
<1> QED BY <1>1, FS_Subset DEF NewOK

(* At first no sample has been taken. *)
LEMMA InitCounted == Init => Counted
<1> SUFFICES ASSUME Init PROVE Counted
  OBVIOUS
<1>1. Types
  BY InitOK DEF IInv
<1>2. \A a \in Actor : pc[a] \in {"running", "none", "idle"}
  BY DEF Init
<1>3. IsFiniteSet(made)
  <2>1. made \subseteq {Main} \cup {Master}
    BY DEF Init
  <2>2. IsFiniteSet({Main} \cup {Master})
    BY FS_Singleton, FS_AddElement, Zenon
  <2> QED BY <2>1, <2>2, FS_Subset
<1>4. NewOK
  <2>1. ASSUME NEW t \in Thread, t \in made PROVE perThread /\ pc[t] = "running"
    <3>1. perThread /\ t = Main
      BY <2>1, ThreadAssumption DEF Init
    <3> QED BY <3>1 DEF Init, Actor
  <2> QED BY <1>2, <1>3, <2>1 DEF NewOK, Gone, Actor
<1>5. SamplesKept
  <2> SUFFICES ASSUME NEW t \in Thread PROVE SumFunctionOnSet(Of(t), Outer) = taken[t]
    BY DEF SamplesKept, Outer
  <2>1. Outer \subseteq made /\ made \subseteq Buf
    BY <1>1 DEF Outer, Types
  <2>2. \A b \in Buf : Of(t)[b] = 0
    BY DEF Init, Of, None, Buf
  <2>3. SumFunctionOnSet(Of(t), Outer) = SumFunctionOnSet(Of(t), {})
    <3>1. IsFiniteSet(Outer) /\ \A y \in Outer : Of(t)[y] = 0
      BY <1>3, <2>1, <2>2, FS_Subset
    <3> QED BY <3>1, SumZeros
  <2>4. taken[t] = 0
    BY DEF Init, None
  <2> QED BY <2>3, <2>4, SumEmpty
<1>6. WalkOK
  BY <1>2 DEF WalkOK, Walking
<1> QED BY <1>4, <1>5, <1>6 DEF Counted

(* A step that changes no buffer and does not begin or end the deletion of one
   leaves the sums as they are. *)
LEMMA SameSums ==
  ASSUME Types, Counted, NEW a \in Actor, NEW to \in Place, Go(a, to),
         UNCHANGED <<perThread, made, content, taken>>,
         pc[a] # "erase", to \notin {"erase", "insert"},
         a \in Thread /\ to \in Gone => a \notin made,
         \A c \in Actor \ {a} : dump'[c] = dump[c],
         to \in Walking => Walked(a)'
  PROVE  Counted'
<1>1. pc'[a] = to /\ (\A c \in Actor : c # a => pc'[c] = pc[c])
  BY GoOK
<1>2. NewOK'
  BY <1>1 DEF Counted, NewOK, Actor
<1>3. \A t \in Thread : Of(t)' = Of(t)
  BY DEF Of
<1>4. SamplesKept'
  <2>1. \A t \in Thread : pc'[t] = "erase" <=> pc[t] = "erase"
    BY <1>1 DEF Actor
  <2>2. {b \in made : ~ Inside(b)}' = {b \in made : ~ Inside(b)}
    BY <2>1 DEF Inside
  <2> QED BY <1>3, <2>2 DEF SamplesKept, Counted
<1>5. WalkOK'
  <2> SUFFICES ASSUME NEW c \in Actor, pc'[c] \in Walking PROVE Walked(c)'
    BY DEF WalkOK
  <2>1. CASE c = a
    BY <1>1, <2>1
  <2>2. CASE c # a
    <3>1. pc'[c] = pc[c] /\ dump'[c] = dump[c] /\ Walked(c)
      BY <1>1, <2>2 DEF WalkOK, Counted
    <3> QED BY <1>3, <3>1 DEF Walked, Shown
  <2> QED BY <2>1, <2>2
<1> QED BY <1>2, <1>4, <1>5 DEF Counted

(* Steps that only lock, unlock, or move a thread *)
LEMMA PlainCounted ==
  ASSUME IInv, Counted, NEW a \in Actor,
         \/ a \in Thread /\ \/ Create(a) \/ WrapLate(a) \/ Insert(a) \/ SampleBegin(a)
                            \/ SampleBuffer(a) \/ SampleLock(a) \/ Leave(a) \/ FreeLock(a)
                            \/ MergeLockMaster(a) \/ MergeLockOther(a) \/ FreeUnlock(a)
                            \/ Kill(a) \/ KillDisable(a) \/ KillEnable(a)
                            \/ Exit(a) \/ ExitDeactivate(a) \/ ExitDisable(a)
         \/ DumpNow(a)
  PROVE  Counted'
<1>1. a \in Thread => (pc[a] \in Gone => a \notin made) /\ (~ perThread => a \notin made)
  BY DEF Counted, NewOK
<1>2. CASE a \in Thread
  <2>1. PICK to \in Place : /\ Go(a, to) /\ to \notin {"erase", "insert"} \cup Walking
                            /\ pc[a] # "erase"
                            /\ to \in Gone => pc[a] \in Gone \/ ~ perThread
                            /\ UNCHANGED <<perThread, made, content, taken, dump>>
    BY <1>2 DEF Create, WrapLate, Insert, SampleBegin, SampleBuffer, SampleLock, Leave,
      FreeLock, MergeLockMaster, MergeLockOther, FreeUnlock, Kill, KillDisable, KillEnable,
      Exit, ExitDeactivate, ExitDisable, DumpNow, At, flags, buffers, history, Place, Quiet,
      Merging, Walking, Gone
  <2> QED BY <1>1, <1>2, <2>1, SameSums DEF IInv
<1>3. CASE a \notin Thread
  <2>1. /\ Go(a, "dump") /\ pc[a] = "idle" /\ "dump" \in Place
        /\ UNCHANGED <<perThread, made, content, taken, dump>>
    BY <1>3 DEF DumpNow, At, flags, buffers, Place, Quiet
  <2> QED BY <1>3, <2>1, SameSums DEF IInv, Walking
<1> QED BY <1>2, <1>3

(* A new thread's buffer, which nobody has seen yet, holds nothing. *)
LEMMA WrapCounted == ASSUME IInv, Counted, NEW a \in Thread, Wrap(a) PROVE Counted'
<1>0. a \in Actor /\ a \in Buf /\ Types
  BY DEF Actor, Buf, IInv
<1>1. CASE ~ perThread
  <2>1. DOMAIN content = Buf /\ content = [b \in Buf |-> content[b]]
    BY <1>0 DEF Types
  <2>2. /\ Go(a, "running") /\ pc[a] = "wrapper" /\ made' = made /\ content' = content
        /\ UNCHANGED <<perThread, taken, dump>>
    BY <1>1, <2>1 DEF Wrap, At, flags, history
  <2> QED BY <1>0, <2>2, SameSums DEF Walking, Gone, Place, Quiet
<1>2. CASE perThread
  <2>1. /\ Go(a, "insert") /\ pc[a] = "wrapper" /\ made' = made \cup {a} /\ content'[a] = None
        /\ DOMAIN content' = Buf
        /\ \A b \in Buf \ {a} : content'[b] = content[b]
        /\ UNCHANGED <<perThread, taken, dump, bufs>>
    BY <1>0, <1>2 DEF Wrap, At, flags, history, Types
  <2>2. pc'[a] = "insert" /\ (\A c \in Actor : c # a => pc'[c] = pc[c])
    BY <1>0, <2>1, GoOK DEF Place
  <2>3. a \notin made
    BY <2>1 DEF Counted, NewOK, Gone
  <2>4. NewOK'
    <3>1. IsFiniteSet(made')
      BY <2>1, FS_AddElement DEF Counted, NewOK
    <3>2. ASSUME NEW t \in Thread
          PROVE  /\ t \in made' => perThread' /\ pc'[t] \notin Gone
                 /\ pc'[t] = "insert" => content'[t] = None
      <4>1. CASE t = a
        BY <1>2, <2>1, <2>2, <4>1 DEF Gone
      <4>2. CASE t # a
        BY <2>1, <2>2, <4>2 DEF Counted, NewOK, Actor, Buf
      <4> QED BY <4>1, <4>2
    <3>3. None' = None
      BY DEF None
    <3> QED BY <3>1, <3>2, <3>3 DEF NewOK
  <2>5. \A t \in Thread : \A b \in Buf \ {a} : Of(t)'[b] = Of(t)[b]
    BY <1>0, <2>1 DEF Of, Types
  <2>6. SamplesKept'
    <3> SUFFICES ASSUME NEW t \in Thread PROVE SumFunctionOnSet(Of(t)', Outer') = taken'[t]
      BY DEF SamplesKept, Outer
    <3>1. \A u \in Thread : pc'[u] = "erase" <=> pc[u] = "erase"
      BY <2>1, <2>2 DEF Actor
    <3>2. Outer' = Outer \cup {a} /\ a \notin Outer /\ Outer \subseteq made
      BY <2>1, <2>2, <2>3, <3>1 DEF Outer, Inside
    <3>3. IsFiniteSet(Outer) /\ Outer \subseteq Buf
      BY <1>0, <3>2, FS_Subset DEF Counted, NewOK, Types
    <3>4. Of(t)'[a] = 0
      BY <1>0, <2>1 DEF Of, None
    <3>5. \A b \in Outer \cup {a} : Of(t)'[b] \in Int
      BY <1>0, <2>5, <3>3, <3>4, OfBuffers
    <3>6. SumFunctionOnSet(Of(t)', Outer \cup {a}) = 0 + SumFunctionOnSet(Of(t)', Outer)
      BY <3>2, <3>3, <3>4, <3>5, SumAdd
    <3>7. SumFunctionOnSet(Of(t)', Outer) = SumFunctionOnSet(Of(t), Outer)
      BY <2>5, <3>2, <3>3, SumSame
    <3>8. SumFunctionOnSet(Of(t), Outer) = taken[t] /\ taken[t] \in Nat
      BY <1>0 DEF Counted, SamplesKept, Outer, Types
    <3> QED BY <2>1, <3>2, <3>6, <3>7, <3>8
  <2>7. WalkOK'
    <3> SUFFICES ASSUME NEW c \in Actor, pc'[c] \in Walking PROVE Walked(c)'
      BY DEF WalkOK
    <3>1. pc'[c] = pc[c] /\ dump'[c] = dump[c] /\ Walked(c)
      BY <2>1, <2>2 DEF WalkOK, Counted, Walking
    <3>2. dump[c].left \subseteq made /\ IsFiniteSet(dump[c].left) /\ dump[c].left \subseteq Buf
      <4>1. CASE pc[c] = "written"
        BY <3>1, <4>1, FS_EmptySet DEF Walked
      <4>2. CASE pc[c] \in {"walk", "read"}
        BY <4>2, LeftMade DEF Counted
      <4> QED BY <3>1, <4>1, <4>2 DEF Walking
    <3>3. ASSUME NEW t \in Thread
          PROVE  SumFunctionOnSet(Of(t)', dump[c].left) = SumFunctionOnSet(Of(t), dump[c].left)
      BY <2>3, <2>5, <3>2, SumSame
    <3> QED BY <2>1, <3>1, <3>3 DEF Walked, Shown
  <2> QED BY <2>4, <2>6, <2>7 DEF Counted
<1> QED BY <1>1, <1>2

(* A sample is one more in the thread's buffer, which a dump has seen or not. *)
LEMMA SampleCounted ==
  ASSUME IInv, Counted, NEW a \in Thread, SampleRecord(a) PROVE Counted'
<1>0. a \in Actor /\ Own(a) \in Buf /\ Types /\ content \in [Buf -> [Thread -> Nat]]
  BY DEF Actor, Own, Buf, IInv, Types
<1>1. /\ Go(a, "running") /\ pc[a] = "push" /\ made' = made
      /\ content' = [content EXCEPT ![Own(a)][a] = @ + 1]
      /\ taken' = [taken EXCEPT ![a] = @ + 1]
      /\ UNCHANGED <<perThread, dump, bufs>>
  BY DEF SampleRecord, At, flags
<1>2. pc'[a] = "running" /\ (\A c \in Actor : c # a => pc'[c] = pc[c])
  BY <1>0, <1>1, GoOK DEF Place, Quiet
<1>3. Own(a) \in Outer
  <2>1. CASE perThread
    <3>1. Own(a) = a /\ a \in made
      BY <1>1, <2>1 DEF Own, IInv, BufsOK, Outside
    <3> QED BY <1>1, <3>1 DEF Outer, Inside
  <2>2. CASE ~ perThread
    <3>1. Own(a) = Master /\ Master \in made /\ Master \notin Thread
      BY <2>2, ThreadAssumption DEF Own, IInv, BufsOK
    <3> QED BY <3>1 DEF Outer, Inside
  <2> QED BY <2>1, <2>2
<1>4. ASSUME NEW t \in Thread
      PROVE  /\ \A b \in Buf \ {Own(a)} : Of(t)'[b] = Of(t)[b]
             /\ Of(t)'[Own(a)] = Of(t)[Own(a)] + (IF t = a THEN 1 ELSE 0)
             /\ taken'[t] = taken[t] + (IF t = a THEN 1 ELSE 0)
             /\ taken[t] \in Nat
  <2>1. /\ DOMAIN content = Buf /\ DOMAIN content' = Buf
        /\ \A b \in Buf \ {Own(a)} : content'[b] = content[b]
        /\ content'[Own(a)][t] = content[Own(a)][t] + (IF t = a THEN 1 ELSE 0)
    BY <1>0, <1>1
  <2>2. taken \in [Thread -> Nat]
    BY <1>0 DEF Types
  <2> QED BY <1>0, <1>1, <2>1, <2>2 DEF Of
<1>5. \A s \in SUBSET Buf : \A t \in Thread : IsFiniteSet(s) =>
        SumFunctionOnSet(Of(t)', s) =
          SumFunctionOnSet(Of(t), s) + (IF t = a /\ Own(a) \in s THEN 1 ELSE 0)
  <2> SUFFICES ASSUME NEW s \in SUBSET Buf, NEW t \in Thread, IsFiniteSet(s)
               PROVE  SumFunctionOnSet(Of(t)', s) =
                 SumFunctionOnSet(Of(t), s) + (IF t = a /\ Own(a) \in s THEN 1 ELSE 0)
    OBVIOUS
  <2>1. \A b \in s : Of(t)[b] \in Int
    BY <1>0, OfBuffers
  <2>2. SumFunctionOnSet(Of(t), s) \in Int
    BY <2>1, SumInt
  <2>3. CASE Own(a) \in s
    <3> DEFINE d == IF t = a THEN 1 ELSE 0
    <3>1. d \in Int /\ Of(t)'[Own(a)] = Of(t)[Own(a)] + d
      BY <1>4
    <3>2. \A b \in s \ {Own(a)} : Of(t)'[b] = Of(t)[b]
      BY <1>4
    <3>3. SumFunctionOnSet(Of(t)', s) = SumFunctionOnSet(Of(t), s) + d
      <4> HIDE DEF d
      <4> QED BY <2>1, <2>3, <3>1, <3>2, SumChange
    <3> QED BY <2>3, <3>3
  <2>4. CASE Own(a) \notin s
    <3>1. \A b \in s : Of(t)'[b] = Of(t)[b]
      BY <1>4, <2>4
    <3>2. SumFunctionOnSet(Of(t)', s) = SumFunctionOnSet(Of(t), s)
      BY <3>1, SumSame
    <3> QED BY <2>2, <2>4, <3>2
  <2> QED BY <2>3, <2>4
<1>6. NewOK'
  <2>1. ASSUME NEW t \in Thread
        PROVE  /\ t \in made' => perThread' /\ pc'[t] \notin Gone
               /\ pc'[t] = "insert" => content'[t] = None
    <3>1. CASE t = a
      BY <1>1, <1>2, <3>1 DEF Counted, NewOK, Gone
    <3>2. CASE t # a
      <4>1. pc'[t] = pc[t] /\ (t = Own(a) => t = a)
        BY <1>2, <3>2, ThreadAssumption DEF Actor, Own
      <4>2. content'[t] = content[t]
        BY <1>0, <1>1, <3>2, <4>1
      <4> QED BY <1>1, <4>1, <4>2 DEF Counted, NewOK
    <3> QED BY <3>1, <3>2
  <2> QED BY <1>1, <2>1 DEF NewOK, Counted, None
<1>7. SamplesKept'
  <2> SUFFICES ASSUME NEW t \in Thread PROVE SumFunctionOnSet(Of(t)', Outer') = taken'[t]
    BY DEF SamplesKept, Outer
  <2>1. \A u \in Thread : pc'[u] = "erase" <=> pc[u] = "erase"
    BY <1>1, <1>2 DEF Actor
  <2>2. Outer' = Outer /\ Outer \subseteq made
    BY <1>1, <2>1 DEF Outer, Inside
  <2>3. IsFiniteSet(Outer) /\ Outer \in SUBSET Buf
    BY <1>0, <2>2, FS_Subset DEF Counted, NewOK, Types
  <2>4. SumFunctionOnSet(Of(t), Outer) = taken[t]
    BY DEF Counted, SamplesKept, Outer
  <2> QED BY <1>3, <1>4, <1>5, <2>2, <2>3, <2>4
<1>8. WalkOK'
  <2> SUFFICES ASSUME NEW c \in Actor, pc'[c] \in Walking PROVE Walked(c)'
    BY DEF WalkOK
  <2>1. pc'[c] = pc[c] /\ dump'[c] = dump[c] /\ Walked(c)
    BY <1>1, <1>2 DEF WalkOK, Counted, Walking
  <2>2. IsFiniteSet(dump[c].left) /\ dump[c].left \in SUBSET Buf
    <3>1. CASE pc[c] = "written"
      BY <2>1, <3>1, FS_EmptySet DEF Walked
    <3>2. CASE pc[c] \in {"walk", "read"}
      BY <3>2, LeftMade DEF Counted
    <3> QED BY <2>1, <3>1, <3>2 DEF Walking
  <2>3. ASSUME NEW t \in Thread
        PROVE  dump[c].since[t] <= Shown(c, t)' /\ Shown(c, t)' <= taken'[t]
    <3>1. /\ dump[c].since[t] \in Nat /\ dump[c].seen[t] \in Nat
      BY <1>0 DEF Types, Dump
    <3>2. SumFunctionOnSet(Of(t), dump[c].left) \in Int
      BY <1>0, <2>2, OfBuffers, SumInt
    <3>3. Shown(c, t)' = dump[c].seen[t] + SumFunctionOnSet(Of(t)', dump[c].left)
      BY <2>1 DEF Shown
    <3>4. /\ dump[c].since[t] <= dump[c].seen[t] + SumFunctionOnSet(Of(t), dump[c].left)
          /\ dump[c].seen[t] + SumFunctionOnSet(Of(t), dump[c].left) <= taken[t]
      BY <2>1 DEF Walked, Shown
    <3>5. SumFunctionOnSet(Of(t)', dump[c].left) = SumFunctionOnSet(Of(t), dump[c].left)
            + (IF t = a /\ Own(a) \in dump[c].left THEN 1 ELSE 0)
      BY <1>5, <2>2
    <3>6. taken'[t] = taken[t] + (IF t = a THEN 1 ELSE 0) /\ taken[t] \in Nat
      BY <1>4
    <3> QED BY <3>1, <3>2, <3>3, <3>4, <3>5, <3>6
  <2> QED BY <2>1, <2>3 DEF Walked
<1> QED BY <1>6, <1>7, <1>8 DEF Counted

(* Nobody walks through the buffers while a thread holds s_buflock to merge or
   delete its own. *)
LEMMA NoWalk ==
  ASSUME IInv, NEW a \in Thread, pc[a] \in Merging
  PROVE  \A c \in Actor : pc[c] \notin Walking
<1>1. \A c \in Actor : pc[c] \in BigPlaces => c = a
  BY DEF IInv, BigOK, BigPlaces, Actor
<1> QED BY <1>1 DEF BigPlaces, Walking, Merging

(* The samples of a thread that ends move to the master buffer. *)
LEMMA MergeCounted ==
  ASSUME IInv, Counted, NEW a \in Thread, MergeTree(a) PROVE Counted'
<1>0. /\ a \in Actor /\ a \in Buf /\ Master \in Buf /\ a # Master /\ Types
      /\ content \in [Buf -> [Thread -> Nat]]
  BY ThreadAssumption DEF Actor, Buf, IInv, Types
<1>1. /\ Go(a, "erase") /\ pc[a] = "merge tree" /\ made' = made
      /\ content' = [content EXCEPT ![Master] = Plus(@, content[a])]
      /\ UNCHANGED <<perThread, dump, bufs, taken>>
  BY DEF MergeTree, At, flags, history
<1>2. pc'[a] = "erase" /\ (\A c \in Actor : c # a => pc'[c] = pc[c])
  BY <1>0, <1>1, GoOK DEF Place, Merging
<1>3. a \in made /\ Master \in made
  <2>1. perThread /\ Master \in made /\ bufs \subseteq made
    BY <1>1 DEF IInv, BufsOK, Merging
  <2>2. a \in bufs
    BY <1>1, <2>1 DEF IInv, BufsOK, Outside
  <2> QED BY <2>1, <2>2
<1>4. NewOK'
  <2>1. ASSUME NEW t \in Thread
        PROVE  /\ t \in made' => perThread' /\ pc'[t] \notin Gone
               /\ pc'[t] = "insert" => content'[t] = None
    <3>1. CASE t = a
      BY <1>1, <1>2, <3>1 DEF Counted, NewOK, Gone
    <3>2. CASE t # a
      <4>1. pc'[t] = pc[t] /\ t # Master
        BY <1>2, <3>2, ThreadAssumption DEF Actor
      <4>2. content'[t] = content[t]
        BY <1>0, <1>1, <4>1 DEF Buf
      <4> QED BY <1>1, <4>1, <4>2 DEF Counted, NewOK
    <3> QED BY <3>1, <3>2
  <2> QED BY <1>1, <2>1 DEF NewOK, Counted, None
<1>5. SamplesKept'
  <2> SUFFICES ASSUME NEW t \in Thread PROVE SumFunctionOnSet(Of(t)', Outer') = taken'[t]
    BY DEF SamplesKept, Outer
  <2>1. \A u \in Thread : pc'[u] = "erase" <=> pc[u] = "erase" \/ u = a
    BY <1>1, <1>2 DEF Actor
  <2>2. Outer' = Outer \ {a} /\ a \in Outer /\ Master \in Outer \ {a} /\ Outer \subseteq made
    BY <1>0, <1>1, <1>3, <2>1, ThreadAssumption DEF Outer, Inside
  <2>3. IsFiniteSet(Outer) /\ Outer \subseteq Buf /\ IsFiniteSet(Outer \ {a})
    BY <1>0, <2>2, FS_Subset DEF Counted, NewOK, Types
  <2>4. \A b \in Outer : Of(t)[b] \in Int
    BY <1>0, <2>3, OfBuffers
  <2>5. SumFunctionOnSet(Of(t), Outer) = Of(t)[a] + SumFunctionOnSet(Of(t), Outer \ {a})
    BY <2>2, <2>3, <2>4, SumRemove
  <2>6. /\ Of(t)'[Master] = Of(t)[Master] + Of(t)[a]
        /\ \A b \in Buf \ {Master} : Of(t)'[b] = Of(t)[b]
    <3>1. content'[Master] = Plus(content[Master], content[a]) /\ DOMAIN content' = Buf
          /\ DOMAIN content = Buf /\ \A b \in Buf \ {Master} : content'[b] = content[b]
      BY <1>0, <1>1
    <3> QED BY <1>0, <3>1 DEF Of, Plus
  <2>7. SumFunctionOnSet(Of(t)', Outer \ {a}) = SumFunctionOnSet(Of(t), Outer \ {a}) + Of(t)[a]
    <3>1. Of(t)[a] \in Int /\ \A b \in Outer \ {a} : Of(t)[b] \in Int
      BY <2>2, <2>4
    <3>2. \A b \in (Outer \ {a}) \ {Master} : Of(t)'[b] = Of(t)[b]
      BY <2>3, <2>6
    <3> DEFINE S == Outer \ {a}
               d == Of(t)[a]
               f == Of(t)
               g == Of(t)'
    <3>3. /\ IsFiniteSet(S) /\ Master \in S /\ d \in Int /\ g[Master] = f[Master] + d
          /\ \A b \in S : f[b] \in Int
          /\ \A b \in S \ {Master} : g[b] = f[b]
      BY <2>2, <2>3, <2>6, <3>1, <3>2
    <3>4. SumFunctionOnSet(g, S) = SumFunctionOnSet(f, S) + d
      <4> HIDE DEF S, d, f, g
      <4> QED BY <3>3, SumChange
    <3> QED BY <3>4
  <2>8. SumFunctionOnSet(Of(t), Outer \ {a}) \in Int /\ Of(t)[a] \in Int
    BY <2>2, <2>3, <2>4, SumInt
  <2>9. SumFunctionOnSet(Of(t), Outer) = taken[t]
    BY DEF Counted, SamplesKept, Outer
  <2>10. SumFunctionOnSet(Of(t)', Outer \ {a}) = taken[t]
    BY <2>5, <2>7, <2>8, <2>9
  <2>11. SumFunctionOnSet(Of(t)', Outer') = SumFunctionOnSet(Of(t)', Outer \ {a})
    BY <2>2
  <2> QED BY <1>1, <2>10, <2>11
<1>6. WalkOK'
  <2>1. \A c \in Actor : pc'[c] \notin Walking
    BY <1>1, <1>2, NoWalk DEF Merging, Walking
  <2> QED BY <2>1 DEF WalkOK
<1> QED BY <1>4, <1>5, <1>6 DEF Counted

(* The buffer that is deleted has been merged. *)
LEMMA EraseCounted ==
  ASSUME IInv, Counted, NEW a \in Thread, Erase(a) PROVE Counted'
<1>0. a \in Actor /\ Types
  BY DEF Actor, IInv
<1>1. /\ Go(a, "freed") /\ pc[a] = "erase" /\ made' = made \ {a}
      /\ UNCHANGED <<perThread, content, dump, taken>>
  BY DEF Erase, At, flags, history
<1>2. pc'[a] = "freed" /\ (\A c \in Actor : c # a => pc'[c] = pc[c])
  BY <1>0, <1>1, GoOK DEF Place
<1>3. NewOK'
  <2>1. IsFiniteSet(made')
    BY <1>1, FS_Subset DEF Counted, NewOK
  <2>2. ASSUME NEW t \in Thread
        PROVE  /\ t \in made' => perThread' /\ pc'[t] \notin Gone
               /\ pc'[t] = "insert" => content'[t] = None
    BY <1>1, <1>2 DEF Counted, NewOK, Actor
  <2> QED BY <2>1, <2>2 DEF NewOK, None
<1>4. SamplesKept'
  <2>1. \A u \in Thread : pc[u] = "erase" <=> pc'[u] = "erase" \/ u = a
    BY <1>1, <1>2 DEF Actor
  <2>2. Outer' = Outer
    BY <1>1, <2>1 DEF Outer, Inside
  <2>3. \A t \in Thread : Of(t)' = Of(t)
    BY <1>1 DEF Of
  <2> QED BY <1>1, <2>2, <2>3 DEF Counted, SamplesKept, Outer
<1>5. WalkOK'
  <2>1. \A c \in Actor : pc'[c] \notin Walking
    BY <1>1, <1>2, NoWalk DEF Merging, Walking
  <2> QED BY <2>1 DEF WalkOK
<1> QED BY <1>3, <1>4, <1>5 DEF Counted

(* A step of a dump changes no buffer. *)
LEMMA DumpSame ==
  ASSUME IInv, Counted, NEW a \in Actor, NEW to \in {"walk", "read", "written", "idle", "over", "killed"},
         NEW from \in {"dump"} \cup Walking,
         NEW d \in Dump, Dumps(a, from, to, d), to \in Walking => Walked(a)'
  PROVE  Counted'
<1>1. /\ Go(a, to) /\ pc[a] = from /\ dump' = [dump EXCEPT ![a] = d]
      /\ UNCHANGED <<perThread, made, content, taken>>
  BY DEF Dumps, flags, buffers, history
<1>2. to \in Place /\ to \notin {"erase", "insert"} \cup Gone /\ from # "erase"
  BY DEF Place, Quiet, Gone, Walking
<1>3. \A c \in Actor \ {a} : dump'[c] = dump[c]
  BY <1>1 DEF IInv, Types
<1> QED BY <1>1, <1>2, <1>3, SameSums DEF IInv

(* What the new state of a dump in progress is *)
LEMMA DumpState ==
  ASSUME IInv, NEW a \in Actor, NEW to \in Place, NEW from, NEW d \in Dump, Dumps(a, from, to, d)
  PROVE  /\ pc'[a] = to /\ dump'[a] = d /\ taken' = taken
         /\ \A t \in Thread : Of(t)' = Of(t) /\ Of(t) = [b \in Buf |-> content[b][t]]
         /\ \A t \in Thread : taken[t] \in Nat
<1>1. dump \in [Actor -> Dump] /\ taken \in [Thread -> Nat] /\ DOMAIN content = Buf
  BY DEF IInv, Types
<1>2. pc'[a] = to
  BY GoOK DEF Dumps, IInv
<1> QED BY <1>1, <1>2 DEF Dumps, buffers, history, Of

(* When a dump begins no buffer is being merged, and what is not remembered is
   empty: the buffers it will go through hold every sample. *)
LEMMA DumpLockCounted == ASSUME IInv, Counted, NEW a \in Actor, DumpLock(a) PROVE Counted'
<1> DEFINE d == [left |-> bufs \cup {Master}, reading |-> Nobody,
                 seen |-> None, since |-> taken]
<1>1. /\ Types /\ bufs \subseteq made /\ Master \in made /\ made \subseteq Buf
      /\ taken \in [Thread -> Nat] /\ big = Nobody
  BY DEF IInv, Types, BufsOK, DumpLock
<1>2. d \in Dump
  BY <1>1 DEF Dump, Buf, None, Types
<1>3. d.left = bufs \cup {Master} /\ d.since = taken /\ d.seen = None
  OBVIOUS
<1>4. Dumps(a, "dump", "walk", d)
  BY DEF DumpLock, Dumps, At
<1> HIDE DEF d
<1>5. pc'[a] = "walk" /\ dump'[a] = d /\ taken' = taken /\ \A t \in Thread : Of(t)' = Of(t)
  BY <1>2, <1>4, DumpState DEF Place
<1>6. Outer = made
  <2>1. \A t \in Thread : pc[t] # "erase"
    BY <1>1, ThreadAssumption DEF IInv, BigOK, BigPlaces, Merging, Actor
  <2> QED BY <2>1 DEF Outer, Inside
<1>7. ASSUME NEW t \in Thread
      PROVE  SumFunctionOnSet(Of(t), bufs \cup {Master}) = taken[t]
  <2>1. ASSUME NEW b \in made \ (bufs \cup {Master}) PROVE Of(t)[b] = 0
    <3>1. b \in Thread /\ pc[b] = "insert"
      BY <1>1, <2>1 DEF Buf, Counted, NewOK, IInv, BufsOK, Outside, Gone
    <3>2. content[b] = None
      BY <3>1 DEF Counted, NewOK
    <3> QED BY <1>1, <2>1, <3>2, OfBuffers DEF None
  <2>2. bufs \cup {Master} \in SUBSET made /\ IsFiniteSet(made)
    BY <1>1 DEF Counted, NewOK
  <2>3. \A b \in made : Of(t)[b] \in Int
    BY <1>1, OfBuffers
  <2>4. SumFunctionOnSet(Of(t), made) = SumFunctionOnSet(Of(t), bufs \cup {Master})
    BY <2>1, <2>2, <2>3, SumZeros
  <2>5. SumFunctionOnSet(Of(t), Outer) = taken[t]
    BY DEF Counted, SamplesKept, Outer
  <2> QED BY <1>6, <2>4, <2>5
<1>8. Walked(a)'
  <2>1. ASSUME NEW t \in Thread PROVE Shown(a, t)' = taken[t]
    <3>1. Shown(a, t)' = None[t] + SumFunctionOnSet(Of(t), bufs \cup {Master})
      BY <1>3, <1>5 DEF Shown
    <3>2. None[t] = 0 /\ taken[t] \in Nat
      BY <1>1 DEF None
    <3> QED BY <1>7, <3>1, <3>2
  <2>2. \A t \in Thread : dump'[a].since[t] = taken[t] /\ taken[t] \in Nat
    BY <1>1, <1>3, <1>5
  <2> QED BY <1>5, <2>1, <2>2 DEF Walked
<1> QED BY <1>2, <1>4, <1>8, DumpSame

(* A dump chooses the buffer it reads next, the master buffer when no other is
   left. *)
LEMMA DumpBufferCounted ==
  ASSUME IInv, Counted, NEW a \in Actor, NEW b \in Buf, DumpBuffer(a, b)
  PROVE  Counted'
<1> DEFINE d == [left |-> dump[a].left, reading |-> b,
                 seen |-> dump[a].seen, since |-> dump[a].since]
<1>1. dump[a] \in Dump
  BY DEF IInv, Types
<1>2. d \in Dump /\ d = [dump[a] EXCEPT !.reading = b]
  BY <1>1 DEF Dump
<1>3. d.left = dump[a].left /\ d.since = dump[a].since /\ d.seen = dump[a].seen /\ d.reading = b
  OBVIOUS
<1>4. Dumps(a, "walk", "read", d) /\ (b = Master => dump[a].left = {Master})
  BY <1>2 DEF DumpBuffer, Dumps, At
<1> HIDE DEF d
<1>5. pc'[a] = "read" /\ dump'[a] = d /\ taken' = taken /\ \A t \in Thread : Of(t)' = Of(t)
  BY <1>2, <1>4, DumpState DEF Place
<1>6. Walked(a)
  BY <1>4 DEF Counted, WalkOK, Walking, Dumps
<1>7. \A t \in Thread : Shown(a, t)' = Shown(a, t)
  BY <1>3, <1>5 DEF Shown
<1>8. Walked(a)'
  BY <1>3, <1>4, <1>5, <1>6, <1>7 DEF Walked
<1> QED BY <1>2, <1>4, <1>8, DumpSame DEF Walking

(* What a dump reads it has no longer to go through. *)
LEMMA DumpReadCounted == ASSUME IInv, Counted, NEW a \in Actor, DumpRead(a) PROVE Counted'
<1> DEFINE b == dump[a].reading
           to == IF b = Master THEN "written" ELSE "walk"
           d == Seen(a)
<1>1. /\ Types /\ content \in [Buf -> [Thread -> Nat]] /\ dump[a] \in Dump /\ pc[a] = "read"
  BY DEF IInv, Types, DumpRead, At
<1>2. b \in dump[a].left /\ dump[a].left \subseteq Buf /\ IsFiniteSet(dump[a].left)
  BY <1>1, LeftMade DEF Counted, IInv, BufsOK
<1>3. d \in Dump
  <2>1. Plus(dump[a].seen, content[b]) \in [Thread -> Nat]
    BY <1>1, <1>2 DEF Plus, Dump
  <2> QED BY <1>1, <2>1 DEF Dump, Seen
<1>4. /\ d.left = dump[a].left \ {b} /\ d.since = dump[a].since
      /\ d.seen = Plus(dump[a].seen, content[b]) /\ d.reading = Nobody
  BY DEF Seen
<1>5. Dumps(a, "read", to, d)
  <2>1. /\ Go(a, to) /\ UNCHANGED <<flags, buffers, big, history>>
    BY DEF DumpRead
  <2>2. dump' = [dump EXCEPT ![a] = d]
    BY DEF DumpRead
  <2> QED BY <1>1, <2>1, <2>2 DEF Dumps
<1>6. to \in {"written", "walk"} /\ (to = "written" => b = Master)
  OBVIOUS
<1>7. Walked(a)
  BY <1>1 DEF Counted, WalkOK, Walking
<1>8. to = "written" => dump[a].left \ {b} = {}
  BY <1>1, <1>6, <1>7 DEF Walked
<1> HIDE DEF d, to, b
<1>9. pc'[a] = to /\ dump'[a] = d /\ taken' = taken /\ \A t \in Thread : Of(t)' = Of(t)
  BY <1>3, <1>5, <1>6, DumpState DEF Place
<1>10. ASSUME NEW t \in Thread PROVE Shown(a, t)' = Shown(a, t)
  <2>1. \A y \in dump[a].left : Of(t)[y] \in Int
    BY <1>1, <1>2, OfBuffers
  <2>2. SumFunctionOnSet(Of(t), dump[a].left) =
          Of(t)[b] + SumFunctionOnSet(Of(t), dump[a].left \ {b})
    BY <1>2, <2>1, SumRemove
  <2>3. SumFunctionOnSet(Of(t), dump[a].left \ {b}) \in Int
    <3>1. IsFiniteSet(dump[a].left \ {b})
      BY <1>2, FS_Subset
    <3> QED BY <2>1, <3>1, SumInt
  <2>4. Of(t)[b] = content[b][t] /\ Of(t)[b] \in Int
    BY <1>1, <1>2, OfBuffers
  <2>5. d.seen[t] = dump[a].seen[t] + Of(t)[b] /\ dump[a].seen[t] \in Int
    BY <1>1, <1>4, <2>4 DEF Plus, Dump
  <2>6. Shown(a, t)' = d.seen[t] + SumFunctionOnSet(Of(t), dump[a].left \ {b})
    BY <1>4, <1>9 DEF Shown
  <2> QED BY <2>2, <2>3, <2>4, <2>5, <2>6 DEF Shown
<1>11. Walked(a)'
  BY <1>4, <1>6, <1>7, <1>8, <1>9, <1>10 DEF Walked
<1> QED BY <1>3, <1>5, <1>6, <1>11, DumpSame DEF Walking

(* A dump that has not begun shows nothing. *)
LEMMA DumpFailsCounted == ASSUME IInv, Counted, NEW a \in Actor, DumpFails(a) PROVE Counted'
<1> DEFINE to == Return(a)
<1>1. /\ dump[a] \in Dump /\ dump = [dump EXCEPT ![a] = dump[a]]
  BY DEF IInv, Types
<1>2. Dumps(a, "dump", to, dump[a])
  BY <1>1 DEF DumpFails, Dumps, At
<1>3. to \in {"idle", "over", "killed"} /\ to \notin Walking
  BY DEF Walking, Return
<1> HIDE DEF to
<1> QED BY <1>1, <1>2, <1>3, DumpSame DEF Walking

(* A dump that is done shows nothing any more. *)
LEMMA DumpDoneCounted == ASSUME IInv, Counted, NEW a \in Actor, DumpDone(a) PROVE Counted'
<1> DEFINE to == Return(a)
<1>1. NoDump \in Dump
  BY DEF NoDump, None, Dump
<1>2. Dumps(a, "written", to, NoDump)
  BY DEF DumpDone, Dumps, At
<1>3. to \in {"idle", "over", "killed"} /\ to \notin Walking
  BY DEF Walking, Return
<1> HIDE DEF to
<1> QED BY <1>1, <1>2, <1>3, DumpSame DEF Walking

(* Every step keeps the sums. *)
LEMMA NextCounted == IInv /\ Counted /\ [Next]_vars => Counted'
<1> SUFFICES ASSUME IInv, Counted, [Next]_vars PROVE Counted'
  OBVIOUS
<1>1. CASE UNCHANGED vars
  <2>1. UNCHANGED <<perThread, made, content, taken, dump, pc>>
    BY <1>1 DEF vars
  <2>2. NewOK'
    BY <2>1 DEF Counted, NewOK, None
  <2>3. SamplesKept'
    <3>1. {b \in made : ~ Inside(b)}' = {b \in made : ~ Inside(b)}
      BY <2>1 DEF Inside
    <3>2. \A t \in Thread : Of(t)' = Of(t)
      BY <2>1 DEF Of
    <3> QED BY <2>1, <3>1, <3>2 DEF Counted, SamplesKept
  <2>4. \A c \in Actor : Walked(c) => Walked(c)'
    <3>1. \A c \in Actor, t \in Thread : Shown(c, t)' = Shown(c, t)
      BY <2>1 DEF Shown, Of
    <3> QED BY <2>1, <3>1 DEF Walked
  <2>5. WalkOK'
    BY <2>1, <2>4 DEF Counted, WalkOK
  <2> QED BY <2>2, <2>3, <2>5 DEF Counted
<1>2. ASSUME NEW a \in Actor, Proceed(a) \/ Begin(a) PROVE Counted'
  <2>1. CASE a \in Thread /\ (Wrap(a) \/ SampleRecord(a) \/ MergeTree(a) \/ Erase(a))
    BY <2>1, WrapCounted, SampleCounted, MergeCounted, EraseCounted
  <2>2. CASE DumpLock(a) \/ DumpRead(a) \/ DumpDone(a) \/ DumpFails(a)
    BY <2>2, DumpLockCounted, DumpReadCounted, DumpDoneCounted, DumpFailsCounted
  <2>3. CASE \E b \in Thread \cup {Master} : DumpBuffer(a, b)
    BY <2>3, DumpBufferCounted DEF Buf
  <2>4. CASE \/ a \in Thread /\ \/ Create(a) \/ WrapLate(a) \/ Insert(a) \/ SampleBegin(a)
                                \/ SampleBuffer(a) \/ SampleLock(a) \/ Leave(a) \/ FreeLock(a)
                                \/ MergeLockMaster(a) \/ MergeLockOther(a) \/ FreeUnlock(a)
                                \/ Kill(a) \/ KillDisable(a) \/ KillEnable(a)
                                \/ Exit(a) \/ ExitDeactivate(a) \/ ExitDisable(a)
             \/ DumpNow(a)
    BY <2>4, PlainCounted
  <2> QED BY <1>2, <2>1, <2>2, <2>3, <2>4 DEF Proceed, Begin
<1> QED BY <1>1, <1>2 DEF Next

(* The sums hold always. *)
LEMMA AlwaysCounted == Spec => []Counted
BY Invariant, InitCounted, NextCounted, PTL DEF Spec

(* Every sample is in exactly one place: outside the deletion of a merged buffer
   the buffers hold exactly what each thread has recorded, however threads come
   and go, sample and dump. *)
THEOREM NoSampleLost == Spec => []SamplesKept
<1>1. Counted => SamplesKept
  BY DEF Counted
<1> QED BY <1>1, AlwaysCounted, PTL

(* A finished dump shows every sample once: at least those recorded before it
   began, and none but those recorded by its end. *)
THEOREM DumpsAreExact == Spec => []DumpExact
<1>1. ASSUME IInv, Counted PROVE DumpExact
  <2> SUFFICES ASSUME NEW a \in Actor, pc[a] = "written", NEW t \in Thread
               PROVE  /\ dump[a].since[t] <= dump[a].seen[t]
                      /\ dump[a].seen[t] <= taken[t]
    BY DEF DumpExact
  <2>1. Walked(a)
    BY <1>1 DEF Counted, WalkOK, Walking
  <2>2. dump[a].left = {}
    BY <2>1 DEF Walked
  <2>3. dump[a].seen[t] \in Nat
    BY <1>1 DEF IInv, Types, Dump
  <2>4. Shown(a, t) = dump[a].seen[t]
    <3>1. SumFunctionOnSet(Of(t), {}) = 0
      BY SumEmpty
    <3> QED BY <2>2, <2>3, <3>1 DEF Shown
  <2> QED BY <2>1, <2>4 DEF Walked
<1> QED BY <1>1, Invariant, AlwaysCounted, PTL
===============================================================================

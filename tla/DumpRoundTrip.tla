----------------------------- MODULE DumpRoundTrip -----------------------------
(***************************************************************************)
(* A program that dumps its profile, once or more often, and the analyser  *)
(* that reads all of its dumps: DumpWriter, the buffer of FastIO with the  *)
(* system call below it, and DumpReader.                                   *)
(*                                                                         *)
(* The buffers do not change during a dump, which holds their locks.  What *)
(* dumpAllProfiles() puts into FastIO does not depend on what write() does *)
(* with it, so the tokens of a dump are made first and then put one by     *)
(* one.  A file that is closed does not change, so it is read at once.     *)
(***************************************************************************)
EXTENDS DumpWriter, DumpReader, Functions

CONSTANTS
  Programs,      \* each: the buffers at each of its dumps, and the key asked for, "" for none
  CounterDefs,   \* the counters of the program
  SIZE,          \* of the buffer of FastIO, in tokens
  MaxFailures    \* bound on the writes that fail

ASSUME SizeAssumption == SIZE \in Nat \ {0}
ASSUME PathAssumption == \A a \in Addresses : RealPath[BinaryOf[a]] # Missing
ASSUME DefsAssumption == "" \notin CounterDefs

Counter == [def : CounterDefs, ticks : Nat, value : Nat, peak : Nat, live : Seq(Nat)]
FrameRecord  == [address : Nat, counters : Seq(Counter), children : Seq(Nat)]

(* A buffer: every frame but the root is the child of one that precedes it, *)
(* and only once.  What a counter counts shows in its ticks or its peak.    *)
IsTree(frames) ==
  /\ frames # <<>>
  /\ \A i \in 2..Len(frames) :
       /\ frames[i].address \in Addresses
       /\ \E p \in 1..(i - 1) : \E k \in DOMAIN frames[p].children :
            /\ frames[p].children[k] = i
            /\ \A q \in DOMAIN frames : \A l \in DOMAIN frames[q].children :
                 frames[q].children[l] = i => q = p /\ l = k
  /\ \A i \in DOMAIN frames :
       /\ \A k \in DOMAIN frames[i].children : frames[i].children[k] \in 2..Len(frames)
       /\ \A j \in DOMAIN frames[i].counters :
            LET c == frames[i].counters[j] IN c.ticks = 0 /\ c.peak = 0 => c.value = 0

ASSUME ProgramsAssumption ==
  \A p \in Programs :
    /\ p.dumps \in Seq(Seq(Seq(FrameRecord))) \ {<<>>}
    /\ \A d \in DOMAIN p.dumps :
         p.dumps[d] # <<>> /\ \A b \in DOMAIN p.dumps[d] : IsTree(p.dumps[d][b])

VARIABLES
  program,   \* of Programs
  phase,     \* "begin", "frames", "counters", "put", "flush", "read" or "done"
  dump,      \* dumpAllProfiles(): the dumps begun so far,
  buffer,    \* the buffer that is dumped,
  stack,     \* dumpOneProfile(): the frames to be entered, the first one next,
  ctr,       \* the counters done of that frame
  info,      \* and the IgProfDumpInfo
  lines,     \* history: the frames whose lines have been begun
  todo,      \* what is still to be put
  buf,       \* FastIO: the buffer, its first pos_ elements
  off,       \* how much of it flush() has written
  file,      \* what the dump's file holds
  failures,  \* history: the writes that failed
  torn,      \* history: if one of them has cut a token into two
  reader     \* the analyser

vars == <<program, phase, dump, buffer, stack, ctr, info, lines, todo, buf, off, file,
          failures, torn, reader>>

writer == <<dump, buffer, stack, ctr, info, lines>>
fastio == <<todo, buf, off, file, failures, torn>>

NoNumbers == [c \in CounterDefs |-> -1]

Init ==
  /\ program \in Programs
  /\ phase = "begin"
  /\ dump = 0 /\ buffer = 0 /\ stack = <<>> /\ ctr = 0
  /\ info = IgProfDumpInfo(NoNumbers)
  /\ lines = {}
  /\ todo = <<>> /\ buf = <<>> /\ off = 0 /\ file = <<>>
  /\ failures = 0 /\ torn = FALSE
  /\ reader = FirstReader(program.key)

(***************************************************************************)
(* dumpAllProfiles(): the header, and the buffers one after the other, the *)
(* master buffer last.                                                     *)
(***************************************************************************)
Begin ==
  /\ phase = "begin"
  /\ phase' = "frames"
  /\ dump' = dump + 1
  /\ buffer' = 1
  /\ stack' = <<Root>>
  /\ info' = IgProfDumpInfo(info.ids)
  /\ UNCHANGED <<program, ctr, lines, fastio, reader>>

Buffers == program.dumps[dump]
Buffer  == Buffers[buffer]
Current == Head(stack)
ThisFrame == Buffer[Current.frame]

(* A frame is left for its children and then for what follows it. *)
Descend == stack' = Below(Buffer, Current) \o Tail(stack)

(* There is no line for the root. *)
EnterRoot ==
  /\ phase = "frames" /\ stack # <<>>
  /\ Current.depth = 0
  /\ Descend
  /\ UNCHANGED <<program, phase, dump, buffer, ctr, info, lines, fastio, reader>>

EnterFrame ==
  /\ phase = "frames" /\ stack # <<>>
  /\ Current.depth > 0
  /\ info' = PutFrame(info, Current.depth, ThisFrame.address)
  /\ ctr' = 0
  /\ lines' = lines \cup {<<dump, buffer, Current.frame>>}
  /\ phase' = IF info'.crashed THEN "done" ELSE "counters"
  /\ UNCHANGED <<program, dump, buffer, stack, fastio, reader>>

NextCounter ==
  /\ phase = "counters"
  /\ ctr < Len(ThisFrame.counters)
  /\ info' = PutCounter(info, ThisFrame.counters[ctr + 1])
  /\ ctr' = ctr + 1
  /\ UNCHANGED <<program, phase, dump, buffer, stack, lines, fastio, reader>>

LeaveLine ==
  /\ phase = "counters"
  /\ ctr = Len(ThisFrame.counters)
  /\ info' = EndLine(info)
  /\ Descend
  /\ phase' = "frames"
  /\ UNCHANGED <<program, dump, buffer, ctr, lines, fastio, reader>>

EndBuffer ==
  /\ phase = "frames" /\ stack = <<>>
  /\ info' = [info EXCEPT !.ids = dumpResetIDs(@, Buffer)]
  /\ IF buffer < Len(Buffers)
     THEN /\ buffer' = buffer + 1
          /\ stack' = <<Root>>
          /\ UNCHANGED <<phase, todo>>
     ELSE /\ phase' = "put"
          /\ todo' = info.out
          /\ UNCHANGED <<buffer, stack>>
  /\ UNCHANGED <<program, dump, ctr, lines, buf, off, file, failures, torn, reader>>

(***************************************************************************)
(* FastIO: the buffer is flushed when it is full, which as tokens differ   *)
(* in length may be after any number of them, and at the end of the dump.  *)
(***************************************************************************)
PutToken ==
  /\ phase = "put"
  /\ buf' = Append(buf, Head(todo))
  /\ todo' = Tail(todo)
  /\ phase' \in IF Len(buf') = SIZE \/ todo' = <<>> THEN {"flush"} ELSE {"put", "flush"}
  /\ UNCHANGED <<program, writer, off, file, failures, torn, reader>>

(* flush() goes on while there is something left, *)
Unwritten(n) == off + n < Len(buf)

(* and then the buffer is empty; the last flush is followed by fclose(). *)
Flushed(contents) ==
  /\ buf' = <<>>
  /\ off' = 0
  /\ file' = contents
  /\ phase' = IF todo = <<>> THEN "read" ELSE "put"

(* write() transfers some of what is left: n tokens, and maybe some bytes of *)
(* the next one, which the next call completes, unless it fails.             *)
Write(n) ==
  LET contents == file \o SubSeq(buf, off + 1, off + n)
  IN  /\ phase = "flush"
      /\ n <= Len(buf) - off
      /\ IF Unwritten(n)
         THEN off' = off + n /\ file' = contents /\ UNCHANGED <<phase, buf>>
         ELSE Flushed(contents)
      /\ UNCHANGED <<program, writer, todo, failures, torn, reader>>

(* Mutant: after a failure flush() starts again with the whole buffer. *)
GiveUp_Restart == off' = 0 /\ UNCHANGED <<phase, buf, file>>

GiveUp == Flushed(file)

(* write() fails with something other than EINTR; what is left is dropped. *)
(* EINTR repeats the call and changes nothing.  What is dropped begins     *)
(* where the last call ended and ends with the buffer: either can be       *)
(* inside a token, and what is left of it is joined with another one.      *)
WriteFails(cut) ==
  /\ phase = "flush"
  /\ failures < MaxFailures
  /\ failures' = failures + 1
  /\ torn' = (torn \/ cut)
  /\ GiveUp
  /\ UNCHANGED <<program, writer, todo, reader>>

(* Joined tokens may read as anything, as two numbers do that become one:  *)
(* what the analyser makes of them is left open.                           *)
Read ==
  /\ phase = "read"
  /\ reader' = IF torn /\ reader.status = "reading" THEN Stopped(reader, "garbled") ELSE readDump(reader, file)
  /\ file' = <<>>
  /\ phase' = IF dump = Len(program.dumps) THEN "done" ELSE "begin"
  /\ UNCHANGED <<program, writer, todo, buf, off, failures, torn>>

Next ==
  \/ Begin
  \/ EnterRoot
  \/ EnterFrame
  \/ NextCounter
  \/ LeaveLine
  \/ EndBuffer
  \/ PutToken
  \/ \E n \in 1..SIZE : Write(n)
  \/ \E cut \in BOOLEAN : WriteFails(cut)
  \/ Read

Spec == Init /\ [][Next]_vars

(***************************************************************************)
(* What the dumps say, from the trees alone: the names on the path to a    *)
(* frame, and the frames and counters of all dumps by their places.        *)
(***************************************************************************)
ReadName(address) ==
  IF NameOf[address] = <<>>
  THEN <<"@{", RealPath[BinaryOf[address]], ToString(address)>> ELSE NameOf[address]

ParentOf(frames, i) ==
  CHOOSE p \in DOMAIN frames : i \in Range(frames[p].children)

PathsOf(frames) ==
  LET path[i \in DOMAIN frames] ==
        IF i = 1 THEN <<>>
        ELSE Append(path[ParentOf(frames, i)], ReadName(frames[i].address))
  IN  path

BufferAt(d, b) == program.dumps[d][b]

FramesOf(d) ==
  UNION {{<<d, b, i>> : i \in 2..Len(BufferAt(d, b))} : b \in DOMAIN program.dumps[d]}

Frames == UNION {FramesOf(d) : d \in DOMAIN program.dumps}

FrameAt(x) == BufferAt(x[1], x[2])[x[3]]
PathTo(x)  == PathsOf(BufferAt(x[1], x[2]))[x[3]]

CountersOf(S) == UNION {{<<x, j>> : j \in DOMAIN FrameAt(x).counters} : x \in S}
CounterAt(c)  == FrameAt(c[1]).counters[c[2]]

Sum(S, field) == SumFunctionOnSet([c \in S |-> CounterAt(c)[field]], S)

(* The counters of that name among those at S, and those on the path *)
Named(S, key) == {c \in S : CounterAt(c).def = key}
OnPath(S, path) == {c \in S : PathTo(c[1]) = path}

Counted(S, path, key) ==
  [freq |-> Sum(OnPath(Named(S, key), path), "ticks"),
   cnt  |-> Sum(OnPath(Named(S, key), path), "value")]

(* igprof-analyse refuses a dump that counts nothing. *)
Counting ==
  \A d \in DOMAIN program.dumps : \E c \in CountersOf(FramesOf(d)) : CounterAt(c).ticks > 0

(* Two binaries resolve to the same file: a library loaded into two namespaces. *)
SharedFile ==
  \E x, y \in Frames :
    LET a == BinaryOf[FrameAt(x).address]
        b == BinaryOf[FrameAt(y).address]
    IN  a # b /\ RealPath[a] = RealPath[b]

(* Whatever buffers a program has and however often it dumps them, into      *)
(* however small pieces the system cuts the writes: the analyser finds every *)
(* call path with the sum of its costs in all buffers and dumps.  The        *)
(* numbers of symbols, binaries and counters are only a code for names.      *)
ReadsBack ==
  phase = "done" /\ failures = 0 /\ Counting /\ ~ SharedFile =>
    /\ ~ info.crashed
    /\ reader.status = "reading"
    /\ reader.cost = [p \in {PathTo(x) : x \in Frames} |->
                        Counted(CountersOf(Frames), p, reader.key)]

(* A dump whose write failed has a gap, and may still be read without an     *)
(* error.  If the gap begins and ends between tokens, what is read never     *)
(* exceeds what was dumped, although a cost may be found on another path     *)
(* than its own.  Of a gap that cuts a number nothing of the kind is true.   *)
DamageOnlyLoses ==
  phase = "done" /\ reader.status = "reading" =>
    SumFunction([p \in DOMAIN reader.cost |-> reader.cost[p].freq])
      <= Sum(Named(CountersOf(Frames), reader.key), "ticks")

===============================================================================

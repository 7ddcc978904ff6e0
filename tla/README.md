# Verification project for IgProf

IgProf is a profiler that is preloaded into a program (`src/igprof` sets
LD_PRELOAD), patches functions of the C library to get control, and records
call stacks with counters in trace buffers in memory. At exit, or on demand,
the buffers are written to a profile dump, which `igprof-analyse` reads and
turns into reports. The TLA+ modules in this directory model the parts of it
that keep state, TLC checks them on small instances, and TLAPS proves the
central invariants for every instance. Paths below are relative to the
repository's `src/` directory unless they say otherwise.

Run a check with `tlc -config X.cfg M`, a proof with `tlapm MProofs.tla`.

## Inventory

| Component | State | Operations | What is hard | Correct means |
|---|---|---|---|---|
| Resource accounting (`profile-trace.h`, `profile-trace.cc`) | open-addressed hash of live resources, per-counter lists of records, free list | `acquire`, `release`, growth of the hash, `reset` | deletions leave holes; growth can fail and start over with records half moved; missed releases | a plain map from resource to owner and size |
| Call trees (same files) | tree of frames, counters per frame, call cache | `push`, `tick`, `mergeFrom`, `reset` | the cache short-cuts the walk; merging replays a whole tree through it; room for three counters | every sample is charged once, to its call path |
| Profiler core (`profile.cc`, `profile.h`) | set of buffers, `s_buflock`, one lock per buffer, `s_igprof_enabled`, `s_igprof_activated` | thread start and end, dump on demand, at `kill()`, at `exit()` | unsynchronised flags, buffers deleted while others dump, lock order | a dump shows every sample once; no use after deletion; dumps end |
| Memory profiler (`profile-mem.cc`) | live map in the one shared buffer | hooks of the allocator | an address is reused by another thread between the real call and its bookkeeping; failing calls | live map = allocated blocks |
| Empty-memory profiler (`profile-empty.cc`) | the same map; a counter of untouched pages | hooks of the allocator | calls the real `realloc` before it forgets the old block; sizes are added back before a release | as the memory profiler |
| Descriptor profiler (`profile-fd.cc`) | live map in the one shared buffer | hooks of `open`, `close`, `dup`, `dup2`, ... | the same with descriptors, updated late by design | live map = open descriptors |
| Performance profiler (`profile-perf.cc`) | the interval timer of the process | signal handler, `fork`, `system`, thread start and end | calls and dumps that overlap save and put back one timer; a child inherits samples and held locks | sampling goes on; ticks stand for time; a child's profile is its own |
| Energy profiler (`profile-energy.cc`) | last readings | signal handler | up to four counters, room for three | readings are charged once |
| Function instrumentation, call counting (`profile-finstrument.cc`, `profile-calls.cc`) | global depth and time stacks | enter, exit | globals shared by threads, no lock, no limit | self times add up |
| Pools (`buffer.*`) | free chunks | allocate | mmap failure | records are distinct |
| Symbol cache (`sym-cache.*`) | sorted hash chains, numbers of symbols and binaries | look up an address | chains sorted by address | one entry per address |
| Symbol lookup (`sym-resolve.h`, `walk-syms.*`) | maps and symbol tables of the process | resolve an address | formats | - |
| Dump writer (`fastio.h`, `dumpOneProfile` in `profile.cc`) | output buffer, numbers given so far | put, flush | short and failing writes; numbers of counters outlast a dump | what is read is what was written |
| Function hooking (`hook.*`) | patched code, trampolines, chains | `hook` | machine code is moved; late failures; a hook of a hook | the program does what it did |
| Analyser (`analyse.*`) | call tree, flat map, page ranges | read a dump, filters, merges, reports | recursion, surgery on the tree during its walk, cut-offs | costs are charged once, to the right function; reports agree |
| Tracing tools (`trace*.cc`) | next to none | one line per call | - | - |
| Scripts, web pages | - | launching, presentation | - | - |

How they interact. A profiler module registers with `igprof_init` (one per
process; a second one is refused) and hooks functions with `IgHook::hook`. A
hook or a signal handler calls `igprof_disable`, gets its thread's buffer with
`igprof_buffer`, and under the buffer's lock calls `push`, `tick` and
`acquire` or `release`. In per-thread mode every thread has a buffer that is
merged into the master buffer at the thread's end; otherwise all share the
master buffer. The dumper walks all buffers under `s_buflock`, asks the symbol
cache for the names of addresses and puts lines into a `FastIO`, which writes
them to a file. After a `fork()` the child resets all buffers under the same
locks. The analyser shares only the format of the dump.

The hazards, each with its line in the source, are listed in `PROJECT.json`
with the properties that cover them or the reason why none does.

## Modules

| Module | Models | Uses |
|---|---|---|
| `LiveMap` | abstract specification: a map of live resources | |
| `ResourceTable` | the hash, the lists, the free list, growth | |
| `ResourceHistory` | `ResourceTable` with the last completed call | `LiveMap` (refinement) |
| `StackTree` | `push`, `tick`, `mergeFrom`, `reset` | |
| `LiveHooks` | what the hooks of the next two have in common | |
| `MemProfiler` | hooks of the memory and the empty-memory profiler | `LiveHooks`, `LiveMap` (as its buffer) |
| `FdProfiler` | hooks of the descriptor profiler | `LiveHooks`, `LiveMap` (as its buffer) |
| `ProfileCore` | threads, buffers, locks, dumps | |
| `PerfProfiler` | the interval timer, `fork`, `system`, the child's reset | |
| `SymbolCache` | chains of symbols and binaries | |
| `DumpWriter` | `dumpOneProfile`: the lines of a dump | `SymbolCache` |
| `DumpReader` | `readDump` of the analyser over the same lines | |
| `DumpRoundTrip` | dumps through `FastIO` to files that are then read | `DumpWriter`, `DumpReader` |
| `Options` | the analyser's command line | |
| `Ranges` | page ranges | |
| `CallTree` | tree filters | `Ranges` |
| `FlatProfile` | the flat map and its filters | `CallTree` |
| `Report` | the reports | `FlatProfile`, `Options` |
| `Analyse` | one execution of `igprof-analyse`, pass by pass | `Report` |
| `AnalyseCorrect` | what it promises, from the call paths alone | `Analyse` |
| `Processor` | the instructions of a few kinds in memory | |
| `Hook` | `IgHook::hook` | `Processor` |
| `HookCorrect` | what running code does; what hooking promises | `Hook` |
| `SumTheorems` | lemmas about sums over finite sets, for the proofs | |
| `*Proofs` | proofs about the module they are named after | |
| `MC*` | instances for TLC | |

The composition goes through `LiveMap`: `ResourceHistory` shows that the
table implements it, and the profilers, whose every call into the buffer is
made under the buffer's lock, are modelled against it.

Names: an operator whose name has an underscore (`Insert_CutsList`) is a
mutant, a form of the operator with a plausible error in it. Put in place of
the original, it makes the property that is named beside it in `PROJECT.json`
fail in its run.

### ResourceTable, ResourceHistory

`buf` is the buffer: `table` is the hash `restable_` (slots of a resource and
a record), `rec` the pool of records with their links, `ctr` the counters,
`resfree` the free list. A record is named by a model value; the address 0 is
`Zero`. `acquire` of an unknown and of a known resource, `release` and
`reset` are one action each, as they run under the lock of the buffer.
Growing the hash is not: `expandResourceHash` is taken apart into one action
per iteration (`RehashSkip`, `RehashPlace`, `RehashRetry`, `RehashDone`),
with the new table, its size and the loop's index in `newTable`, `newSize`
and `cursor`, because the invariant of that loop is where the danger is. The
hash function is a constant, `Home`; the probe sequence is the code's, with
`MaxProbes` for MAX_HASH_PROBES. `Unsigned` is 2^32: the next size is
`1u << newLogSize`, and beyond `Unsigned` the size goes round (`Grown`), as the shift of x86
and AArch64 does; a shift that gives 0, as ARM's does, is the other outcome. mmap
may fail at any size. `ResourceHistory` adds the call that was completed last, so that
the refinement says which entry a step may change.

### StackTree

A frame is named by its path of addresses from the root; `kids[b][n]` is the
child list of frame `n` in buffer `b`, in the order of the links. The loop of
`push` is one action per frame (`PushHit` through the call cache, `PushMiss`
through `childStackNode`), `tick` is one action per counter, the recursion of
`mergeFrom` is a worklist. `profiler` is the one active profiler: the counters
it ticks per sample and whether threads have their own buffers. `cost` and
`shrunk` are history: what has been sampled, and whether a
buffer ever had a push that was shorter than an earlier one.

### MemProfiler and FdProfiler

A hook in progress is a record in `th[t]` with the list of the phases still
to be done: `remove` and `add` update the live map, `chain` is the real call.
The order of the phases and their conditions are those of the hooks. `LiveHooks` has what
the two share: whether `igprof_disable` finds the thread's flag and the profilers on (`On`), and whether
`igprof_buffer` finds a buffer (`bufs`), which each update asks anew and without which it does
nothing (`NoBuffer`, `FdNoBuffer`). There is none in a thread whose keys have been destroyed, in the destructor
of another key (`KeysDestroyed`), nor once `exit()` has deactivated the profilers (`Disable`, `Deactivate`),
under the feet of hooks that are in progress. The
allocator and the descriptor table are external and do what POSIX lets them
do, such as returning an address as soon as it has been freed. The program is
well-behaved: it passes on only what it owns.

`mode` is what the process was started with: which of the two memory profilers
it is, how overhead is accounted, which functions the program calls, with which
sizes, what may come of them, and whether `kill()` switches the profilers off and
on. The empty-memory profiler differs in the order of its `realloc` hook
(`chain` before `remove`), ends it at a null result, and keeps in `value[s]`
the untouched bytes charged to a call stack. `excused`, `lost` and `blind` are history: blocks that
the known defects may have left behind, blocks whose record a late `realloc`
has taken away, and whether a hook has run with the profilers off or without a buffer.

A `close()` that fails may have released the descriptor all the same, with EINTR or EIO, and
the hook does not forget it then (`CloseFails`). `stale` is history: the descriptors whose record was
left behind so, or by an update without a buffer, until they are next updated.

### ProfileCore

A thread or dumper has a place `pc[a]` in one of `threadWrapper`,
`profileSignalHandler` (which stands for every hook that samples),
`freeTraceBuffer`, `dokill`, `exitDump` and `dumpAllProfiles`; each step
between two lock operations, or reads or writes of a shared flag, is an action
of its own. A buffer is reduced to how many samples of each thread it
holds. A thread that ended can be followed by another of its name, so that
buffers are deleted and made again. Deleted buffers keep what they held, for
whoever would read them in error. A dump whose output cannot be opened returns at
once (`DumpFails`).

### PerfProfiler

The timer is its interval and what is left of it; `Elapse` lets CPU time pass
and the signal become pending. Every call of `getitimer` and `setitimer` in `dofork` and
`dosystem` is an action of its own, between which other threads can run and the timer can fire: `Enter`
reads the timer, `SlowDown` saves and slows it down, `ReadSlow` reads what it has left; after the call
`Return` reads what it has left then, `Resume` puts it back, and `Charge` reads the interval and works
out the ticks. `Fail`, `Born` and `Return` are the outcomes of a `fork()`; after `Born` the model
follows the child, which has this thread only, no timer, and the locks as they
were held. `SetTimer` and `PutBack` also keep the history the properties need:
`stale` are the calls and dumps during which somebody else has set the timer,
`upset` by which named cause the timer was lost. Buffers are reduced to whose
ticks they hold.

### SymbolCache, DumpWriter, DumpReader, DumpRoundTrip

A dump is a sequence of tokens: a frame with its depth, symbol and binary, each
defined or referred to by number, then its counters and live resources, then the
end of the line. A buffer is the sequence of its frames, each with the indices of its
children. The recursion of `dumpOneProfile` is a stack of the frames that are still to
be entered (`stack`), and each step of it an action: `EnterRoot` and `EnterFrame` ask the
symbol cache and give numbers, `NextCounter` writes a counter, `LeaveLine` ends the line
and goes on to the children, `EndBuffer` is `dumpResetIDs`, which clears the numbers of counters,
kept in their definitions. `DumpRoundTrip` then puts the tokens
one by one into a `FastIO` of `SIZE`, which is flushed when it is full, after any number of tokens as they
differ in length, and whose `flush` is at the mercy of `write()`:
it transfers any part of what is left, or fails. A call that transfers a part of a token is
completed by the next one, unless that fails; the gap can then begin, or end, inside a token, and what is left of it
is joined with another one (`torn`). Two numbers can become one by it, and what the analyser makes
of such a file is left open (`Read`). Files are then read one after
another by `readDump`, a fold over the tokens, which keeps tables by number and stops in an error
message, an assertion, or an access beyond a table. The properties compare the
costs that were read with sums over the trees that were dumped.

`NameAssumption` and `PathAssumption` say that no symbol has the name that is made up for the nameless
(`@?` begins none of the compiler's) and that a binary resolves to some name;
`DefsAssumption`, that no counter is nameless, as the code names them all; `ProgramsAssumption`, that
the frames of a buffer are a tree, as `TreeInv` of `StackTree` has it, and that a counter that has
neither ticks nor a peak has no value: `tick` adds to all of them at once, and `acquireResource` ticks.

### Options, Ranges, CallTree, FlatProfile, Report, Analyse, AnalyseCorrect

`Analyse` is the sequence of `run()`: a line of the dump at a time, then the
filters in the order the code sets them up, the flat map, its filters, and one
of the reports, each pass an action. The passes are pure operators in
the modules named after what they work on; the tree is a sequence of nodes, as
`mergeToNode` and the filters move nodes about by pointer. `lines` is history:
the call path and the costs of every line. `AnalyseCorrect` states from it alone
which function a cost is to be charged to and through which it passes, so that it
shares none of the tree surgery with the model of the code. A function's name
is a sequence, so that a regular expression is the set of names it matches and what it puts in
their place.

### Processor, Hook, HookCorrect

Memory is a function from addresses to bytes, of which a program fills a few
with instructions of eighteen kinds (those `parse` knows, those it takes for
something else, branches and returns): `Processor`.
`hook()` is an action per step: `parse`, find and take a page for the
trampoline, `prepare`, make the target writable, `patch`, with the failures of
each. The regions of memory are a sequence, as `/proc/self/maps` lists them. `HookCorrect` runs every
function before and after, and compares what can be observed: the data it uses, at which address,
where it returns or is entered.

## Runs

Bounds are small, and chosen so that the hard case happens: a mutant for
every property of every run shows that it does.

| Run | Shows | Instance |
|---|---|---|
| `resource_table` | `TableInv`, `ListsComplete`, `Accounting`, `ImplementsLiveMap` | 3 colliding addresses, 2 counters, 2 probes, hash of 2 growing to 8, its size going round from 32 to 1 or 0, then 4 and 16 |
| `resource_growth` | `TypeOK`, `GrowthEnds` | 4 addresses, of which two share their slot in every table; failing rehash, mmap failing at any size, sizes going round from 64 |
| `stack_tree` | `TypeOK`, `TreeInv`, `SelfCosts`, `CallersUnlessShrunk` | 2 thread buffers and the master, 2 addresses, depth 2, at most 4 samples between resets, three profilers |
| `profile_core` | `TypeOK`, `SamplesKept`, `NoDangling`, `DumpExact`, `NoSelfWait`, `EnabledBalanced`, `DumpEnds` | main thread, one that comes and goes, one dumper; 2 samples; both buffer modes; outputs that may fail to open |
| `perf_fork` | `TimerResumes`, `TicksBounded`, `ChildProfile`, `CallsReturn` | main thread, one that comes and goes, the dump thread; intervals 2 and 3, CPU time 2; calls and dumps together 2; with and without the override that keeps the child's samples |
| `mem_profiler` | `TypeOK`, `LiveExact`, `AddsUnknown`, `AllocatedIsKnown`, `FalseLeaksExcused` | 2 threads, 2 blocks, 2 sizes and zero, 2 sites; eight programs: each way to account overhead, all calls and outcomes with the profilers switched off and on, key destructors and `exit()`, the last two with both profilers |
| `empty_race` | **violation** of `ReleaseCovered`: the empty-memory profiler forgets a block of another thread | same, `malloc`, `free` and a moving `realloc` |
| `fd_profiler` | `FdTypeOK`, `LiveIsOpen` | 2 threads, 2 descriptors, 2 sites, profilers switched off and on, failing `close()`, key destructors, `exit()` |
| `dump_round_trip` | `ReadsBack`, `DamageOnlyLoses` | 9 programs with trees of up to four frames in one or two buffers, one or two dumps; hash chains of three addresses; writes of up to 3 tokens cut anywhere, one failure |
| `analyse` | `NodesAreATree`, `SelfExact`, `CumExact`, `PagesExact`, `RowsAgree`, `LargestShown`, `DeathsExcused`, `TreeKeepsHeavy` | every dump of up to four lines, depth 3, of two or three functions, for 28 command lines and dumps, among them lines of equal costs, costs of exactly 0.01%, blocks below frames of the profiler, and `-T` and `--dump-allocations` with a baseline, in diff mode and not |
| `hook` | `Transparent`, `NothingReplaced` | every function of up to three instructions of eighteen kinds and a return, hooked twice; loops; a stub with the function it jumps to; five layouts of memory; every step may fail |
| `hook_prologue` | **violation** of `MovesWholeInstructions`: `parse` miscounts instructions | same |

Why the bounds suffice. In `resource_table` three addresses with two probes
is the least number at which a window is full; two counters the least at which
ownership moves. `resource_growth` needs a fourth address so that one attempt
of a rehash fails after another has been moved. In `stack_tree` depth two and
two addresses are the least at which a cached frame can be below another
caller, and four samples let both threads fill, merge and go on. The hooks of the profilers are
races of two calls over one address; a third thread adds no new pair of
overlapping steps to them. In `profile_core` every pair of thread end, dump,
kill and exit overlaps; two samples make a sample before and one after a merge.
In `perf_fork` two calls, or a call and a dump, are the least that can put back
each other's timer; two threads in the three calls at the beginning of a call are enough to be charged
for the same time. The CPU time of 2 lets the fast timer run out and a call be charged, but not
the slow timer, as ten seconds seldom do within a call of the program's; that it fires, during the call or
between its end and being put back, is beyond the run's bound and covered by the proof of
`TicksBounded` only. In `dump_round_trip` two
buffers and two dumps are the least at which a number could be used that was given in another
one, and chains of three the least with an address to be put in the middle.
In `analyse` four lines at depth three are the least at which a function recurs
through another and both are merged into a sibling. In `hook` three instructions let one with an
offset stand first, second or third before the five bytes of the jump are full.

Deadlock is checked where the system cannot stop. `resource_table` and `resource_growth` stop
when memory is exhausted, `stack_tree` when the energy profiler reaches its
fourth counter, `profile_core` when the process is over, `perf_fork` when a child
waits for a lock nobody holds any more or its CPU time is used up,
`dump_round_trip` and `analyse` when their one execution is over, `hook` and
`hook_prologue` when all hooks are made.

Fairness. `resource_growth` assumes that a loop in progress goes on
(`WF` of the growth). `profile_core` assumes for every actor strong fairness
of its own steps: a thread that can go on does, and a mutex that is released
again and again is handed sooner or later to a waiting thread. A `pthread`
mutex does not promise the latter in writing, but its waiters are woken one
after another, and a thread holds these locks for one sample or one dump only.
`perf_fork` assumes weak fairness of every thread's own steps, and that the
program's `fork()` and `system()` return; weak is enough there, as calls and
dumps are bounded. Nothing is assumed of the program, of signals or of users:
threads need not end, dumps need not be asked for, and time need not pass.

## Disagreements found

Runs that end in a violation, each about a comment or assertion of the
repository:

- `hook_prologue`: `parse` takes every instruction of the F6/F7 group to have
  an immediate of one byte, so that the branch that knows better
  (`src/hook.cc:954`) is never reached, and C0/C1 to have none. What it says can
  be moved then ends inside an instruction.
- `empty_race`: under the empty-memory profiler `realloc` frees the old block
  before the profiler forgets it. A thread that gets the block in between releases a
  record whose size was never added back: the assertion at
  `src/profile-trace.h:374` fails, and the update that follows forgets the
  other thread's block.

Further behaviour the models show or allow, without a run of its own.

Buffers:

- A call cache entry is trusted if all shallower ones matched in this push, but
  after a push that was shorter the deeper entries belong to an older path.
  After A/B, X, then X/B, the last is charged to A/B. Self costs are right all
  the same (`SelfCosts`), and call paths as long as no push was shorter than an
  earlier one (`CallersUnlessShrunk`).
- Descriptor 0 is a legal resource but also the mark of an empty slot;
  `releaseResource` asserts that it never sees it (`src/profile-trace.h:363`).
- On a machine with four RAPL domains the energy profiler's fourth counter has
  no room in a frame (`src/profile-trace.h:522`).
- A stack whose outermost address is null is not walked at all and charged to
  the root frame, which a dump does not show.
- The size of a grown hash is `1u << newLogSize` (`src/profile-trace.cc:85`). At 2^30 slots the next size is
  2^32, and the shift is undefined: on x86 the table that follows has one slot, and with resources that
  share their slots the growth may go on for ever. `GrowthEnds` says that in no other case it does.
- A `kill` that is overtaken by `exit` switches the profilers on again;
  `igprof_buffer` refuses all the same, as `s_igprof_activated` is false.

Hooking profilers:

- `realloc(p, 0)` is taken for a failure, and its freed block stays live
  (`src/profile-mem.cc:362`). `realloc` while the profilers are off, and a failing
  `posix_memalign`, leave false leaks; so does a block that is freed or moved when `igprof_buffer` is null,
  as `remove` then returns (`src/profile-mem.cc:174`): in the destructor of a thread-specific key that runs
  after those of the profiler's, or after `exit()` has deactivated the profilers. `FalseLeaksExcused` says that these are the
  only ones. From then on the map may also meet a known block in `add`, or a block of
  another size, so that `LiveExact` and `AddsUnknown` hold until the first such hook.
- A hook that has seen the profilers on when `exit()` deactivates them does not record its block
  (`src/profile-mem.cc:129`), which is missing from the final dump.
- In delta mode, a failed `realloc` to a larger size records a difference below
  zero, which wraps around.
- `dup2(fd, newfd)` releases `fd`, not `newfd` (`src/profile-fd.cc:212`).
- `close` of a descriptor that another thread opens at once forgets the new
  one. The opposite, a false leak, comes of a `close` that fails with EINTR or EIO but has released the descriptor
  (`src/profile-fd.cc:179`), and of an update without a buffer (`src/profile-fd.cc:76`); `LiveIsOpen` says that it
  comes of nothing else.
- The empty-memory profiler with `initmem`, after the race above, writes its pattern
  over as many bytes as the wrong record says.

Performance profiler:

- Calls, dumps and starts of threads that overlap leave the timer at ten seconds or
  off; so does a `fork()` that fails (`src/profile-perf.cc:297`), and the end of
  any thread stops it for all (`src/profile.cc:844`). A call that overlaps can also be charged
  up to 10 s. `TimerResumes` says that nothing else does it.
- A call that begins during another thread's call is charged for the time of that one
  as well, as `dt` takes the timer for the fast one (`src/profile-perf.cc:291`). Two that
  read the timer before either slows it down are both charged for the time since the last tick
  (`src/profile-perf.cc:288`). Such calls are among those that `ticks` leaves out.
- A call is charged for the time since the last tick before it, which the timer
  counts again: two instant forks half an interval after a tick are charged a
  tick each. The slow timer of a call of ten seconds can fire between the last reading and being
  put back (`src/profile-perf.cc:302`). With the rounding this is less than two and a half
  intervals a call, which `TicksBounded` allows.
- A child that was forked while another thread held `s_buflock` or the lock of
  a buffer waits for it for ever when it resets the profiles, unless the override is set.
- Ticks of calls are recorded without the lock of the buffer.

Dumps:

- A counter can have several numbers in one dump, as `dumpResetIDs` forgets them
  after each buffer; the reader copes (`ReadsBack`).
- A file whose name resolves to one already known is not entered under its
  number; a later reference to that number aborts the analyser or reads beyond
  the table. `ReadsBack` excludes such programs.
- A write that fails leaves a gap in the dump. What follows may be read without an error, with
  costs on another path than their own; `DamageOnlyLoses` bounds the damage, as long as the gap begins and ends
  between tokens. `write()` transfers bytes (`src/fastio.h:46`): a gap that begins inside one number and ends
  inside another joins their digits, and the analyser can then count more than was dumped.

Hooking, the three exceptions of `Transparent`: a function that branches back
into the beginning that was moved, instructions that `parse` miscounts, and a
free page beyond the reach of a jump in the same section. Functions shorter than
the jump that are directly followed by another one lose the beginning of that. If the target
cannot be made writable the caller is left with pointers to a trampoline that was released.

Analyser:

- Overlapping page ranges count as equal for `std::sort` (`src/analyse.cc:320`): those of one line must
  not be listed from the upper to the lower one, or a page is lost.
- `mergeToNode` (`src/analyse.cc:951`) adds up counters of recursively merged
  children, but drops their page ranges: a page is lost where a path through the profiler's own frames
  falls together with the path of other lines. `PagesExact` names these paths (`Overlaid`) and
  says that nothing else is lost.
- The callers and callees of a row are a set ordered by counts and name
  (`src/analyse.cc:3239`): of several symbols of one name, as `--merge-regexp` makes them, those with
  equal costs are one entry, and the entries no longer add up. `RowsAgree` has them as the exception
  (`TwinCallers`, `TwinCallees`).
- The list of self costs ends where a percentage, a `float`, is below 0.01 (`src/analyse.cc:3988`), which
  the float nearest to 0.01 is: functions of exactly 0.01% are cut off, though the title of the list has `>= 0.01%`.
- `--tree` with a baseline divides by the net total, in diff mode as well, and ends the program at
  a percentage below -100% (`src/analyse.cc:2061`). `--dump-allocations` passes on a null
  baseline (`src/analyse.cc:3707`), which diff mode dereferences. `DeathsExcused` names both.
- In the tree of a baseline a heavy node below one that changed little is cut off with it, and where the net total
  is below zero the order of the percentages is reversed; `TreeKeepsHeavy` is about the other trees, and
  with a baseline about nodes whose ancestors are heavy.
- `MallocFilter` drops whatever an allocator has below it that is not one.
- The replacement of an ancestor rule is appended to in place
  (`src/analyse.cc:2966`), so that a name grows with every use of its rule.
- `--merge-regexp` makes a symbol of its own for every node it matches
  (`src/analyse.cc:1581`).
- In `--diff-mode` with merged libraries every symbol is new; rows may refer
  to rows that were skipped, against the foreign keys of the SQL report. Without
  `--diff-mode` a baseline can end the program in the check of a percentage.
- The average allocation size divides by a cost that is zero for blocks of no
  bytes (`src/analyse.cc:1271`).
- `-nf` after `-r` has no effect, `-o` reads its own name as its argument and
  always ends the program, and ascending order is descending.

## Proofs

| Theorem | States | Assumes |
|---|---|---|
| `TableCorrect` (`ResourceTableProofs`) | `Spec => []TableInv` | 0 is not a resource |
| `TypeCorrect` (`ResourceTableProofs`) | `Spec => []TypeOK` | 0 is not a resource |
| `CountersAgree` (`ResourceTableProofs`) | `Spec => []Accounting` | 0 is not a resource |
| `NoRecordLost` (`ResourceTableProofs`) | `Spec => []ListsComplete` | 0 is not a resource |
| `TableIsLiveMap` (`ResourceTableProofs`) | `HSpec => ImplementsLiveMap` | 0 is not a resource |
| `TreeCorrect` (`StackTreeProofs`) | `Spec => []TreeInv` | |
| `TreeTypes` (`StackTreeProofs`) | `Spec => []TypeOK` | |
| `SamplesCharged` (`StackTreeProofs`) | `Spec => []SelfCosts` | |
| `CallersKept` (`StackTreeProofs`) | `Spec => []CallersUnlessShrunk` | |
| `BuffersExist` (`ProfileCoreProofs`) | `Spec => []NoDangling` | |
| `LocksNotReentered` (`ProfileCoreProofs`) | `Spec => []NoSelfWait` | |
| `KillsBalance` (`ProfileCoreProofs`) | `Spec => []EnabledBalanced` | |
| `CoreTypes` (`ProfileCoreProofs`) | `Spec => []TypeOK` | |
| `NoSampleLost` (`ProfileCoreProofs`) | `Spec => []SamplesKept` | |
| `DumpsAreExact` (`ProfileCoreProofs`) | `Spec => []DumpExact` | |
| `AddsUnknownHolds` (`LiveMapProofs`) | `Spec => []AddsUnknown` | |
| `LiveExactHolds` (`LiveMapProofs`) | `Spec => []LiveExact` | |
| `MemTypes` (`LiveMapProofs`) | `Spec => []TypeOK` | |
| `NoLeakMissed` (`LiveMapProofs`) | `Spec => []AllocatedIsKnown` | |
| `FalseLeaksAreExcused` (`LiveMapProofs`) | `Spec => []FalseLeaksExcused` | |
| `FdTypes` (`LiveMapProofs`) | `FdSpec => []FdTypeOK` | |
| `NoFalseLeak` (`LiveMapProofs`) | `FdSpec => []LiveIsOpen` | |
| `TimerGoesOn` (`PerfProfilerProofs`) | `Spec => []TimerResumes` | |
| `ChildIsItsOwn` (`PerfProfilerProofs`) | `Spec => []ChildProfile` | |
| `TicksAreTime` (`PerfProfilerProofs`) | `Spec => []TicksBounded` | |
| `RoundTrip` (`DumpRoundTripProofs`) | `Spec => []ReadsBack` | |
| `DamageBounded` (`DumpRoundTripProofs`) | `Spec => []DamageOnlyLoses` | |
| `PagesNotReplaced` (`HookProofs`) | `Spec => []NothingReplaced` | no function begins with the last byte of a page |

All use the named assumptions on the constants of their module, which TLC
evaluates in the runs. Among them are that the buffers and the stacks of `StackTree` are
finitely many, without which its sums have no value, and that no profiler ticks one counter
twice for a sample, which holds of the code's profilers. That 0 is not a resource is an assumption of the five
theorems only: it is true of the memory profilers (`profile-mem.cc` passes on
no null pointer) and of a descriptor profiler whose program keeps its standard
input. That no function begins with the last byte of a page is true of code that compilers align.

**ResourceTable.** Between calls `TableInv` is `BufferOK`: no two slots of the
hash hold the same resource or record, every resource is in its probe window,
live records and slots point to each other, the links of the lists of a counter
are inverse to one another and stay within the counter, and the free list
holds free records only. None of these is inductive alone: `release` unlinks a
record by its links and clears the slot its `hashslot` names. While the hash is
grown this is not true, as the back pointers move to the new table one by one;
there the parts are `CoveredOK` (every live record is still in the old table),
`RehashOK` (the new table holds the entries of the slots below `cursor`, each in
its window and with its back pointer set, and no other) and `RequestOK` (the
resource that waits to be inserted is not in the table). An iteration
preserves them whether it places an entry, skips an empty slot or gives the
attempt up for a larger table; at the end of the loop they give `BufferOK` of
the new table. A cleared slot is a hole that later probes do not stop at, so
`release` disturbs no other window: the proof needs no more of it than that.

`CountersAgree` adds `Books`: every counter agrees with the sum over its live records
(`Even`), or, while a resource waits for the hash to grow, is ahead by exactly that one
(`Due`). `release` takes the size out of the sum that it takes off the counter, so no
counter wraps around. `NoRecordLost` needs that following `next` comes to every live
record and ends. That no list is a cycle is said by a rank of the records that rises along
`next` (`Sorted`); that every record of a list but its head follows another one is in
`TableInv` for the lists of the counters, and `Followed` says it of the free list. A set
of records with these two properties is what a walk from its head meets (`WalkExact`): the
record of least rank among those it misses would follow one of yet smaller rank.

**ResourceHistory.** The abstract map is read off the slots (`LiveOf`): by
`TableInv` at most one slot holds a resource, so the map is well defined, and
what `release` and `acquire` do to the table is what `LiveMap` does to the entry of
that resource (`ReleaseLive`, `InsertLive`). `acquire` of a known resource is the two one
after the other. That `findResource` looks for a resource in its window only
is where `WindowOK` is needed: a resource that is not found is in no slot at
all. Growing is a stutter: placing an entry in the new table writes a back
pointer and no counter or size, and the table that replaces the old one holds the same
entries by `RehashOK`.

**StackTree.** `TreeInv` says that the nodes of a buffer are one tree with
sorted child lists, that an entry of the call cache names a node of the tree
at its depth and with its address, and that the push in progress stands in a
node as deep as the addresses it has walked (`CallGood`). The invariant adds the
types, and `TodoOK`: a merge in progress visits nodes of its source only. `CallGood` is
why what `push` writes into the cache is good. That the child lists stay sorted
rests on lemmas about insertion into a sorted sequence. `TreeTypes` rests on `TInv`, which
adds that the counters of a node are good: of kinds the active profiler has, distinct,
and no more than `MaxCounters`; the ticks still to be done are those of one call; and the
frames of the cache and of the last call exist even while they are not in use. `MergedOK`
shows that a merge may tick a node twice and yet adds each counter once.

`SamplesCharged` and `CallersKept` follow from one account of the costs, `Ledger`. While a
sample is on its way its cost is in the counters that its call has still to tick (`Waiting`);
while a thread is merged the cost of its buffer is in the frames that are still to be merged
(`Live`), then in the waiting counters, then in a frame of the master. `Ledger` says at every step that what is
live and what waits add up to what the samples cost, or, for a MAX counter, are bounded
by the same numbers; a step either changes nothing of it (`LedgerSame`) or moves an amount
between one frame and the call (`LedgerMove`). Three things are needed for that. The worklist of
`mergeFrom` reaches every frame once (`Descend`): the nodes on it are not below one another
(`Apart`), so the children that replace a node reach what it reached but for itself. Merged counters
are `Sound`: their peak is not above their value, so that a merge ticks each once.
And a sample must end up in a frame that is counted with its stack (`PlaceOfSample`).
For `SelfCosts` this is so because the walk stands, after every step, on the address it
has looked at (`Walk`): the frames are told apart by depth and innermost address only, and the ledger
is kept for sets of paths that are closed under that (`View`). For `CallersUnlessShrunk`
it is kept for every set of paths, and the call cache has to be a chain: as
long as every push was at least as long as those before it, each entry of the cache is the child of the entry
before it (`Chain`), as a miss replaces all that are behind it. This is what a shorter push breaks, by
leaving entries of an older path behind its own.

**ProfileCore.** The invariant is `Types /\ BigOK /\ HeldOK /\ BufsOK`. `BigOK`
and `HeldOK` say of every actor which locks it holds, from its place alone.
`BufsOK` relates places to buffers: a profiled thread's buffer is remembered
from its insertion to its end, and what a dump still goes through is remembered.
The last is what the end of a thread would break; it cannot, because the
thread that erases a buffer is at a place that holds `s_buflock`, the dump is at
another, and by `BigOK` they are the same actor. `NoSelfWait` follows from `HeldOK`, as
the places that wait for a lock are none of those that hold it. `KillsBalance` rests on
`Balanced`: before `exit()` the set of threads inside `kill()` is finite, and
`enabled` is one less its size; a thread at one of the places of `exit()` means that
`exiting` is set. A thread that enters or leaves `kill()` changes the cardinality of that set by one.
`NoSampleLost` and `DumpsAreExact` rest on `Counted`: of every thread the existing buffers hold
as many samples as it has taken, and a dump has seen, and is still to see in the buffers
that are left, not less than there were when it began and not more than there are
(`Shown`). A merge moves samples into the master buffer, which a dump goes through last, so that
what is still to be seen does not change; it cannot happen to a dump that has passed the master buffer,
as both hold `s_buflock`. These are sums over the buffers, by `SumTheorems`.

**MemProfiler.** `AddsUnknownHolds` and `LiveExactHolds` speak of plain programs under the memory
profiler only, and until a hook is `blind`, so the invariant is `Plain /\ ~ blind => PlainIInv`; `Plain` never
changes, and `blind` is never taken back.
`PlainIInv` is `PlainTypes /\ OwnersOK /\ LiveOK`. A call owns a block: the one it was given,
until the real function returns, then the one it is about to record. No two
calls own the same block, and it is allocated (`OwnersOK`); the live map knows
allocated blocks only, not the one of a call that is past `remove`, and agrees with
the allocator about every block no call owns (`LiveOK`). Every hook is a case of one lemma, `PlainFramed`: a
step that changes the heap and the map at most at the blocks its call owns before and after
preserves `PlainIInv`.

The other three theorems are about every program and both memory
profilers: calls that fail, requests for no bytes, profilers switched off and on, updates without a buffer. Owning is too much
there, as a late `realloc` has freed the block its `remove` is about. The
invariant follows `Uses`, the block a call uses unless it is excused: it is allocated
and used by no other call (`UsesOK`). A hook that forgets a block before it frees it has done so
(`ForgottenOK`), and what a failed `posix_memalign` is about to enter is excused
(`FailedOK`). An update that finds no buffer excuses the block that it leaves in the map, and makes lost the
one it does not enter. A record without a block is excused or about to be removed (`LeaksOK`, for
`FalseLeaksAreExcused`). A block that is to be known is known, lost to a late `realloc`, or
a call is pending on it (`KnownOK`, for `NoLeakMissed`); a `realloc` that only removes, because
the profilers were off, leaves a block that need not be known (`OffOK`). As before every action is a case of one lemma, `Framed`.

**FdProfiler.** `close` and `dup2` update the map after the real call, so it may
know a descriptor that is closed or another one by now. The invariant `Known`
says that then a call is on its way that will put it right: one that is to
remove it (`Closing`), or one that has made it anew and is to add it (`Making`). It says nothing of descriptors
that are `stale`, as a removal was left out.
`Exclusive` and `Pending` say that no call is about the descriptor of another
that has not been made yet, and that what is to be added is still open. That `open` returns a free
descriptor rests on the least element of a set of numbers, by well-foundedness of `<`.

**DumpRoundTrip.** The invariant `Inv` speaks of the reader as if it had read what the writer has made
so far (`Follower`), without the file in between. That the file is a copy is the smaller part: as long as
no write has failed, what is in the file, in the buffer and still to be put is what was written (`StreamOK`).
The reader follows the writer (`Follows`) in three ways. Its tables decode the numbers that are in
force: a symbol, binary or counter that has one is found under it (`SymbolTable`, `FileTable`,
`KeyTable`). The last frame that was entered is the end of its stack of nodes, and
every frame that the writer has still to enter waits at a depth at which its
parent is the top of what is left of that stack (`OnStack`). And its costs are the sums over the lines and counters
dumped so far (`Costs`, `Dumped`). Entering a
frame adds one path; a counter adds to one summand of one path, unless it is not
the key or has been left out, and then it has counted nothing. The numbers of counters are
cleared between two buffers, so that a counter is defined anew: `KeyTable` asks only for those
numbers that the writer may still use. `~ SharedFile` is needed for `FileTable`: a file
of a name already known is not entered, and all later numbers would be one off.
That the writer enters every frame once is `IsWalk`: what waits on its stack is what has a parent that was
entered, and was not. `Counting` is needed because a reader without a key stops, and it is by a counter that has counted
something that it gets one. That the search of a sorted chain finds what was entered, that paths by parents exist, and
what the folds do is proved from their definitions, by the induction over sets of `SumTheorems`.

After a failure the reader cannot follow, and if a token was torn nothing is said of it: lines are
missing, numbers are unknown, and a counter may be
charged to another path. `DamageOnlyLoses` is proved by weighing instead (`Bound`). The weight of tokens, for a key,
is the sum of the ticks of its counters. What will be in the file comes from what was made:
no token is another, and for no key is the weight more (`PutOK`); a write that fails cuts a piece out of the
middle, which keeps this. The total of the reader's costs and the weight of the dump that is under way are never
more than the sum of the counters dumped so far (`CountOK`): a counter that is put adds the same to both, and what is
read turns weight into costs, or loses it. A file is read token by token (`ReadTo`), and the hard part is
that a number whose definition is lost or found late charges no other counter. It does not, as a number stands for
one counter throughout a dump: it is not used again when `dumpResetIDs` forgets it, because `nctrs` is not reset (`IdsOK`).
What the reader's table says of a number is borne out by a counter with that number
in the file (`KeysSay`), and every other one with it has the same name (`Coherent`).

**PerfProfiler.** `TimerResumes` holds because of `Regular`: if nothing has upset
the timer, then whoever is going to put it back and has not been overtaken (is not
`stale`) has saved the interval, or somebody who has been overtaken is still at it, and
its putting back will be the upset. So of the calls that overlap the first one saves the interval, and
becomes stale when a later one sets the timer. `ChildProfile` needs that a
child on its way out of `fork()` is alone (`Alone`), that a buffer of a thread that has
none is not among the remembered ones (`Buffered`), and that the buffers the reset has passed are
clear (`Cleared`), while those it has not passed are still in its list.
`TicksAreTime` is an account in units of half a tick. `Paid` says that the time so far, and what every
call is allowed, cover the ticks recorded and all that is still to be recorded: the signal that is
pending and the progress of the timer (`Coming`), and, summed over threads and dumper, the sample
being taken, the progress of the timer that each has saved, and what the call has to come
(`Due`). Each step moves an amount from one of these to another: `Elapse` pays into the
progress of the timer, which becomes a signal, which becomes a sample. A call that reads the timer is due the
whole `Allowance` (`Owed`), until it has read it for the last time; then it is due the ticks its `dt` will make.
While it measures itself with the slow timer all of that timer's progress is to be paid, but otherwise only what
makes its next tick, which is less than an `Interval` (`Pace`, `Worth`): that is what may be lost
to the call when the slow timer fires late. Only the call that was the last to set the timer can measure itself so:
all others know that they are overtaken (`Sole`), and who is not finds the timer slow (`Slowed`), so that the time
is not charged twice. `Begun` bounds `dt` from the first two readings: the time since the last tick, and at most a slow
interval. The number of threads must be finite for the sums, and `Charge` rounds by the interval in
force, which is never less than `Interval` (`NearestBound`, `NearestLow`).

**Hook.** The walk through the regions passes each one that holds the address it has come to, if that
region begins in the section of the function. What it ends with is the byte after the function's first, which
is no page, or the end of a region, and in no region that begins in the section (`Walked`). Regions that begin in a later
section are behind it, and one from an earlier section ends before the region that the walk left last:
here it is needed that the regions are in order (`HeldByNone`). So the new page fits between two
regions, and the order is kept (`MappedOK`, `RemovedOK`). If the first byte of a function were the last of a page,
in a region that begins in an earlier section, the next page of that region would be taken for free. That the walk, a fold of the
community modules, has a value is proved as for the sums.

**SumTheorems.** The sums are `SumFunctionOnSet` of the community modules, which are
defined by a recursion over subsets. The induction principles of the library
take an operator as a parameter, and are stated here for sets instead: a set of numbers that
contains 0 and all successors (`NumberInduction`), a set of subsets that contains the
empty one and is closed under adding an element (`FiniteInduction`). From the existence and
uniqueness of the recursive function follow that a sum can be taken apart at any element
(`SumRemove`), and how it changes with the summands (`SumChange`, `SumMonotone`, `SumBounded`).

Only model-checked:

- liveness (`GrowthEnds`, `DumpEnds`, `CallsReturn`), which rests on fairness and
  is beyond the proof system;
- the analyser and what hooked functions do (`Transparent`), whose modules are written
  with recursive operators over trees and code.

## Not modelled

- The energy profiler's readings: RAPL through PAPI is external, and its four
  counters are one of the profilers of `StackTree`.
- Function instrumentation and call counting: the enter and exit hooks keep their stacks and
  depth in globals without a lock, so with more than one thread the code promises
  nothing to state; with one, it adds and subtracts a time.
- Of the performance profiler, the hooks of `pthread_sigmask` and `sigaction`, which take the
  profiling signal out of an argument, and `close`, which switches debugging off.
- `kill()` in one thread during a `fork()` in another leaves the child with
  `s_igprof_enabled` at 0: `ProfileCore` has the counter, `PerfProfiler` the
  child.
- A dump that cannot open its output is a step of `ProfileCore` (`DumpFails`) only; in `PerfProfiler` it would stop
  the timer and put it back as any other dump does, without the locks.
- What the analyser makes of a dump with a number that was cut in two (`torn` in `DumpRoundTrip`).
- The output file of a dump is truncated before `s_buflock` is taken
  (`src/profile.cc:341`), so that two dumps to the same name mix; the files of
  `DumpRoundTrip` are one per dump.
- Pools only hand out records; in `ResourceTable` they are the source of new ones.
- Symbol lookup in the process, and gdb, c++filt and nm in the analyser: what
  they say of an address is a constant.
- Of hooking, the other processors, and the search of symbol tables when the
  dynamic linker does not know a name.
- The tracing tools print one line per call and keep next to no state.
- Scripts, web pages, the build: no state.

## Plan

What is left, in the order of its worth:

1. `kill()` and `fork()` together: `ProfileCore` and `PerfProfiler` over the same
   threads, with the counter of `s_igprof_enabled` in the child.
2. Dumps into one file: the truncation before the lock, with two dumpers in
   `DumpRoundTrip`.
3. The time stacks of function instrumentation for one thread, against self times.
4. Proofs: the analyser's passes, if their recursions over trees can be stated as functions.

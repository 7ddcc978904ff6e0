---------------------------------- MODULE Hook ----------------------------------
(***************************************************************************)
(* IgHook::hook() on x86_64: the profilers' replacements of functions.     *)
(* The beginning of a function is moved to a trampoline and overwritten by *)
(* a jump to it.  The trampoline jumps to the replacement; its second part *)
(* is the beginning that was moved and a jump to the rest of the function, *)
(* and the replacement calls it through chain.                             *)
(*                                                                         *)
(* Hooks are made by static initialisers, one after the other, before the  *)
(* program has threads.  options is 0 in every hook of the profilers.      *)
(***************************************************************************)
EXTENDS Processor, SequencesExt, FiniteSetsExt, TLC

CONSTANTS
  Programs,          \* each: its code, the regions of its memory in order, and its hooks
  PageSize,
  TRAMPOLINE_SAVED,  \* room for the beginning of a function
  Replacements       \* the addresses of the replacements are from here on

Region == [low : Nat, high : Nat]

(* The regions of a memory: pages, in order, none in two of them *)
InOrder(rs) ==
  /\ \A k \in DOMAIN rs : /\ rs[k].low % PageSize = 0 /\ rs[k].high % PageSize = 0
                          /\ rs[k].low < rs[k].high
  /\ \A j, k \in DOMAIN rs : j < k => rs[j].high <= rs[k].low

ASSUME PageAssumption == PageSize \in Nat \ {0}

(* Functions are aligned; none begins with the last byte of a page. *)
ASSUME ProgramAssumption ==
  \A p \in Programs :
    /\ p.regions \in Seq(Region) /\ InOrder(p.regions)
    /\ p.hooks \in Seq([function : Nat, after : Nat])
    /\ \A k \in DOMAIN p.hooks : (p.hooks[k].function + 1) % PageSize # 0

VARIABLES
  program,  \* of Programs
  memory,   \* the code, byte by byte
  regions,  \* what /proc/self/maps shows
  hooks,    \* the IgHook::Data of the hooks made so far, with what hook() returned
  phase,    \* what hook() is doing
  moved     \* the beginning it found: its length and the offsets to correct

vars == <<program, memory, regions, hooks, phase, moved>>

NothingMoved == [length |-> 0, patches |-> <<>>]

Init ==
  /\ program \in Programs
  /\ memory = program.code
  /\ regions = program.regions
  /\ hooks = <<>>
  /\ phase = "idle"
  /\ moved = NothingMoved

Current == hooks[Len(hooks)]

Returned(status) ==
  /\ phase' = "idle"
  /\ hooks' = [hooks EXCEPT ![Len(hooks)].status = status]

(***************************************************************************)
(* parse(): the instructions it knows, by their first byte                 *)
(***************************************************************************)
OneByte == (80..95) \cup (144..151)

WithByte == (176..183) \cup (208..211) \cup (228..231)
              \cup {4, 20, 36, 52, 12, 28, 44, 60, 161, 168, 106}

WithFour == (184..191) \cup {5, 21, 37, 53, 13, 29, 45, 61, 169, 104}

WithModRM == {b \in 0..63 : b % 8 < 4} \cup (132..139) \cup {141, 99, 192, 193}

WithModRMAndImmediate ==
  (128..131) \cup {105, 107, 208, 209, 254, 198, 199, 246, 247}

LongImmediate == {129, 105, 199}

(* A ModRM byte that addresses memory relative to the instruction pointer *)
IsRelative(byte) == byte \div 64 = 0 /\ byte % 8 = 5

evalModRM(byte) ==
  LET mod == byte \div 64
      sib == IF byte % 8 = 4 THEN 1 ELSE 0
  IN  IF IsRelative(byte) THEN 6
      ELSE CASE mod = 0 -> 2 + sib
             [] mod = 1 -> 3 + sib
             [] mod = 2 -> 6 + sib
             [] OTHER -> 2

(* The length of an instruction and where it has an offset; 0 for none *)
Known(length, offset) == [length |-> length, offset |-> offset]
Unknown == Known(0, 0)

Relative(byte, immediate) ==
  Known(evalModRM(byte) + immediate, IF IsRelative(byte) THEN 2 ELSE 0)

Recognise(m, a) ==
  LET b == Byte(m, a)
      c == Byte(m, a + 1)
  IN  CASE b \in OneByte -> Known(1, 0)
        [] b \in WithByte -> Known(2, 0)
        [] b \in WithFour -> Known(5, 0)
        [] b \in {232, 233} -> Known(5, 1)
        [] b = 15 /\ c = 132 -> Known(6, 2)
        [] b \in WithModRM -> Relative(c, 0)
        [] b \in {198, 199} /\ (c \div 8) % 8 # 0 -> Unknown
        [] b \in WithModRMAndImmediate -> Relative(c, IF b \in LongImmediate THEN 4 ELSE 1)
        [] b = 255 -> IF (c \div 8) % 8 \in {3, 5} THEN Unknown ELSE Relative(c, 0)
        [] b = 15 /\ c = 5 -> Known(2, 0)
        [] b = 243 /\ c = 195 -> Known(5, 0)
        [] b = 243 /\ c = 15 /\ Byte(m, a + 2) = 30 /\ Byte(m, a + 3) = 250 -> Known(4, 0)
        [] OTHER -> Unknown

(* Mutant: a prefix is not counted in what is to be subtracted. *)
Correction_NoPrefix(n, prefix, i) ==
  IF i.offset = 0 THEN <<>>
  ELSE << [offset |-> n + prefix + i.offset, delta |-> n + i.length] >>

(* Where an offset is, and how far behind the beginning its instruction ends *)
Correction(n, prefix, i) ==
  IF i.offset = 0 THEN <<>>
  ELSE << [offset |-> n + prefix + i.offset, delta |-> n + prefix + i.length] >>

ParseFrom(m, sym) ==
  LET from[n \in Nat] ==
        LET prefix == IF Byte(m, sym + n) \in 64..79 THEN 1 ELSE 0
            i      == Recognise(m, sym + n + prefix)
            rest   == from[n + prefix + i.length]
        IN  IF n >= 5 THEN [length |-> n, patches |-> <<>>]
            ELSE IF i = Unknown THEN [NothingMoved EXCEPT !.length = -1]
            ELSE IF rest.length < 0 THEN rest
            ELSE [rest EXCEPT !.patches = Correction(n, prefix, i) \o @]
  IN  from[0]

(* A jump to where trampolines are is one that was made before. *)
AlreadyInstalled(m, sym) ==
  Byte(m, sym) = 233 /\ (sym + 5 + Signed(m[sym + 1])) % PageSize = 4

parse(m, sym) ==
  IF AlreadyInstalled(m, sym) THEN [NothingMoved EXCEPT !.length = -1]
  ELSE ParseFrom(m, sym)

(***************************************************************************)
(* allocate(): the first address after the function, in the section it is  *)
(* in, that no region holds                                                *)
(***************************************************************************)
SectionOf(a) == a \div Section

(* Mutant: a region that begins where the last one ended is passed over. *)
Behind_Gap(base, free, region) ==
  IF SectionOf(region.low) = base /\ free > region.low /\ free < region.high
  THEN region.high ELSE free

Behind(base, free, region) ==
  IF SectionOf(region.low) = base /\ free >= region.low /\ free < region.high
  THEN region.high ELSE free

FreePage(target) ==
  FoldLeft(LAMBDA free, region : Behind(SectionOf(target), free, region), target + 1, regions)

(* mmap() with MAP_FIXED refuses only what is no page; it replaces what is there. *)
CanMap(page, target) == SectionOf(page) = SectionOf(target) /\ page % PageSize = 0

Mapped(page) ==
  LET region == [low |-> page, high |-> page + PageSize]
      before == {k \in DOMAIN regions : regions[k].low < page}
  IN  InsertAt(regions, Cardinality(before) + 1, region)

(***************************************************************************)
(* The steps of hook()                                                     *)
(***************************************************************************)
Poke(m, a, cells) ==
  [x \in a..(a + Len(cells) - 1) |-> cells[x - a + 1]] @@ m

(* A hook asks for another to have been made first, or for none. *)
Wanted == program.hooks[Len(hooks) + 1]

IsWanted == IF Wanted.after = 0 THEN TRUE ELSE hooks[Wanted.after].chain # 0

Skip ==
  /\ phase = "idle" /\ Len(hooks) < Len(program.hooks)
  /\ ~ IsWanted
  /\ hooks' = Append(hooks, [status |-> "Skipped", chain |-> 0, original |-> 0, trampoline |-> 0])
  /\ UNCHANGED <<program, memory, regions, phase, moved>>

(* lookup() is the dynamic linker's; it may not find the function. *)
Lookup ==
  /\ phase = "idle" /\ Len(hooks) < Len(program.hooks)
  /\ IsWanted
  /\ \/ /\ hooks' = Append(hooks, [status |-> "", chain |-> 0, original |-> Wanted.function,
                                   trampoline |-> 0])
        /\ phase' = "parse"
     \/ /\ hooks' = Append(hooks, [status |-> "ErrSymbolNotFoundInSelf", chain |-> 0, original |-> 0,
                                   trampoline |-> 0])
        /\ UNCHANGED phase
  /\ UNCHANGED <<program, memory, regions, moved>>

Parse ==
  /\ phase = "parse"
  /\ moved' = parse(memory, Current.original)
  /\ IF moved'.length < 0 THEN Returned("ErrPrologueNotRecognised")
     ELSE IF moved'.length > TRAMPOLINE_SAVED THEN Returned("ErrPrologueTooLarge")
     ELSE phase' = "allocate" /\ UNCHANGED hooks
  /\ UNCHANGED <<program, memory, regions>>

(* The page begins with its size, which release() reads. *)
Allocate ==
  LET page == FreePage(Current.original)
  IN  /\ phase = "allocate"
      /\ \/ /\ CanMap(page, Current.original)
            /\ regions' = Mapped(page)
            /\ memory' = Poke(memory, page, <<PageSize, 0, 0, 0>>)
            /\ hooks' = [hooks EXCEPT ![Len(hooks)].trampoline = page + 4]
            /\ phase' = "prepare"
         \/ /\ Returned("ErrAllocateTrampoline")
            /\ UNCHANGED <<regions, memory>>
      /\ UNCHANGED <<program, moved>>

(* prepare(): the jump to the replacement, the beginning of the function with *)
(* its offsets corrected for the new place, and the jump back                 *)
Corrected(cells, start, end) ==
  FoldLeft(LAMBDA cs, p : [cs EXCEPT ![p.offset + 1] = Signed(@ + end - start - p.delta)],
           cells, moved.patches)

Prepare ==
  LET tramp == Current.trampoline
      start == tramp + 2
      old   == Current.original
      end   == old + moved.length
      copy  == [k \in 1..moved.length |-> Byte(memory, old + k - 1)]
  IN  /\ phase = "prepare"
      /\ memory' = Poke(memory, tramp, <<JMPQ, Replacements + Len(hooks)>>
                                         \o Corrected(copy, start, end) \o <<JMPQ, end>>)
      /\ hooks' = [hooks EXCEPT ![Len(hooks)].chain = start]
      /\ phase' = "protect"
      /\ UNCHANGED <<program, regions, moved>>

(* protect() fails: the trampoline is released, chain still points into it. *)
Release ==
  LET page == Current.trampoline - 4
  IN  /\ phase = "protect"
      /\ memory' = [a \in DOMAIN memory \ (page..(page + PageSize - 1)) |-> memory[a]]
      /\ regions' = RemoveAt(regions, CHOOSE k \in DOMAIN regions : regions[k].low = page)
      /\ Returned("ErrMemoryProtection")
      /\ UNCHANGED <<program, moved>>

(* protect(), patch(): a jump, and nops for the rest of what was moved *)
Jump(to, from) == <<233, Signed(to - (from + 5)), 0, 0, 0>>

Patch ==
  LET old == Current.original
  IN  /\ phase = "protect"
      /\ memory' = Poke(memory, old, Jump(Current.trampoline, old)
                                       \o [k \in 1..(moved.length - 5) |-> 144])
      /\ Returned("Success")
      /\ UNCHANGED <<program, regions, moved>>

Next == Skip \/ Lookup \/ Parse \/ Allocate \/ Prepare \/ Release \/ Patch

Spec == Init /\ [][Next]_vars

-----------------------------------------------------------------------------
(* Properties *)

(* A trampoline takes no page that the program or another trampoline has,    *)
(* although mmap() is told to replace what it finds.                         *)
NothingReplaced ==
  \A i, j \in DOMAIN regions : i # j =>
    regions[i].high <= regions[j].low \/ regions[j].high <= regions[i].low

===============================================================================

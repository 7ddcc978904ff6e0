------------------------------ MODULE HookCorrect ------------------------------
(***************************************************************************)
(* What makes hooking correct: the program notices nothing but its hooks.  *)
(* The reference that patched functions are held against is what code in   *)
(* memory does.                                                            *)
(***************************************************************************)
EXTENDS Hook

CONSTANTS
  Events, Steps   \* bounds on the runs that are compared

Branches == {"je", "jeshort"}
Returns == {"ret", "repret"}

(***************************************************************************)
(* The runs from an address on, as sequences of what was done: up to       *)
(* events of them, in up to steps.  A conditional jump goes either way; a  *)
(* plain jump is not seen.  enter gives for the address of a replacement   *)
(* its number and where it goes on.                                        *)
(***************************************************************************)
RECURSIVE Runs(_, _, _, _, _)
Runs(m, a, enter, events, steps) ==
  LET Then(e, next) == {<<e>> \o r : r \in Runs(m, next, enter, events - 1, steps - 1)}
  IN  IF events = 0 \/ steps = 0 THEN {<<>>}
      ELSE IF a \in DOMAIN enter
      THEN {<< <<"enter", enter[a].hook, 0>> >> \o r :
              r \in Runs(m, enter[a].chain, enter, events, steps - 1)}
      ELSE IF At(m, a) = {} THEN {<< <<"crash", 0, 0>> >>}
      ELSE LET i      == CHOOSE x \in At(m, a) : TRUE
               target == Target(m, a, i)
               done   == <<i.does, target, Field(m, a, i, Operand)>>
           IN  IF i.does \in Returns THEN {<< <<"ret", 0, 0>> >>}
               ELSE IF i.does = "nop" THEN Runs(m, a + 1, enter, events, steps - 1)
               ELSE IF i.does = "jmp" THEN Runs(m, target, enter, events, steps - 1)
               ELSE IF i.does = "jmpq" THEN Runs(m, m[a + 1], enter, events, steps - 1)
               ELSE Then(done, a + Len(i.bytes)) \cup
                    (IF i.does \in Branches THEN Then(done, target) ELSE {})

(***************************************************************************)
(* The exceptions.  A function may jump back to the beginning that is      *)
(* moved; parse() may take an instruction for longer or shorter than it    *)
(* is; and the free page may be out of the reach of a jump although it is  *)
(* in the same section.                                                    *)
(***************************************************************************)
TrueLength(m, a) == IF At(m, a) = {} THEN 0 ELSE Len((CHOOSE i \in At(m, a) : TRUE).bytes)

Returning(m, a) == \E i \in At(m, a) : i.does \in Returns

RECURSIVE Understood(_, _, _)
Understood(m, sym, n) ==
  LET prefix == IF Byte(m, sym + n) \in 64..79 THEN 1 ELSE 0
      length == prefix + Recognise(m, sym + n + prefix).length
  IN  \/ n >= 5
      \/ Returning(m, sym + n)
      \/ length = TrueLength(m, sym + n) /\ Understood(m, sym, n + length)

RunsBefore(f) == Runs(program.code, f, << >>, Events, Steps)

JumpsBack(f) ==
  \E r \in RunsBefore(f) : \E k \in DOMAIN r :
    r[k][1] \in Branches /\ r[k][2] - f \in 0..(parse(program.code, f).length - 1)

OutOfReach(h) == h.trampoline - h.original >= Section \div 2

Hooked == {h \in DOMAIN hooks : hooks[h].status = "Success"}

Excused ==
  \E h \in Hooked : \/ ~ Understood(program.code, hooks[h].original, 0)
                    \/ JumpsBack(hooks[h].original)
                    \/ OutOfReach(hooks[h])

(* The replacements pass on to what they replace. *)
Replaced ==
  [a \in {Replacements + h : h \in {k \in DOMAIN hooks : hooks[k].chain # 0}} |->
     [hook |-> a - Replacements, chain |-> hooks[a - Replacements].chain]]

RunsNow(f) == Runs(memory, f, Replaced, Events, Steps)

Done(r) == SelectSeq(r, LAMBDA e : e[1] # "enter")

Entered(r) == SelectSeq(r, LAMBDA e : e[1] = "enter")

(* Whatever functions are hooked, one inside the other or twice, and         *)
(* whatever fails on the way: a call of any function does what it did        *)
(* before, with the same data at the same addresses; a call of a hooked      *)
(* function first enters its replacement; none is entered twice.             *)
Transparent ==
  phase = "idle" /\ ~ Excused =>
    /\ \A f \in program.functions :
         /\ {Done(r) : r \in RunsNow(f)} = RunsBefore(f)
         /\ \A r \in RunsNow(f) : IsInjective(Entered(r))
    /\ \A h \in Hooked : \A r \in RunsNow(hooks[h].original) : r[1] = <<"enter", h, 0>>

(* What parse() says can be moved are whole instructions. *)
MovesWholeInstructions ==
  phase = "allocate" => Understood(memory, Current.original, 0)

===============================================================================

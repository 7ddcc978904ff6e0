-------------------------------- MODULE MCHook --------------------------------
(* Every function of up to three instructions and a return is hooked, twice, *)
(* in a few layouts of memory; and a function that jumps to another one is,  *)
(* with the other, before and after it.                                      *)
EXTENDS HookCorrect

MCSection == 8192
MCPageSize == 256
MCReplacements == 100000

(* The page of the code in section 1, and the place of its functions *)
Page == MCSection + 256
Place(k) == Page + 16 + 64 * (k - 1)
Data == Page - 100

(* The bytes of an instruction with a target and an operand, at an address *)
Assembled(does, target, a) ==
  LET i == Instruction(does)
  IN  [k \in DOMAIN i.bytes |->
         IF i.bytes[k] = Offset THEN (IF target = 0 THEN Data ELSE target) - (a + Len(i.bytes))
         ELSE IF i.bytes[k] = Operand THEN 4 ELSE i.bytes[k]]

RECURSIVE Assemble(_, _)
Assemble(body, a) ==
  IF body = <<>> THEN <<>>
  ELSE LET bytes == Assembled(Head(body).does, Head(body).target, a)
       IN  bytes \o Assemble(Tail(body), a + Len(bytes))

I(does) == [does |-> does, target |-> 0]
To(does, target) == [does |-> does, target |-> target]

Code(bodies) ==
  LET bytes == [k \in DOMAIN bodies |-> Assemble(bodies[k], Place(k))]
  IN  FoldLeft(LAMBDA m, k : Poke(m, Place(k), bytes[k]), << >>, [k \in DOMAIN bodies |-> k])

Between(low, high) == [low |-> low, high |-> high]
CodePage == Between(Page, Page + 256)
AlsoAt(low) == Between(low, low + 256)

Alone == <<CodePage>>
Followed == <<Between(256, 512), CodePage, AlsoAt(Page + 256), AlsoAt(Page + 768)>>
Full == <<CodePage, Between(Page + 256, 2 * MCSection)>>
Large == <<CodePage, Between(Page + 256, Page + 256 + 4096)>>
Straddling == <<Between(MCSection - 256, Page + 256)>>

Hook(k, after) == [function |-> Place(k), after |-> after]

Program(bodies, mapped, wanted) ==
  [code |-> Code(bodies), regions |-> mapped, hooks |-> wanted,
   functions |-> {Place(k) : k \in DOMAIN bodies}]

Sound == {"push", "mov", "sub", "xor", "set", "load", "lea", "compare", "store", "endbr",
          "call", "je", "jeshort", "ret", "repret"}
Missized == {"shl", "neg", "test"}

Bodies(does) ==
  {<<I(a), I("ret")>> : a \in does} \cup {<<I(a), I(b), I("ret")>> : a, b \in does} \cup
  {<<I(a), I(b), I(c), I("ret")>> : a, b \in does, c \in Sound}

Single(bodies, mapped) == {Program(<<b>>, mapped, <<Hook(1, 0), Hook(1, 1)>>) : b \in bodies}

(* A loop to a place in or behind the six bytes that are moved *)
Loop(last) == <<I("push"), I("push"), I("sub"), last, I("ret")>>

(* The main program's function jumps to the library's. *)
Stub == <<To("jmp", Place(2))>>
Library == <<I("push"), I("lea"), I("ret")>>
Other == <<I("endbr"), To("call", Place(2)), I("ret")>>

MCPrograms ==
  Single(Bodies(Sound \cup Missized), Alone) \cup
  Single({Loop(To("je", Place(1) + t)) : t \in {0, 1, 6}} \cup
         {Loop(To("jeshort", Place(1) + t)) : t \in {0, 1, 6}}, Followed) \cup
  UNION {Single({Library, Other}, m) : m \in {Followed, Full, Large, Straddling}} \cup
  {Program(<<Stub, Library, Other>>, m, <<Hook(a, 0), Hook(b, c), Hook(3, 0)>>) :
     m \in {Alone, Followed}, a, b \in 1..2, c \in 0..1}
===============================================================================

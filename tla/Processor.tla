------------------------------- MODULE Processor -------------------------------
(***************************************************************************)
(* Code in memory: a few instructions of x86_64 that begin functions.  A   *)
(* cell of memory is a byte; a field of four bytes has its value in the    *)
(* first and zeros in the others.  The instructions that load an address   *)
(* and jump to it are one of two cells, JMPQ and the address.              *)
(***************************************************************************)
EXTENDS Integers, Sequences, FiniteSets

CONSTANTS
  Section   \* 2^32: the reach of an offset, forward and backward together

ASSUME SectionAssumption == Section \in Nat \ {0} /\ Section % 2 = 0

JMPQ == 1000

(* Within an instruction: an offset from its end, and a plain operand *)
Offset == -1
Operand == -2

(* An instruction: what it does, and its bytes *)
Instructions ==
  {[does |-> "push", bytes |-> <<85>>],
   [does |-> "mov", bytes |-> <<72, 137, 229>>],
   [does |-> "sub", bytes |-> <<72, 131, 236, Operand>>],
   [does |-> "xor", bytes |-> <<49, 192>>],
   [does |-> "set", bytes |-> <<184, Operand, 0, 0, 0>>],
   [does |-> "load", bytes |-> <<139, 5, Offset, 0, 0, 0>>],
   [does |-> "lea", bytes |-> <<72, 141, 5, Offset, 0, 0, 0>>],
   [does |-> "compare", bytes |-> <<128, 61, Offset, 0, 0, 0, Operand>>],
   [does |-> "store", bytes |-> <<199, 5, Offset, 0, 0, 0, Operand, 0, 0, 0>>],
   [does |-> "shl", bytes |-> <<193, 224, Operand>>],
   [does |-> "neg", bytes |-> <<247, 216>>],
   [does |-> "test", bytes |-> <<247, 192, Operand, 0, 0, 0>>],
   [does |-> "endbr", bytes |-> <<243, 15, 30, 250>>],
   [does |-> "nop", bytes |-> <<144>>],
   [does |-> "call", bytes |-> <<232, Offset, 0, 0, 0>>],
   [does |-> "je", bytes |-> <<15, 132, Offset, 0, 0, 0>>],
   [does |-> "jeshort", bytes |-> <<116, Offset>>],
   [does |-> "jmp", bytes |-> <<233, Offset, 0, 0, 0>>],
   [does |-> "jmpq", bytes |-> <<JMPQ, Operand>>],
   [does |-> "ret", bytes |-> <<195>>],
   [does |-> "repret", bytes |-> <<243, 195>>]}

Instruction(does) == CHOOSE i \in Instructions : i.does = does

(* Memory that is not mapped or holds no instruction stops the program. *)
Byte(memory, a) == IF a \in DOMAIN memory THEN memory[a] ELSE 204

At(memory, a) ==
  {i \in Instructions : \A k \in DOMAIN i.bytes :
     \/ i.bytes[k] \in {Offset, Operand} /\ a + k - 1 \in DOMAIN memory
     \/ Byte(memory, a + k - 1) = i.bytes[k]}

Signed(offset) == ((offset + Section \div 2) % Section) - Section \div 2

Field(memory, a, i, kind) ==
  LET ks == {k \in DOMAIN i.bytes : i.bytes[k] = kind}
  IN  IF ks = {} THEN 0 ELSE memory[a + (CHOOSE k \in ks : TRUE) - 1]

Target(memory, a, i) ==
  IF \E k \in DOMAIN i.bytes : i.bytes[k] = Offset
  THEN a + Len(i.bytes) + Signed(Field(memory, a, i, Offset)) ELSE 0

===============================================================================

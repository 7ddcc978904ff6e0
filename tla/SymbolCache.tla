----------------------------- MODULE SymbolCache -----------------------------
(***************************************************************************)
(* IgProfSymCache: from the address of a call to the symbol that a dump    *)
(* names.  One cache serves one dump.  Three hash tables of chains: the    *)
(* addresses asked for and the symbols are kept in the order of their      *)
(* addresses, the binaries in the order of their appearance.               *)
(*                                                                         *)
(* What dladdr() says of an address is a constant: the address of the name *)
(* of its binary stands for the binary, 0 for none.                        *)
(***************************************************************************)
EXTENDS Integers, Sequences, SequencesExt

CONSTANTS
  Addresses,   \* of calls
  Slot,        \* the hash of an address, reduced to the size of the tables
  BinaryOf     \* the binary of an address

ASSUME AddressesAssumption == Addresses \subseteq Nat \ {0}
ASSUME SlotAssumption == Slot \in [Addresses -> Nat]
ASSUME BinaryAssumption == DOMAIN BinaryOf = Addresses

Slots == {Slot[a] : a \in Addresses}

IgProfSymCache ==
  [symcache |-> [s \in Slots |-> <<>>],   \* the addresses asked for
   symtable |-> [s \in Slots |-> <<>>],   \* the addresses of the symbols
   symId    |-> << >>,                    \* the identifier of a symbol, -1 for none
   binId    |-> << >>]                    \* of a binary

(* The table with an entry for x *)
Entered(table, x, entry) ==
  [y \in DOMAIN table \cup {x} |-> IF y = x THEN entry ELSE table[y]]

(* Where a walk of a chain stops: at the address, or the first greater one. *)
Stop(chain, address) == SelectInSeq(chain, LAMBDA a : a >= address)

Holds(chain, address) ==
  Stop(chain, address) # 0 /\ chain[Stop(chain, address)] = address

HookUp(chain, address) ==
  IF Stop(chain, address) = 0 THEN Append(chain, address)
  ELSE InsertAt(chain, Stop(chain, address), address)

symbolForAddress(cache, address) == Holds(cache.symtable[Slot[address]], address)

(* The call is cached, and its symbol and the binary entered if they are new. *)
roundAddressToSymbol(cache, address) ==
  LET s      == Slot[address]
      binary == BinaryOf[address]
      cached == [cache EXCEPT !.symcache[s] = HookUp(@, address)]
  IN  IF Holds(cache.symcache[s], address) THEN cache
      ELSE IF Holds(cache.symtable[s], address) THEN cached
      ELSE [cached EXCEPT !.symtable[s] = HookUp(@, address),
                          !.symId = Entered(@, address, -1),
                          !.binId = IF binary \in DOMAIN @ THEN @ ELSE Entered(@, binary, -1)]

==============================================================================

------------------------------ MODULE DumpWriter ------------------------------
(***************************************************************************)
(* What dumpOneProfile() writes: one line for a frame of a call tree.      *)
(* Symbols, binaries and counters are defined where they first occur and   *)
(* from then on referred to by number.  The number of a counter is kept in *)
(* its definition, which outlives the dump.                                *)
(*                                                                         *)
(* A line is a sequence of tokens: its frame, its counters, each with its  *)
(* live resources, and its end.  A buffer is the sequence of its frames,   *)
(* of which the first is the root and each knows the indices of its        *)
(* children.                                                               *)
(***************************************************************************)
EXTENDS SymbolCache, TLC

CONSTANTS
  NameOf,      \* the name of the symbol at an address, <<>> for none
  DerivedLeaks \* counters whose leaks are computed when they are dumped

(* No symbol has a name like those that are made up. *)
ASSUME NameAssumption == \A a \in Addresses : NameOf[a] # <<>> => NameOf[a][1] # "@?"

(* The name that is printed; the address makes one up for the nameless. *)
Printed(address) ==
  IF NameOf[address] = <<>> THEN <<"@?", ToString(address)>> ELSE NameOf[address]

(* IgProfDumpInfo.  ids is the number of every counter, out what is written. *)
IgProfDumpInfo(ids) ==
  [nsyms |-> 0, nlibs |-> 0, nctrs |-> 0, symcache |-> IgProfSymCache,
   ids |-> ids, out |-> <<[k |-> "P"]>>, crashed |-> FALSE]

Put(info, token) == [info EXCEPT !.out = Append(@, token)]

Frame(depth, fn, defines, file, address) ==
  [k |-> "C", depth |-> depth, fn |-> fn, defines |-> defines, file |-> file,
   name |-> Printed(address), offset |-> address]

(* The address of a frame: a reference, or a definition with or without one *)
(* of its binary.                                                           *)
PutFrame(info, depth, address) ==
  LET cache == roundAddressToSymbol(info.symcache, address)
      b     == BinaryOf[address]
      known == [info EXCEPT !.symcache = cache]
      fn    == [known EXCEPT !.symcache.symId[address] = info.nsyms, !.nsyms = @ + 1]
      file  == [fn EXCEPT !.symcache.binId[b] = info.nlibs, !.nlibs = @ + 1]
      noFile == [id |-> -1, defines |-> FALSE, name |-> b]
  IN  IF ~ symbolForAddress(cache, address) THEN [known EXCEPT !.crashed = TRUE]
      ELSE IF cache.symId[address] >= 0
      THEN Put(known, Frame(depth, cache.symId[address], FALSE, noFile, address))
      ELSE IF cache.binId[b] >= 0
      THEN Put(fn, Frame(depth, info.nsyms, TRUE, [noFile EXCEPT !.id = cache.binId[b]], address))
      ELSE Put(file, Frame(depth, info.nsyms, TRUE,
                           [noFile EXCEPT !.id = info.nlibs, !.defines = TRUE], address))

(* live are the sizes of the resources, or what derivedLeakSize() makes of them. *)
Leaks(c) == SelectSeq(c.live, LAMBDA size : c.def \in DerivedLeaks => size # 0)

(* Only the counters that have counted something are written. *)
PutCounter(info, c) ==
  LET defines == info.ids[c.def] < 0
      id      == IF defines THEN info.nctrs ELSE info.ids[c.def]
      token   == [k |-> "V", id |-> id, defines |-> defines, name |-> c.def,
                  ticks |-> c.ticks, value |-> c.value, peak |-> c.peak, leaks |-> Leaks(c)]
  IN  IF c.ticks = 0 /\ c.peak = 0 THEN info
      ELSE [Put(info, token) EXCEPT !.ids[c.def] = id,
                                    !.nctrs = IF defines THEN @ + 1 ELSE @]

EndLine(info) == Put(info, [k |-> "EOL"])

(* The frames that are still to be entered: their depth goes up with them. *)
Item(frame, depth) == [frame |-> frame, depth |-> depth]
Root == Item(1, 0)

Below(buffer, item) ==
  [k \in DOMAIN buffer[item.frame].children |->
     Item(buffer[item.frame].children[k], item.depth + 1)]

Defs(buffer, i) == {buffer[i].counters[j].def : j \in DOMAIN buffer[i].counters}

(* Mutant: the counters of the root only *)
dumpResetIDs_Root(ids, buffer) ==
  [c \in DOMAIN ids |-> IF c \in Defs(buffer, 1) THEN -1 ELSE ids[c]]

(* Every counter of every frame loses its number. *)
dumpResetIDs(ids, buffer) ==
  [c \in DOMAIN ids |->
     IF \E i \in DOMAIN buffer : c \in Defs(buffer, i) THEN -1 ELSE ids[c]]

===============================================================================

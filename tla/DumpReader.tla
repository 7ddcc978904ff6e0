------------------------------ MODULE DumpReader ------------------------------
(***************************************************************************)
(* readDump() of igprof-analyse over the tokens of a file, and the         *)
(* SymbolInfoFactory with its tables of symbols and files by number.       *)
(* Numbers count from zero.  Reading ends in an error message (died), in a *)
(* failed assertion, or in an access beyond the end of a table             *)
(* (undefined), whatever that does; after either nothing more is read.     *)
(***************************************************************************)
EXTENDS Integers, Sequences, SequencesExt, TLC

CONSTANTS
  RealPath     \* the file a binary's name resolves to

Missing == <<>>

(* What reading a dump starts with.  The symbols by name, the key and the  *)
(* costs outlast a file; cost gives the counts of every call path.         *)
Reader(r) ==
  [r EXCEPT !.nodestack = <<>>, !.symbols = <<>>, !.files = <<>>, !.namedFiles = {},
            !.keys = <<>>, !.expects = "P"]

FirstReader(key) ==
  [key |-> key, known |-> {}, cost |-> << >>, status |-> "reading",
   nodestack |-> <<>>, symbols |-> <<>>, files |-> <<>>, namedFiles |-> {}, keys |-> <<>>,
   expects |-> "P"]

Stopped(r, how) == [r EXCEPT !.status = how]

(* vector::resize(id + 1), when it grows, and the assignment that follows *)
Set(table, id, value, none) ==
  [i \in 1..(IF id + 1 > Len(table) THEN id + 1 ELSE Len(table)) |->
     IF i = id + 1 THEN value ELSE IF i <= Len(table) THEN table[i] ELSE none]

(* A lookup by number: assert(id <= size) lets the size itself pass. *)
Lookup(table, id) ==
  IF id > Len(table) THEN "aborted"
  ELSE IF id = Len(table) THEN "undefined"
  ELSE IF table[id + 1] = Missing THEN "missing" ELSE "found"

(* A new file is entered under its number, one already known by its path is not. *)
createFileInfo(r, file) ==
  LET path == RealPath[file.name]
  IN  IF Lookup(r.files, file.id) = "missing" THEN Stopped(r, "died")
      ELSE IF path \in r.namedFiles THEN r
      ELSE [r EXCEPT !.namedFiles = @ \cup {path}, !.files = Set(@, file.id, path, Missing)]

(* symlookup(): the made-up name of a nameless symbol tells its file. *)
symlookup(path, token) ==
  IF token.name[1] = "@?" THEN <<"@{", path, ToString(token.offset)>> ELSE token.name

createSymbolInfo(r, name, id) ==
  IF name \notin r.known /\ id < Len(r.symbols) THEN Stopped(r, "aborted")
  ELSE [r EXCEPT !.symbols = Set(@, id, name, Missing), !.known = @ \cup {name}]

(* The symbol a line defines, with its file *)
Define(r, token) ==
  LET filed == IF token.file.defines THEN createFileInfo(r, token.file) ELSE r
      found == IF token.file.defines THEN "found" ELSE Lookup(r.files, token.file.id)
      path  == IF token.file.defines THEN RealPath[token.file.name] ELSE r.files[token.file.id + 1]
  IN  IF filed.status # "reading" THEN filed
      ELSE CASE found = "found" -> createSymbolInfo(filed, symlookup(path, token), token.fn)
             [] found = "missing" -> Stopped(r, "aborted")
             [] OTHER -> Stopped(r, found)

Refer(r, token) ==
  LET found == Lookup(r.symbols, token.fn)
  IN  CASE found = "found" -> r
        [] found = "missing" -> Stopped(r, "died")
        [] OTHER -> Stopped(r, found)

Nothing == [freq |-> 0, cnt |-> 0]

(* A frame: its depth says whose child it is, its symbol which one. *)
ReadFrame(r, token) ==
  LET named == IF token.defines THEN Define(r, token) ELSE Refer(r, token)
      path  == Append(SubSeq(r.nodestack, 1, token.depth - 1), named.symbols[token.fn + 1])
  IN  IF token.depth - 1 > Len(r.nodestack) THEN Stopped(r, "died")
      ELSE IF named.status # "reading" THEN named
      ELSE [named EXCEPT !.nodestack = path, !.expects = "counter",
                         !.cost = [p \in DOMAIN @ \cup {path} |->
                                     IF p \in DOMAIN @ THEN @[p] ELSE Nothing]]

(* A counter, with its leaks.  The first one is the key if none was asked for. *)
ReadCounter(r, token) ==
  LET key  == IF token.defines /\ r.key = "" THEN token.name ELSE r.key
      keys == IF token.defines THEN Set(r.keys, token.id, token.name = key, FALSE) ELSE r.keys
      read == [r EXCEPT !.key = key, !.keys = keys]
  IN  IF token.id >= Len(keys) THEN Stopped(r, "undefined")
      ELSE IF ~ keys[token.id + 1] THEN read
      ELSE [read EXCEPT !.cost[r.nodestack].freq = @ + token.ticks,
                        !.cost[r.nodestack].cnt = @ + token.value]

ReadToken(r, token) ==
  IF r.status # "reading" THEN r
  ELSE CASE r.expects = "P" /\ token.k = "P" -> [r EXCEPT !.expects = "line"]
         [] r.expects = "line" /\ token.k = "C" -> ReadFrame(r, token)
         [] r.expects = "counter" /\ token.k = "V" -> ReadCounter(r, token)
         [] r.expects = "counter" /\ token.k = "EOL" -> [r EXCEPT !.expects = "line"]
         [] OTHER -> Stopped(r, "died")

(* One file.  It has to end with a line, and to have a counter. *)
readDump(r, file) ==
  LET read == FoldLeft(ReadToken, Reader(r), file)
  IN  IF r.status # "reading" THEN r
      ELSE IF read.status = "reading" /\ (read.expects # "line" \/ read.keys = <<>>)
      THEN Stopped(read, "died")
      ELSE read

===============================================================================

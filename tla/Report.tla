-------------------------------- MODULE Report --------------------------------
(***************************************************************************)
(* The flat report of igprof-analyse: page counts, ranks, the rows with    *)
(* their callers and callees, and what is printed (analyse.cc).  The state *)
(* of a report is the function from keys to FlatInfo that a walk returned. *)
(***************************************************************************)
EXTENDS FlatProfile, Options

(***************************************************************************)
(* summarizePageInfo(): counts of pages or ranges replace the counters.    *)
(***************************************************************************)
PageCount(mode, ranges) == IF mode = "ranges" THEN Len(ranges) ELSE countPages(ranges)

Spread(pages, value) == IF value = 0 THEN 1 ELSE Quotient(4096 * pages, value)

SpreadInfo(info) ==
  LET pages == countPages(info.SELF_RANGES)
  IN  [info EXCEPT
         !.SELF_KEY[1] = Spread(pages, @),
         !.CUM_KEY[1]  = Spread(pages, @),
         !.CALLS = [k \in DOMAIN @ |-> [@[k] EXCEPT
            !.VALUES[1] = IF info.CALLS[k].RANGES = <<>> THEN 1
                          ELSE Quotient(4096 * Len(info.CALLS[k].RANGES), @)]]]

PageInfo(mode, info) ==
  [info EXCEPT
     !.SELF_KEY[1] = PageCount(mode, info.SELF_RANGES),
     !.CUM_KEY[1]  = PageCount(mode, info.CUM_RANGES),
     !.CALLS = [k \in DOMAIN @ |-> [@[k] EXCEPT
                  !.VALUES[1] = PageCount(mode, info.CALLS[k].RANGES)]]]

summarizePageInfo(mode, flat) ==
  [k \in DOMAIN flat |-> CASE mode = "none"     -> flat[k]
                           [] mode = "locality" -> SpreadInfo(flat[k])
                           [] OTHER             -> PageInfo(mode, flat[k])]

(***************************************************************************)
(* FlatInfoComparator: by cumulative cost, the largest first, and by depth. *)
(* What is left is the order of names, for which any order stands here.    *)
(***************************************************************************)
Precedes(a, b) ==
  LET x == Magnitude(a.CUM_KEY[1])
      y == Magnitude(b.CUM_KEY[1])
  IN  x > y \/ (x = y /\ a.DEPTH < b.DEPTH)

Ranked(flat) ==
  SortSeq(SetToSeq(DOMAIN flat), LAMBDA a, b : Precedes(flat[a], flat[b]))

(***************************************************************************)
(* GProfMainRowBuilder.  In diff mode the percentages are those of what    *)
(* the baseline has: a row without a counterpart there is "new" instead.   *)
(***************************************************************************)
Callee(flat, caller, callee) ==
  IF caller \in DOMAIN flat /\ callee \in DOMAIN flat[caller].CALLS
  THEN flat[caller].CALLS[callee].VALUES ELSE <<0, 0, 0>>

(* Mutant: in diff mode too a percentage is one of the totals. *)
EdgeDies_Totals(r, caller, callee, value) == percentDies(value, r.totals)

EdgeDies(r, caller, callee, value) ==
  IF r.diffMode
  THEN /\ caller \in DOMAIN r.baseline
       /\ callee \in DOMAIN r.baseline[caller].CALLS
       /\ percentDies(value, Magnitude(Callee(r.baseline, caller, callee)[1]))
  ELSE percentDies(value, r.totals)

OtherRow(r, key, edge, dies) ==
  [key |-> key, SELF_COUNTS |-> edge[1], CHILDREN_COUNTS |-> r.flat[key].CUM_KEY[1],
   SELF_CALLS |-> edge[2], TOTAL_CALLS |-> r.flat[key].CUM_KEY[2],
   SELF_PATHS |-> edge[3], TOTAL_PATHS |-> r.flat[key].CUM_KEY[3],
   dies |-> dies]

(* The sets of rows are ordered by counts and name: equal ones are kept once. *)
Distinct(rows) ==
  LET Same(a, b) == /\ a.SELF_COUNTS = b.SELF_COUNTS
                    /\ a.CHILDREN_COUNTS = b.CHILDREN_COUNTS
                    /\ a.key[1] = b.key[1]
  IN  {a \in rows : a = CHOOSE b \in rows : Same(a, b)}

addCallers(r, key) ==
  Distinct({OtherRow(r, c, Callee(r.flat, c, key),
                     EdgeDies(r, c, key, Callee(r.flat, c, key)[1])) :
              c \in {d \in r.flat[key].CALLERS : Callee(r.flat, d, key)[1] # 0}})

(* Mutant: callees without cost are listed. *)
addCallees_Empty(r, key) ==
  LET calls == r.flat[key].CALLS
  IN  {OtherRow(r, c, calls[c].VALUES, EdgeDies(r, key, c, calls[c].VALUES[1])) : c \in DOMAIN calls}

addCallees(r, key) ==
  LET calls == r.flat[key].CALLS
  IN  Distinct({OtherRow(r, c, calls[c].VALUES, EdgeDies(r, key, c, calls[c].VALUES[1])) :
                  c \in {d \in DOMAIN calls : calls[d].VALUES[1] # 0}})

OrigValue(r, key, field) == IF key \in DOMAIN r.baseline THEN r.baseline[key][field][1] ELSE 0

RowBase(r, key, field) == IF r.diffMode THEN Magnitude(OrigValue(r, key, field)) ELSE r.totals

MainRow(r, key, rank) ==
  LET info  == r.flat[key]
      calls == addCallees(r, key)
      Dies(field) == /\ percentDies(info[field][1], RowBase(r, key, field))
                     /\ r.diffMode => OrigValue(r, key, field) # 0
  IN  [key |-> key, rank |-> rank,
       CUM |-> info.CUM_KEY[1], SELF |-> info.SELF_KEY[1],
       KIDS |-> IF r.isMax
                THEN FoldSet(Larger, 0, {c.SELF_COUNTS : c \in calls})
                ELSE info.CUM_KEY[1] - info.SELF_KEY[1],
       CUM_ALL |-> info.CUM_KEY, SELF_ALL |-> info.SELF_KEY,
       CALLERS |-> addCallers(r, key), CALLS |-> calls,
       dies |-> \/ Dies("CUM_KEY") \/ Dies("SELF_KEY")
                \/ \E c \in calls \union addCallers(r, key) : c.dies]

(***************************************************************************)
(* generateFlatReport(): the table of rows and the two printed lists, each *)
(* of which ends with its first row below the threshold.                   *)
(***************************************************************************)
Table(r) ==
  LET rows   == [i \in DOMAIN r.ranked |-> <<r.ranked[i], i>>]
      shown  == SelectSeq(rows, LAMBDA p : r.flat[p[1]].CUM_KEY[1] # 0 \/ r.mode = "locality")
  IN  [i \in DOMAIN shown |-> MainRow(r, shown[i][1], shown[i][2])]

UpTo(rows, Stop(_)) ==
  LET i == SelectInSeq(rows, Stop) IN IF i = 0 THEN rows ELSE SubSeq(rows, 1, i)

CumulativeList(r, table) ==
  UpTo(table, LAMBDA row : row.CUM = 0 \/ (~ r.diffMode /\ Below(row.CUM, 100, r.totals)))

(* Mutant: the second list is in the order of the first. *)
SortRowBySelf_Not(table) == table

SortRowBySelf(table) == SortSeq(table, LAMBDA a, b : Magnitude(a.SELF) > Magnitude(b.SELF))

(* A percentage is a float: what is 0.01 exactly is just below 0.01 as one. *)
BelowFloat(cost, totals) == Below(cost, 1, totals) \/ 10000 * cost = totals

SelfList(r, table) ==
  UpTo(SortRowBySelf(table),
       LAMBDA row : row.SELF = 0 \/ (~ r.diffMode /\ BelowFloat(row.SELF, r.totals)))

(***************************************************************************)
(* The tables of the SQL and JSON reports.  Symbols and files are numbered *)
(* in the order of the rows that show them; the edges of a row name other  *)
(* rows by their rank.                                                     *)
(***************************************************************************)
Indexed(table, Id(_)) ==
  FoldLeft(LAMBDA done, row : IF Contains(done, Id(row)) THEN done ELSE Append(done, Id(row)),
           <<>>, table)

Position(seq, x) == SelectInSeq(seq, LAMBDA y : y = x)

Edges(r, row, others) ==
  {[other |-> Position(r.ranked, o.key), main |-> row.rank,
    values |-> <<o.SELF_COUNTS, o.SELF_CALLS, o.SELF_PATHS>>] : o \in others}

Database(r, table) ==
  LET Symbol(row) == row.key
      File(row)   == r.flat[row.key].SYMBOL.FILE
      symbols     == Indexed(table, Symbol)
      files       == Indexed(table, File)
  IN  [symbols  |-> symbols,
       files    |-> files,
       mainrows |-> {[id |-> row.rank, symbol |-> Position(symbols, Symbol(row)),
                      file |-> Position(files, File(row)),
                      values |-> <<row.SELF, row.CUM, row.KIDS>>] : row \in Range(table)},
       parents  |-> UNION {Edges(r, row, row.CALLERS) : row \in Range(table)},
       children |-> UNION {Edges(r, row, row.CALLS) : row \in Range(table)}]

(* In diff mode every row is looked up in the baseline's map, if there is one or not. *)
Unmapped(r, table) == r.diffMode /\ ~ r.mapped /\ table # <<>>

generateFlatReport(r) ==
  LET table == Table(r)
  IN  [table |-> table, cumList |-> CumulativeList(r, table), selfList |-> SelfList(r, table),
       database |-> Database(r, table),
       totals |-> r.totals, died |-> Unmapped(r, table) \/ \E i \in DOMAIN table : table[i].dies]

(* topN(): the entries, the largest first, up to the first that is empty *)
UpToEmpty(entries) ==
  LET empty == SelectInSeq(entries, LAMBDA e : e.value = 0)
  IN  IF empty = 0 THEN entries ELSE SubSeq(entries, 1, empty - 1)

TopReport(top) == UpToEmpty(SortSeq(top, LAMBDA a, b : a.value > b.value))

===============================================================================

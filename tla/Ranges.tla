-------------------------------- MODULE Ranges --------------------------------
(***************************************************************************)
(* Lists of page ranges, as igprof-analyse keeps them for --show-pages     *)
(* (RangeInfo and its helpers in analyse.cc).  A range is a pair of its    *)
(* first and its last page.                                                *)
(***************************************************************************)
EXTENDS Integers, SequencesExt

RECURSIVE Queued(_, _)

(* RangeInfo::operator<: ranges that share a page are equal to each other *)
isBefore(r, other) == r.endAddr < other.startAddr

size(r) == r.endAddr - r.startAddr + 1

PagesOf(ranges) == UNION {ranges[i].startAddr .. ranges[i].endAddr : i \in DOMAIN ranges}

(* std::sort of up to 16 ranges: an insertion sort that tries the front first *)
InsertRange(done, r) ==
  LET stay == SelectLastInSeq(done, LAMBDA d : ~ isBefore(r, d))
  IN  IF done = <<>> THEN <<r>>
      ELSE IF isBefore(r, Head(done)) THEN <<r>> \o done
      ELSE InsertAt(done, stay + 1, r)

SortedRanges(ranges) == FoldLeft(InsertRange, <<>>, ranges)

(* Mutant: a range within the last one cuts it short. *)
Extend_Shrinks(ranges, next) ==
  IF next.startAddr <= Last(ranges).endAddr
  THEN [ranges EXCEPT ![Len(ranges)].endAddr = next.endAddr]
  ELSE Append(ranges, next)

(* The next range extends the last one if it starts in it. *)
Extend(ranges, next) ==
  IF next.startAddr <= Last(ranges).endAddr
  THEN [ranges EXCEPT ![Len(ranges)].endAddr = IF next.endAddr >= @ THEN next.endAddr ELSE @]
  ELSE Append(ranges, next)

mergeSortedRanges(source) ==
  IF source = <<>> THEN source ELSE FoldLeft(Extend, <<Head(source)>>, Tail(source))

(* Two queues, the one with the lower start first *)
Queued(dest, source) ==
  IF dest = <<>> THEN source
  ELSE IF source = <<>> THEN dest
  ELSE IF Head(dest).startAddr < Head(source).startAddr
       THEN <<Head(dest)>> \o Queued(Tail(dest), source)
       ELSE <<Head(source)>> \o Queued(dest, Tail(source))

mergeRanges(dest, source) ==
  IF dest = <<>> \/ source = <<>> THEN dest \o source
  ELSE mergeSortedRanges(Queued(dest, source))

countPages(ranges) == FoldLeft(LAMBDA n, r : n + size(r), 0, ranges)

===============================================================================

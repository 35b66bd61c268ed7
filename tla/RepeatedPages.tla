--------------------------- MODULE RepeatedPages ---------------------------
(***************************************************************************)
(* repeatedPageIterator (pkg/phlaredb/query/repeated.go): the values that  *)
(* a repeated column holds for given rows.  A row has several values, the  *)
(* first at repetition level 0 and the others at a higher one.  Values are *)
(* read readSize at a time, so that a buffer may begin or end in the       *)
(* middle of a row and a row may be returned in several parts; rows that   *)
(* are not asked for are skipped, also in parts.                           *)
(*                                                                         *)
(* A table t has the values of each row, what a null of it reads as, and   *)
(* its row groups as sequences of pages, given by their numbers of rows.   *)
(* Rows are numbered from 0.  Iterate is one step of the loop Outer of     *)
(* Next.                                                                   *)
(***************************************************************************)
EXTENDS Integers, Sequences, FiniteSets, SequencesExt, FiniteSetsExt

CONSTANT repeatedReadSize   \* values read at once (1e4)

ASSUME RepeatedReadSizeAssumption == repeatedReadSize \in Nat \ {0}

total(s) == FoldSeq(LAMBDA x, a : x + a, 0, s)

NoPage == [rows |-> 0, unread |-> <<>>]

(* rows are the rows asked for, in ascending order.                        *)
NewRepeatedPageIterator(rows) ==
  [rows |-> rows, rg |-> 1, startRowGroup |-> 0, page |-> NoPage, startPage |-> 0,
   pageNext |-> 0, rowFinished |-> TRUE, skipping |-> FALSE, buffer |-> <<>>,
   ret |-> "none", row |-> -1, values |-> <<>>]

done(it) == it.rows = <<>>
seekRowNum(it) == Head(it.rows)

(* An empty list is stored as one null.                                    *)
stored(t, n) == IF t.vals[n] = <<>> THEN <<t.null>> ELSE t.vals[n]
levelled(row) == [j \in DOMAIN row |-> [v |-> row[j], rep |-> IF j = 1 THEN 0 ELSE 1]]

(* SeekToRow and ReadPage of parquet: the rest of the page that holds the  *)
(* row, from the row on.                                                   *)
SeekAndRead(t, it) ==
  LET seekTo == seekRowNum(it) - it.startRowGroup
      pages == t.groups[it.rg]
      through(k) == total(SubSeq(pages, 1, k))
      n == through(Min({k \in DOMAIN pages : through(k) > seekTo})) - seekTo
      read == FlattenSeq([k \in 1..n |-> levelled(stored(t, seekRowNum(it) + k))])
  IN [it EXCEPT !.startPage = seekRowNum(it), !.pageNext = 0, !.buffer = <<>>,
                !.rowFinished = TRUE, !.skipping = FALSE,
                !.page = [rows |-> n, unread |-> read]]

(* readNextRow: where the first row that starts in the buffer starts, and  *)
(* where the one after it does, counted from 0; complete when it does.     *)
readNextRow(it) ==
  LET starts == {k \in DOMAIN it.buffer : it.buffer[k].rep = 0}
      start == IF starts = {} THEN 0 ELSE Min(starts) - 1
      later == {k \in starts : k - 1 > start}
  IN [start |-> start,
      next |-> IF later = {} THEN Len(it.buffer) ELSE Min(later) - 1,
      ok |-> later # {}]

Drop(it, n) == [it EXCEPT !.buffer = SubSeq(@, n + 1, Len(@))]
Return(it, n) ==
  [Drop(it, n) EXCEPT !.ret = "row", !.row = seekRowNum(it),
                      !.values = [k \in 1..n |-> it.buffer[k].v]]
NextRow(it) == [it EXCEPT !.rows = Tail(@)]
ReturnFalse(it) == [it EXCEPT !.ret = "end"]

FillBuffer(it) ==
  LET n == Min({repeatedReadSize, Len(it.page.unread)})
  IN [it EXCEPT !.buffer = SubSeq(it.page.unread, 1, n),
                !.page.unread = SubSeq(@, n + 1, Len(@))]

-----------------------------------------------------------------------------
(* What a turn does with a buffer that is not empty.                       *)

beforeRow(it) == seekRowNum(it) > it.startPage + it.pageNext

CompleteRow(it, next) ==
  IF beforeRow(it) THEN [Drop(it, next) EXCEPT !.pageNext = @ + 1]
  ELSE NextRow([Return(it, next) EXCEPT !.pageNext = @ + 1])

(* A part of a row, or a row that is being skipped.                        *)
skipAll(it, start, next) == [Drop(it, next) EXCEPT !.skipping = TRUE]
Skip(it, start, next) ==
  IF it.skipping /\ it.buffer[start + 1].rep = 0
  THEN [Drop(it, start) EXCEPT !.pageNext = @ + 1, !.skipping = FALSE, !.rowFinished = TRUE]
  ELSE [Drop(it, IF start # 0 THEN start + 1 ELSE next) EXCEPT !.skipping = TRUE]

PartialRow(it, start, next) ==
  IF beforeRow(it) THEN Skip([it EXCEPT !.rowFinished = FALSE], start, next)
  ELSE Return([it EXCEPT !.rowFinished = FALSE], next)

(* The row that was returned in part ends where the next one starts.       *)
RowContinues(it, start, next) ==
  IF it.buffer[start + 1].rep # 0 THEN Return(it, next)
  ELSE IF start >= 1 THEN Return(it, start)
  ELSE [NextRow(it) EXCEPT !.pageNext = @ + 1, !.rowFinished = TRUE]

WithBuffer(it) ==
  LET r == readNextRow(it)
  IN IF r.ok /\ it.rowFinished THEN CompleteRow(it, r.next)
     ELSE IF it.rowFinished \/ it.skipping THEN PartialRow(it, r.start, r.next)
     ELSE RowContinues(it, r.start, r.next)

(* When the page has no more values its last row is over.                  *)
pageIsOver(it) == [it EXCEPT !.page = NoPage]
lastRowIsOver(it) == [NextRow(it) EXCEPT !.page = NoPage]

groupRows(t, it) == total(t.groups[it.rg])

Iterate(t, it) ==
  IF done(it) \/ it.rg > Len(t.groups) THEN ReturnFalse(it)
  ELSE IF seekRowNum(it) >= it.startRowGroup + groupRows(t, it)
  THEN [it EXCEPT !.startRowGroup = @ + groupRows(t, it), !.rg = @ + 1]
  ELSE IF it.page = NoPage THEN SeekAndRead(t, it)
  ELSE IF seekRowNum(it) >= it.startPage + it.page.rows THEN pageIsOver(it)
  ELSE IF it.buffer # <<>> THEN WithBuffer(it)
  ELSE IF it.page.unread = <<>> THEN lastRowIsOver(it) ELSE FillBuffer(it)
=============================================================================

----------------------------- MODULE ColumnJoin -----------------------------
(***************************************************************************)
(* SelectMatchingProfiles of a block (pkg/phlaredb/block_querier.go): the  *)
(* rows of the profiles table whose SeriesIndex is wanted and whose        *)
(* TimeNanos lies in the range of the query, found by a JoinIterator over  *)
(* two ColumnIterators (pkg/phlaredb/query/iters.go).                      *)
(*                                                                         *)
(* Each ColumnIterator has a goroutine that reads its column page by page, *)
(* drops what the predicate excludes and sends buffers through a channel   *)
(* of capacity one.  The join tells it through seekTo which rows it can    *)
(* skip; the goroutine reads seekTo when it comes to a row group or page,  *)
(* at whatever moment that is.  The columns have pages of their own.       *)
(*                                                                         *)
(* Reads of the file may fail: PageFails and ValueFails, at most MaxErrors *)
(* times in all.                                                           *)
(***************************************************************************)
EXTENDS Integers, Sequences, FiniteSets, SequencesExt, FiniteSetsExt

CONSTANTS Files,           \* the profile tables looked at
          Requests,        \* the queries: [series, start, end]
          ReadSize,        \* values read at once (1000)
          MaxErrors        \* bound: reads that fail

ASSUME ReadSizeAssumption == ReadSize \in Nat \ {0}
ASSUME ErrorsAssumption == MaxErrors \in Nat

(* A file has rows, each with a SeriesIndex and TimeNanos, and row groups, *)
(* each with the lengths of the pages of either column.                    *)
VARIABLES file, request,
          col,       \* the goroutine of each column
          ch,        \* its channel, of capacity one
          seekTo,    \* the row the join seeks, -1 before the first seek
          quit,      \* the iterators are closed
          curr,      \* the buffer that the iterator consumes
          peeks,     \* JoinIterator.peeks
          join,      \* where the join is, and the row it collects or seeks
          select,    \* currSeriesIndex and the slices of SelectMatchingProfiles
          errors     \* the reads that failed

joinVars == <<file, request, col, ch, seekTo, quit, curr, peeks, join, select, errors>>

Columns == <<"SeriesIndex", "TimeNanos">>
Cols == ToSet(Columns)
nil == [row |-> -1]

SumTo(s, n) == FoldSeq(LAMBDA x, a : x + a, 0, SubSeq(s, 1, n))
NumRows(g) == SumTo(g.pages["TimeNanos"], Len(g.pages["TimeNanos"]))

JoinInit ==
  /\ file \in Files
  /\ request \in Requests
  /\ col = [c \in Cols |-> [pc |-> "group", rg |-> 1, page |-> 0, left |-> 0,
                            rn |-> -1, buf |-> <<>>]]
  /\ ch = [c \in Cols |-> <<>>]
  /\ seekTo = [c \in Cols |-> -1]
  /\ quit = FALSE
  /\ curr = [c \in Cols |-> <<>>]
  /\ peeks = [c \in Cols |-> nil]
  /\ join = [pc |-> "peek", i |-> 1, row |-> -1, vals |-> nil]
  /\ select = [series |-> -1, slices |-> <<>>]
  /\ errors = 0

-----------------------------------------------------------------------------
(* The predicates: mapPredicate for the series, IntBetweenPredicate for    *)
(* the times.  A row group or page is skipped by the bounds of its values. *)

minOf == [c \in Cols |-> IF c = "TimeNanos" THEN request.start
                         ELSE IF request.series = {} THEN 0 ELSE Min(request.series)]
maxOf == [c \in Cols |-> IF c = "TimeNanos" THEN request.end
                         ELSE IF request.series = {} THEN 0 ELSE Max(request.series)]

KeepValue(c, v) ==
  IF c = "TimeNanos" THEN request.start <= v /\ v <= request.end ELSE v \in request.series

groupStart(rg) == SumTo([g \in DOMAIN file.groups |-> NumRows(file.groups[g])], rg - 1)
pageStart(c, rg, page) == groupStart(rg) + SumTo(file.groups[rg].pages[c], page - 1)
pageRows(c, rg, page) == file.groups[rg].pages[c][page]

KeepPage(c, rg, page) ==
  LET from == pageStart(c, rg, page)
      values == {file.rows[from + k][c] : k \in 1..pageRows(c, rg, page)}
  IN maxOf[c] >= Min(values) /\ minOf[c] <= Max(values)

KeepColumnChunk(c, rg) == \E p \in DOMAIN file.groups[rg].pages[c] : KeepPage(c, rg, p)

-----------------------------------------------------------------------------
(* ColumnIterator.iterate, the goroutine of a column.                      *)

checkSkip(c, n) == seekTo[c] # -1 /\ col[c].rn + n < seekTo[c]

Goes(c, r) == col' = [col EXCEPT ![c] = r]
nextGroup(s) == [s EXCEPT !.pc = "group", !.rg = @ + 1]

NextGroup(c) ==
  LET s == col[c]
      n == NumRows(file.groups[s.rg])
  IN /\ s.pc = "group"
     /\ IF s.rg > Len(file.groups) THEN Goes(c, [s EXCEPT !.pc = "done"])
        ELSE IF checkSkip(c, n) \/ ~KeepColumnChunk(c, s.rg)
        THEN Goes(c, [nextGroup(s) EXCEPT !.rn = @ + n])
        ELSE Goes(c, [s EXCEPT !.pc = "page", !.page = 1])
     /\ UNCHANGED <<file, request, ch, seekTo, quit, curr, peeks, join, select, errors>>

skipPage(s, n) == [s EXCEPT !.page = @ + 1, !.rn = @ + n]

ReadPage(c) ==
  LET s == col[c]
      n == pageRows(c, s.rg, s.page)
  IN /\ s.pc = "page"
     /\ IF s.page > Len(file.groups[s.rg].pages[c]) THEN Goes(c, nextGroup(s))
        ELSE IF checkSkip(c, n) \/ ~KeepPage(c, s.rg, s.page) THEN Goes(c, skipPage(s, n))
        ELSE Goes(c, [s EXCEPT !.pc = "values", !.left = n])
     /\ UNCHANGED <<file, request, ch, seekTo, quit, curr, peeks, join, select, errors>>

(* A page that cannot be read is nil: the row group is left as if it were  *)
(* at its end, but the rows that were not read are not counted.            *)
PageFails(c) ==
  /\ col[c].pc = "page" /\ col[c].page <= Len(file.groups[col[c].rg].pages[c])
  /\ errors < MaxErrors
  /\ Goes(c, nextGroup(col[c]))
  /\ errors' = errors + 1
  /\ UNCHANGED <<file, request, ch, seekTo, quit, curr, peeks, join, select>>

(* A buffer of values, numbered and filtered; an empty one is not sent.    *)
kept(c, s, count) ==
  LET from == pageStart(c, s.rg, s.page) + pageRows(c, s.rg, s.page) - s.left
      read == [k \in 1..count |-> [row |-> s.rn + k, v |-> file.rows[from + k][c]]]
  IN SelectSeq(read, LAMBDA e : KeepValue(c, e.v))

ReadValues(c) ==
  LET s == col[c]
      count == Min({s.left, ReadSize})
      buf == kept(c, s, count)
  IN /\ s.pc = "values"
     /\ IF s.left = 0 THEN Goes(c, [s EXCEPT !.pc = "page", !.page = @ + 1])
        ELSE Goes(c, [s EXCEPT !.left = @ - count, !.rn = @ + count, !.buf = buf,
                               !.pc = IF buf = <<>> THEN "values" ELSE "send"])
     /\ UNCHANGED <<file, request, ch, seekTo, quit, curr, peeks, join, select, errors>>

Send(c) ==
  /\ col[c].pc = "send" /\ ch[c] = <<>>
  /\ ch' = [ch EXCEPT ![c] = col[c].buf]
  /\ Goes(c, [col[c] EXCEPT !.pc = "values", !.buf = <<>>])
  /\ UNCHANGED <<file, request, seekTo, quit, curr, peeks, join, select, errors>>

waitsForRoom(c) == FALSE
(* quit only leaves the row group: the next one is still looked at.        *)
Quit(c) ==
  /\ col[c].pc = "send" /\ quit
  /\ Goes(c, [nextGroup(col[c]) EXCEPT !.buf = <<>>])
  /\ UNCHANGED <<file, request, ch, seekTo, quit, curr, peeks, join, select, errors>>

ValueFails(c) ==
  /\ col[c].pc = "values" /\ col[c].left > 0
  /\ errors < MaxErrors
  /\ Goes(c, [col[c] EXCEPT !.pc = "sendError"])
  /\ errors' = errors + 1
  /\ UNCHANGED <<file, request, ch, seekTo, quit, curr, peeks, join, select>>

(* The error is sent without a look at quit, and the next row group is     *)
(* read after it.                                                          *)
SendError(c) ==
  /\ col[c].pc = "sendError" /\ ch[c] = <<>>
  /\ ch' = [ch EXCEPT ![c] = <<nil>>]
  /\ Goes(c, nextGroup(col[c]))
  /\ UNCHANGED <<file, request, seekTo, quit, curr, peeks, join, select, errors>>

-----------------------------------------------------------------------------
(* The consumer: JoinIterator.Next over ColumnIterator.Next and Seek, and  *)
(* the loop of SelectMatchingProfiles.  It is at column join.i of a pass   *)
(* that peeks, seeks or collects, and needs a value of it.                 *)

needs(j, p, i) ==
  CASE j.pc = "peek" -> p[Columns[i]] = nil
    [] j.pc = "seek" -> p[Columns[i]].row < j.row
    [] j.pc = "collect" -> p[Columns[i]] # nil /\ p[Columns[i]].row = j.row

(* The pass goes to the next column that needs a value; Seek stores the    *)
(* row in seekTo before it waits.                                          *)
Onward(j, p, from) ==
  LET i == Min({k \in from..Len(Columns) : needs(j, p, k)} \cup {Len(Columns) + 1})
  IN /\ join' = [j EXCEPT !.i = i]
     /\ seekTo' = IF j.pc = "seek" /\ i <= Len(Columns)
                  THEN [seekTo EXCEPT ![Columns[i]] = j.row] ELSE seekTo

(* ColumnIterator.next: from the buffer, else from the channel, which is   *)
(* closed when the goroutine has ended.  An error looks like the end.      *)
Available(c) == curr[c] # <<>> \/ ch[c] # <<>> \/ col[c].pc = "done"
fromChannel(c) == curr[c] = <<>> /\ ch[c] # <<>>
nextValue(c) ==
  IF curr[c] # <<>> THEN Head(curr[c]) ELSE IF ch[c] # <<>> THEN Head(ch[c]) ELSE nil

Pull ==
  LET c == Columns[join.i]
      v == nextValue(c)
      p == [peeks EXCEPT ![c] = v]
      ends == v = nil /\ join.pc = "peek"
      again == v # nil /\ needs(join, p, join.i)
  IN /\ join.pc # "done" /\ join.i <= Len(Columns) /\ Available(c)
     /\ curr' = [curr EXCEPT ![c] = IF fromChannel(c) THEN Tail(ch[c])
                                    ELSE IF @ = <<>> THEN <<>> ELSE Tail(@)]
     /\ ch' = [ch EXCEPT ![c] = IF fromChannel(c) THEN <<>> ELSE @]
     /\ peeks' = p
     /\ quit' = ends
     /\ IF ends THEN join' = [join EXCEPT !.pc = "done"] /\ UNCHANGED seekTo
        ELSE IF again THEN UNCHANGED <<join, seekTo>>
        ELSE Onward(join, p, join.i + 1)
     /\ UNCHANGED <<file, request, col, select, errors>>

(* What a pass over all columns leads to.                                  *)
sameRow == \A c \in Cols : peeks[c].row = peeks["TimeNanos"].row
highest == Max({peeks[c].row : c \in Cols})

(* The body of the loop of SelectMatchingProfiles.                         *)
newSlice(s, series) ==
  IF series = s.series THEN s
  ELSE [series |-> s.series + 1, slices |-> Append(s.slices, <<>>)]

Collected(s, row, vals) ==
  LET t == newSlice(s, vals["SeriesIndex"].v)
      profile == [series |-> vals["SeriesIndex"].v, ts |-> vals["TimeNanos"].v, RowNum |-> row]
  IN [t EXCEPT !.slices[Len(t.slices)] = Append(@, profile)]

PassEnds ==
  /\ join.pc # "done" /\ join.i > Len(Columns)
  /\ \/ /\ join.pc = "peek" /\ sameRow
        /\ Onward([join EXCEPT !.pc = "collect", !.row = highest, !.vals = peeks], peeks, 1)
        /\ UNCHANGED select
     \/ /\ join.pc = "peek" /\ ~sameRow
        /\ Onward([join EXCEPT !.pc = "seek", !.row = highest], peeks, 1)
        /\ UNCHANGED select
     \/ /\ join.pc = "seek"
        /\ Onward([join EXCEPT !.pc = "peek"], peeks, 1)
        /\ UNCHANGED select
     \/ /\ join.pc = "collect"
        /\ select' = Collected(select, join.row, join.vals)
        /\ Onward([join EXCEPT !.pc = "peek", !.vals = nil], peeks, 1)
  /\ UNCHANGED <<file, request, col, ch, quit, curr, peeks, errors>>

-----------------------------------------------------------------------------
Goroutine(c) == NextGroup(c) \/ ReadPage(c) \/ ReadValues(c) \/ Send(c) \/ Quit(c) \/ SendError(c)
Consumer == Pull \/ PassEnds
Fails(c) == PageFails(c) \/ ValueFails(c)

JoinNext == (\E c \in Cols : Goroutine(c) \/ Fails(c)) \/ Consumer
=============================================================================

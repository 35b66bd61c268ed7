----------------------------- MODULE BlockQuery -----------------------------
(***************************************************************************)
(* A query of one block from its files to its answer: the profiles are     *)
(* selected (ColumnJoin), the client picks some of them, Sort orders these *)
(* by row, and MergeByStacktraces or MergeByLabels reads their samples     *)
(* (RepeatedPages) and adds them up (SampleMerge).                         *)
(*                                                                         *)
(* The two sample columns of MergeByStacktraces are read in lock step by   *)
(* NewMultiRepeatedPageIterator, each in a goroutine; they have the same   *)
(* pages, for the writer gives both the same levels and 8 bytes a value.   *)
(***************************************************************************)
EXTENDS ColumnJoin, RepeatedPages, SampleMerge

CONSTANT Symbols    \* locations, functions and the table of stacktraces

VARIABLES kind,     \* the merge asked for, once profiles are selected
          phase,    \* select, merge, resolve, done or failed
          picked,   \* the profiles that the client picked
          its,      \* the iterators of the merge, by column
          aggr,     \* stacktraceAggrValues
          points,   \* seriesByLabels
          locations \* locationsByStacktraceID

mergeVars == <<kind, phase, picked, its, aggr, points, locations>>
vars == <<joinVars, mergeVars>>

Init ==
  /\ JoinInit
  /\ kind = "none"
  /\ phase = "select"
  /\ picked = <<>>
  /\ its = <<>>
  /\ aggr = NoSamples
  /\ points = [l \in ToSet(file.by) |-> <<>>]
  /\ locations = <<>>

Select == phase = "select" /\ JoinNext /\ UNCHANGED mergeVars

(* A goroutine that is left waits to send an error that nobody receives.   *)
stuck(c) == col[c].pc = "sendError" /\ ch[c] # <<>>
AtRest == \A c \in Cols : col[c].pc = "done" \/ stuck(c)

(* Sort of the block: by row number.                                       *)
byRow(profiles) == SetToSortSeq(profiles, LAMBDA p, q : p.RowNum < q.RowNum)
rowNums(profiles) == [k \in DOMAIN profiles |-> profiles[k].RowNum]

columnsOf == [stacktraces |-> {"StacktraceID", "Value"}, labels |-> {"Value"}]

(* The samples are read after the client has picked.  What is left of the  *)
(* goroutines of the selection shares nothing with it and is over before.  *)
StartMerge ==
  /\ phase = "select" /\ join.pc = "done" /\ AtRest
  /\ phase' = "merge"
  /\ \E chosen \in SUBSET ToSet(FlattenSeq(select.slices)), k \in DOMAIN columnsOf :
       /\ kind' = k
       /\ picked' = byRow(chosen)
       /\ its' = [c \in columnsOf[k] |-> NewRepeatedPageIterator(rowNums(byRow(chosen)))]
  /\ UNCHANGED <<joinVars, aggr, points, locations>>

(* One step of the iterator of a column.  The Int64 and Uint64 of a null   *)
(* are 0: location 0 in a stacktrace, a 0 of stacktrace 0 in a profile.    *)
Table(c) ==
  IF c = "LocationIDs" THEN Symbols.stacktraces @@ [null |-> 0]
  ELSE file.samples @@ [null |-> [id |-> 0, v |-> 0]]
Turn(c) ==
  /\ its[c].ret = "none"
  /\ its' = [its EXCEPT ![c] = Iterate(Table(c), @)]
  /\ UNCHANGED <<joinVars, kind, phase, picked, aggr, points, locations>>

(* A page that cannot be read: Next is false, and Err has the error.       *)
TurnFails(c) ==
  /\ its[c].ret = "none" /\ ~done(its[c]) /\ its[c].page = NoPage
  /\ errors < MaxErrors
  /\ errors' = errors + 1
  /\ its' = [its EXCEPT ![c].ret = "failed"]
  /\ UNCHANGED <<file, request, col, ch, seekTo, quit, curr, peeks, join, select>>
  /\ UNCHANGED <<kind, phase, picked, aggr, points, locations>>

Returned == \A c \in DOMAIN its : its[c].ret # "none"
HasRow == \A c \in DOMAIN its : its[c].ret = "row"
continued == [c \in DOMAIN its |-> [its[c] EXCEPT !.ret = "none"]]

(* The body of the loop of MergeByStacktraces or MergeByLabels.            *)
zip(ids, vals) == [k \in DOMAIN ids |-> [id |-> ids[k].id, v |-> vals[k].v]]
profileAt(row) == CHOOSE p \in ToSet(picked) : p.RowNum = row

MergeRow ==
  /\ phase = "merge" /\ Returned /\ HasRow
  /\ its' = continued
  /\ IF kind = "stacktraces"
     THEN /\ aggr' = AddPart(aggr, zip(its["StacktraceID"].values, its["Value"].values))
          /\ UNCHANGED points
     ELSE LET p == profileAt(its["Value"].row)
          IN /\ points' = AddPoint(points, file.by[p.series + 1], p.ts, its["Value"].values)
             /\ UNCHANGED aggr
  /\ UNCHANGED <<joinVars, kind, phase, picked, locations>>

(* The loop ends at the end of a column or at an error, which nobody asks  *)
(* for; the stacktraces that were met are resolved in ascending order.     *)
ascending(ids) == SetToSortSeq(ids, LAMBDA a, b : a < b)

MergeEnds ==
  /\ phase = "merge" /\ Returned /\ ~HasRow
  /\ IF kind = "stacktraces"
     THEN /\ phase' = "resolve"
          /\ its' = [c \in {"LocationIDs"} |-> NewRepeatedPageIterator(ascending(DOMAIN aggr))]
          /\ locations' = [id \in DOMAIN aggr |-> <<>>]
          /\ UNCHANGED points
     ELSE /\ phase' = "done"
          /\ points' = SortPoints(points)
          /\ UNCHANGED <<its, locations>>
  /\ UNCHANGED <<joinVars, kind, picked, aggr>>

(* The loop of resolveSymbols over the stacktraces.                        *)
firstPart(locs, values) == IF locs = <<>> THEN values ELSE locs
allParts(locs, values) == locs \o values

ResolveRow ==
  /\ phase = "resolve" /\ Returned /\ HasRow
  /\ its' = continued
  /\ locations' = [locations EXCEPT ![its["LocationIDs"].row] =
                     allParts(@, its["LocationIDs"].values)]
  /\ UNCHANGED <<joinVars, kind, phase, picked, aggr, points>>

ResolveEnds ==
  /\ phase = "resolve" /\ Returned /\ ~HasRow
  /\ phase' = IF its["LocationIDs"].ret = "failed" THEN "failed" ELSE "done"
  /\ UNCHANGED <<joinVars, kind, picked, its, aggr, points, locations>>

Reading == phase \in {"merge", "resolve"}
Merge ==
  \/ StartMerge
  \/ Reading /\ \E c \in DOMAIN its : Turn(c)
  \/ MergeRow \/ MergeEnds \/ ResolveRow \/ ResolveEnds

Next == Select \/ Merge \/ (Reading /\ \E c \in DOMAIN its : TurnFails(c))

Spec == Init /\ [][Next]_vars

(* The scheduler runs every goroutine.                                     *)
Fairness ==
  /\ \A c \in Cols : WF_vars(phase = "select" /\ Goroutine(c) /\ UNCHANGED mergeVars)
  /\ WF_vars(phase = "select" /\ Consumer /\ UNCHANGED mergeVars)
  /\ WF_vars(Merge)

FairSpec == Spec /\ Fairness

-----------------------------------------------------------------------------
(* Buffers are as long as is read at once, row numbers are rows of the     *)
(* file, and currSeriesIndex, which SelectMatchingProfiles increments and  *)
(* never sets, counts the slices from 0.                                   *)
TypeOK ==
  /\ \A c \in Cols :
       /\ col[c].pc \in {"group", "page", "values", "send", "sendError", "done"}
       /\ col[c].rg \in 1..(Len(file.groups) + 1)
       /\ col[c].rn \in -1..(Len(file.rows) - 1)
       /\ \A b \in {col[c].buf, ch[c], curr[c]} : Len(b) <= ReadSize
       /\ seekTo[c] \in -1..(Len(file.rows) - 1)
       /\ peeks[c].row \in -1..(Len(file.rows) - 1)
  /\ join.pc \in {"peek", "seek", "collect", "done"} /\ join.i \in 1..(Len(Columns) + 1)
  /\ quit = (join.pc = "done")
  /\ select.series = Len(select.slices) - 1
  /\ phase \in {"select", "merge", "resolve", "done", "failed"}
  /\ \A c \in DOMAIN its :
       /\ its[c].ret \in {"none", "row", "end", "failed"}
       /\ Len(its[c].buffer) <= repeatedReadSize

NoErrors == errors = 0

Wanted ==
  {[series |-> file.rows[r + 1]["SeriesIndex"], ts |-> file.rows[r + 1]["TimeNanos"], RowNum |-> r] :
     r \in {q \in 0..(Len(file.rows) - 1) :
              \A c \in Cols : KeepValue(c, file.rows[q + 1][c])}}

(* deduplicatingSlice.Flush sorts the rows of each row group by series and *)
(* time, and so those of the file when it has one row group.               *)
SeriesInOrder ==
  \A r \in 1..(Len(file.rows) - 1) :
    file.rows[r]["SeriesIndex"] <= file.rows[r + 1]["SeriesIndex"]

Ascends(s) == \A k \in 1..(Len(s) - 1) : s[k].ts <= s[k + 1].ts
OfOneSeries(s) == \A k \in DOMAIN s : s[k].series = s[1].series


(* What NewSortProfileIterator asks for: "Each input iterator must return  *)
(* Profile in ascending time."  SelectMatchingProfiles breaks it when a    *)
(* series is met again in a later row group: the row after it may have the *)
(* series number that the counter has come to, and joins its slice.        *)
SlicesAscend == NoErrors => \A i \in DOMAIN select.slices : Ascends(select.slices[i])

samplesOf(p) == file.samples.vals[p.RowNum + 1]
pickedSamples == FlattenSeq([k \in DOMAIN picked |-> samplesOf(picked[k])])
valueOf(samples) == MapThenSumSet(LAMBDA k : samples[k].v, DOMAIN samples)

(* Without read errors a merge adds up every sample of the picked profiles *)
(* once, wherever pages and buffers cut their rows: by stacktrace, and by  *)
(* labels and time.  A profile without samples, as computeDelta leaves it  *)
(* when nothing has grown, adds a 0 to stacktrace 0.                       *)
MergeIsExact ==
  phase = "done" /\ NoErrors =>
    IF kind = "stacktraces"
    THEN /\ DOMAIN aggr = {s.id : s \in ToSet(pickedSamples)}
                          \cup {0 : p \in {q \in ToSet(picked) : samplesOf(q) = <<>>}}
         /\ \A id \in DOMAIN aggr :
              aggr[id] = valueOf(SelectSeq(pickedSamples, LAMBDA s : s.id = id))
    ELSE \A l \in DOMAIN points : \A ts \in {p.ts : p \in ToSet(picked)} :
           LET of == SelectSeq(picked, LAMBDA p : file.by[p.series + 1] = l /\ p.ts = ts)
           IN valueOf(SelectSeq(points[l], LAMBDA p : p.ts = ts))
              = valueOf(FlattenSeq([k \in DOMAIN of |-> samplesOf(of[k])]))

Answer == resolveSymbols(Symbols, aggr, locations)
HeadAnswer ==
  HeadMergeByStacktraces(Symbols, Symbols.stacktraces.vals,
                         [k \in DOMAIN picked |-> samplesOf(picked[k])])
HeadPoints ==
  HeadMergeByLabels(DOMAIN points, [s \in 0..(Len(file.by) - 1) |-> file.by[s + 1]],
                    [k \in DOMAIN picked |-> [series |-> picked[k].series, ts |-> picked[k].ts,
                                              samples |-> samplesOf(picked[k])]])
valueAt(series, ts) == valueOf(SelectSeq(series, LAMBDA p : p.ts = ts))
stackOf(id) == Symbols.stacktraces.vals[id + 1]
oneLineEach(id) == \A loc \in ToSet(stackOf(id)) : Len(Symbols.locations[loc + 1]) = 1

(* Profiles give the same answer from the block as they gave from the head *)
(* before the flush.  resolveSymbols finds for every stacktrace the frames *)
(* that Head.MergeByStacktraces finds, if it has locations and these have  *)
(* one line each, and the same value; only values of 0 are not in the      *)
(* head's.  The points of MergeByLabels have the same times and add up to  *)
(* the same values.                                                        *)
HeadAndBlockAgree ==
  phase = "done" /\ NoErrors =>
    IF kind = "stacktraces"
    THEN /\ {id \in DOMAIN Answer : Answer[id].value # 0} = DOMAIN HeadAnswer
         /\ \A id \in DOMAIN HeadAnswer :
              /\ Answer[id].value = HeadAnswer[id].value
              /\ stackOf(id) # <<>> /\ oneLineEach(id) => Answer[id].frames = HeadAnswer[id].frames
    ELSE \A l \in DOMAIN points :
           LET times(series) == {p.ts : p \in ToSet(series)}
           IN /\ times(points[l]) = times(HeadPoints[l])
              /\ \A ts \in times(points[l]) :
                   valueAt(points[l], ts) = valueAt(HeadPoints[l], ts)

(* resolveSymbols gives a stacktrace the frames of its locations, as       *)
(* Head.MergeByStacktraces does.  One that has no locations, or one whose  *)
(* locations have several lines or none, gets others from a block.         *)
SameFrames ==
  phase = "done" /\ NoErrors /\ kind = "stacktraces" =>
    \A id \in DOMAIN HeadAnswer : Answer[id].frames = HeadAnswer[id].frames

(* A query comes to an end, also when reads fail: the join never waits for *)
(* a goroutine that has nothing more to send, and no turn of an iterator   *)
(* leads back to where it was.  The goroutines of a selection end once it  *)
(* is closed, also those that were about to send; but one that holds an    *)
(* error may wait for ever.                                                *)
QueryEnds ==
  /\ <>(phase \in {"done", "failed"})
  /\ quit ~> AtRest
=============================================================================

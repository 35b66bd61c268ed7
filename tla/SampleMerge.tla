---------------------------- MODULE SampleMerge ----------------------------
(***************************************************************************)
(* How the samples of selected profiles become an answer: MergeByStack-    *)
(* traces and MergeByLabels of a block (pkg/phlaredb/sample_merge.go),     *)
(* which get the samples of a profile in parts, and the same of the head   *)
(* (pkg/phlaredb/head.go), which has whole profiles in memory.             *)
(*                                                                         *)
(* A sample is a record [id, v] of a stacktrace and a value.  Symbols are  *)
(* the tables of a block or head: locations, numbered from 0, with the     *)
(* functions of their lines, and the names of functions.  Names are        *)
(* numbered as in the strings table.  An answer maps the merged            *)
(* stacktraces to frames, a sequence of names, and a value.                *)
(***************************************************************************)
EXTENDS Integers, Sequences, FiniteSets, SequencesExt, FiniteSetsExt

NoSamples == [id \in {} |-> 0]

Add(aggr, s) ==
  [id \in DOMAIN aggr \cup {s.id} |->
     (IF id \in DOMAIN aggr THEN aggr[id] ELSE 0) + (IF id = s.id THEN s.v ELSE 0)]

(* The loop of MergeByStacktraces over the samples of a part.              *)
AddPart(aggr, values) == FoldLeft(Add, aggr, values)

-----------------------------------------------------------------------------
(* resolveSymbols of a block, once the locations of the stacktraces are    *)
(* read.  A location gets one name: of its lines the name that comes last  *)
(* in the strings table, and without lines the first name of the answer.   *)

namesOf(symbols, loc) ==
  {symbols.functions[f] : f \in ToSet(symbols.locations[loc + 1])}

nameByLocation(symbols, all, loc) ==
  LET names == UNION {namesOf(symbols, l) : l \in all}
  IN IF namesOf(symbols, loc) # {} THEN Max(namesOf(symbols, loc))
     ELSE IF names # {} THEN Min(names) ELSE 0

resolveSymbols(symbols, aggr, locationsByStacktrace) ==
  LET all == UNION {ToSet(locationsByStacktrace[id]) : id \in DOMAIN aggr}
  IN [id \in DOMAIN aggr |->
        [frames |-> [k \in DOMAIN locationsByStacktrace[id] |->
                       nameByLocation(symbols, all, locationsByStacktrace[id][k])],
         value |-> aggr[id]]]

-----------------------------------------------------------------------------
(* Head.MergeByStacktraces: every line of a location gives a frame, and    *)
(* samples of value 0 are left out.                                        *)

headFrames(symbols, locs) ==
  FlattenSeq([k \in DOMAIN locs |->
    [j \in DOMAIN symbols.locations[locs[k] + 1] |->
       symbols.functions[symbols.locations[locs[k] + 1][j]]]])

HeadMergeByStacktraces(symbols, stacktraces, profiles) ==
  LET samples == SelectSeq(FlattenSeq(profiles), LAMBDA s : s.v # 0)
      aggr == FoldLeft(Add, NoSamples, samples)
  IN [id \in DOMAIN aggr |->
        [frames |-> headFrames(symbols, stacktraces[id + 1]), value |-> aggr[id]]]

-----------------------------------------------------------------------------
(* MergeByLabels: the points of a series of the answer, which is named by  *)
(* the labels that are grouped by; they are sorted by time at the end.     *)
(* A block adds a point for each part of a profile that it reads.          *)

Total(values) == FoldLeft(LAMBDA a, s : a + s.v, 0, values)

AddPoint(points, labels, ts, values) ==
  [points EXCEPT ![labels] = Append(@, [ts |-> ts, v |-> Total(values)])]

SortPoints(points) ==
  [l \in DOMAIN points |-> SortSeq(points[l], LAMBDA p, q : p.ts < q.ts)]

HeadMergeByLabels(groups, labelsOf, profiles) ==
  SortPoints(FoldLeft(LAMBDA a, p : AddPoint(a, labelsOf[p.series], p.ts, p.samples),
                      [l \in groups |-> <<>>], profiles))
=============================================================================

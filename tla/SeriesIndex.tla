----------------------------- MODULE SeriesIndex -----------------------------
(***************************************************************************)
(* The series of a head and of the block it becomes: profilesIndex         *)
(* (pkg/phlaredb/profiles.go) adds the series of a profile to the inverted *)
(* index, WriteTo writes the index file, and the same matchers are asked   *)
(* of both.  A query is answered by the head until the flush and by the    *)
(* block after it, so both have to select the same series.                 *)
(*                                                                         *)
(* WriteTo holds the read lock of the index, which excludes Add.  The      *)
(* context can be cancelled between its steps.  Series are told apart by   *)
(* their fingerprints, as in the code: a collision of the hash is left     *)
(* out.                                                                    *)
(***************************************************************************)
EXTENDS IndexFile

CONSTANTS AllSeries,   \* the label sets that profiles arrive with
          FP,          \* fingerprint of a label set
          Times,       \* the times of the profiles of a label set
          Matchers,    \* the matchers of the queries
          Selectors    \* the sequences of matchers that are asked

ASSUME FPAssumption == /\ FP \in [AllSeries -> Fingerprints]
                       /\ \A s, t \in AllSeries : FP[s] = FP[t] => s = t
ASSUME SelectorsAssumption == \A ms \in Selectors : ms # <<>> /\ ToSet(ms) \subseteq Matchers

VARIABLES profilesPerFP,  \* fingerprint -> labels and times of its profiles
          idx,            \* the shards of the inverted index
          pc,             \* where WriteTo is: "idle", "symbols", "series", "ok", "error"
          todo,           \* the symbols, then the series still to add
          file,           \* the sections written
          cache,          \* Writer.symbolCache
          cancelled       \* the context of WriteTo is done

vars == <<profilesPerFP, idx, pc, todo, file, cache, cancelled>>

noFile == [symbols |-> <<>>, series |-> <<>>, postings |-> <<>>, labelIndices |-> <<>>,
           meta |-> [From |-> 0, Through |-> 0]]

Init ==
  /\ profilesPerFP = <<>>
  /\ idx = EmptyIndex
  /\ pc = "idle"
  /\ todo = <<>>
  /\ file = noFile
  /\ cache = <<>>
  /\ cancelled = FALSE

-----------------------------------------------------------------------------
(* profilesIndex.Add: only a new fingerprint goes to the inverted index.   *)
AddSeriesOf(s) == IF FP[s] \in DOMAIN profilesPerFP THEN idx ELSE indexAdd(idx, s, FP[s])

Add(s, t) ==
  LET fp == FP[s]
      old == IF fp \in DOMAIN profilesPerFP THEN profilesPerFP[fp].times ELSE <<>>
  IN /\ pc = "idle"
     /\ t \notin ToSet(old)
     /\ profilesPerFP' = (fp :> [lbs |-> s, fp |-> fp, times |-> Append(old, t)]) @@ profilesPerFP
     /\ idx' = AddSeriesOf(s)
     /\ UNCHANGED <<pc, todo, file, cache, cancelled>>

(* phlaremodel.CompareLabelPairs: pair by pair, then the shorter first.    *)
RECURSIVE lessLabels(_, _)
lessLabels(a, b) ==
  IF a = <<>> \/ b = <<>> THEN a = <<>> /\ b # <<>>
  ELSE IF Head(a) = Head(b) THEN lessLabels(Tail(a), Tail(b))
  ELSE Head(a)[1] < Head(b)[1] \/ (Head(a)[1] = Head(b)[1] /\ Head(a)[2] < Head(b)[2])

pfs == SortSeq(SetToSeq(Range(profilesPerFP)), LAMBDA p, q : lessLabels(p.lbs, q.lbs))

symbolsMap == UNION {UNION {{l[1], l[2]} : l \in ToSet(p.lbs)} : p \in Range(profilesPerFP)}

(* WriteTo: a new Writer, the series in the order of their labels, and     *)
(* the symbols in theirs.                                                  *)
BeginWrite ==
  /\ pc = "idle" /\ profilesPerFP # <<>>
  /\ pc' = "symbols"
  /\ todo' = Ascending(symbolsMap)
  /\ UNCHANGED <<profilesPerFP, idx, file, cache, cancelled>>

(* AddSymbol; the first one enters the stage of the symbols.               *)
AddSymbol ==
  /\ pc = "symbols" /\ todo # <<>> /\ ~cancelled
  /\ file' = [file EXCEPT !.symbols = Append(@, Head(todo))]
  /\ todo' = Tail(todo)
  /\ UNCHANGED <<profilesPerFP, idx, pc, cache, cancelled>>

(* AddSeries enters the stage of the series, after which the symbols are   *)
(* complete.  The position of a series is its reference and its            *)
(* SeriesIndex, which its profiles are given too.                          *)
minmax(times) == <<Min(ToSet(times)), Max(ToSet(times))>>

entry(S, p, i) ==
  [lbs |-> encoded(S, cache, p.lbs), fp |-> p.fp, SeriesIndex |-> i,
   MinTime |-> minmax(p.times)[1], MaxTime |-> minmax(p.times)[2]]

AddSeries ==
  LET S == NewSymbols(file.symbols)
      p == Head(todo)
      new == entry(S, p, Len(file.series))
  IN /\ pc = "series" /\ todo # <<>> /\ ~cancelled
     /\ file' = [file EXCEPT !.series = Append(@, new),
                             !.meta = EnsureBounds(@, new.MinTime, new.MaxTime)]
     /\ cache' = FoldLeft(LAMBDA c, l : cacheAfter(S, c, l), cache, p.lbs)
     /\ todo' = Tail(todo)
     /\ UNCHANGED <<profilesPerFP, idx, pc, cancelled>>

StartSeries ==
  /\ pc = "symbols" /\ todo = <<>>
  /\ pc' = "series"
  /\ todo' = pfs
  /\ UNCHANGED <<profilesPerFP, idx, file, cache, cancelled>>

(* Writer.Close: the remaining sections and the table of contents.         *)
Close ==
  /\ pc = "series" /\ todo = <<>> /\ ~cancelled
  /\ LET table == writePostings(file, NewSymbols(file.symbols))
     IN file' = [file EXCEPT !.postings = table, !.labelIndices = writeLabelIndices(table)]
  /\ pc' = "ok"
  /\ UNCHANGED <<profilesPerFP, idx, todo, cache, cancelled>>

(* ensureStage and the batches of the postings ask the context first.      *)
WriteFails ==
  /\ cancelled
  /\ pc \in {"symbols", "series"} /\ (pc = "symbols" => todo # <<>>)
  /\ pc' = "error"
  /\ UNCHANGED <<profilesPerFP, idx, todo, file, cache, cancelled>>

Cancel ==
  /\ ~cancelled /\ pc \in {"symbols", "series"}
  /\ cancelled' = TRUE
  /\ UNCHANGED <<profilesPerFP, idx, pc, todo, file, cache>>

-----------------------------------------------------------------------------
(* profilesIndex.forMatchingLabels, and SelectProfiles alike: matchers of  *)
(* the empty string are no use to the index and filter what it finds.      *)
filters(ms) == SelectSeq(ms, LAMBDA m : matchesEmpty(m))
indexed(ms) == SelectSeq(ms, LAMBDA m : ~matchesEmpty(m))

ids(ms) == IF indexed(ms) = <<>> THEN LookupAll(idx)
           ELSE ToSet(Lookup(idx, indexed(ms), NoShard))

HeadSeries(ms) ==
  {fp \in ids(ms) : /\ fp \in DOMAIN profilesPerFP
                    /\ \A i \in DOMAIN filters(ms) :
                         Matches(filters(ms)[i], Get(profilesPerFP[fp].lbs, filters(ms)[i].name))}

-----------------------------------------------------------------------------
Next ==
  \/ \E s \in AllSeries : \E t \in Times[s] : Add(s, t)
  \/ BeginWrite \/ AddSymbol \/ StartSeries \/ AddSeries \/ Close
  \/ WriteFails \/ Cancel

Spec == Init /\ [][Next]_vars

-----------------------------------------------------------------------------
(* What a selector means: the series all of whose matchers match, where a  *)
(* missing label is the empty string.                                      *)
Selected(ms) ==
  {fp \in DOMAIN profilesPerFP :
     \A i \in DOMAIN ms : Matches(ms[i], Get(profilesPerFP[fp].lbs, ms[i].name))}

AllNames == {l[1] : l \in UNION {ToSet(p.lbs) : p \in Range(profilesPerFP)}}
AllValues(n) == {l[2] : l \in {k \in UNION {ToSet(p.lbs) : p \in Range(profilesPerFP)} : k[1] = n}}

Reader == newReader(file)

Shards == {[shard |-> i, of |-> n] : i \in 0..(2 ^ FPBits - 1), n \in 1..(2 ^ FPBits)}
ValidShards == {sh \in Shards : sh.shard < sh.of /\ validateShard(sh)}

(* The series known, the sections of the file and the step of WriteTo are  *)
(* of their types.                                                         *)
TypeOK ==
  /\ DOMAIN profilesPerFP \subseteq Fingerprints
  /\ \A fp \in DOMAIN profilesPerFP : profilesPerFP[fp].lbs \in AllSeries
  /\ DOMAIN idx = 0..(TotalShards - 1)
  /\ pc \in {"idle", "symbols", "series", "ok", "error"}
  /\ DOMAIN file = DOMAIN noFile
  /\ cancelled \in BOOLEAN

(* The head selects exactly the series that a selector means, whichever    *)
(* shards they are in: the intersection of the postings of the matchers    *)
(* that need a label, filtered by the matchers a missing label satisfies.  *)
(* Its label names and values are listed sorted and without doubles,       *)
(* although the lists of its shards are merged.  The index does not change *)
(* once WriteTo has begun.                                                 *)
HeadSelects ==
  pc = "idle" =>
    /\ \A ms \in Selectors : HeadSeries(ms) = Selected(ms)
    /\ LabelNames(idx, NoShard) = Ascending(AllNames)
    /\ \A n \in AllNames : LabelValues(idx, n, NoShard) = Ascending(AllValues(n))

(* What the block should give for a series.                                *)
Written(fp) ==
  LET p == profilesPerFP[fp]
      before == {f \in DOMAIN profilesPerFP : lessLabels(profilesPerFP[f].lbs, p.lbs)}
  IN [lbs |-> p.lbs, fp |-> fp, SeriesIndex |-> Cardinality(before),
      MinTime |-> minmax(p.times)[1], MaxTime |-> minmax(p.times)[2]]

(* The block selects exactly the series that a selector means, each once   *)
(* and in the order of the file, and reads back their labels, fingerprint, *)
(* times and position: the sampled symbols and offsets, the walk of the    *)
(* offset table and the lazy set operations lose and invent nothing.  It   *)
(* lists the label names and values that the head lists.                   *)
BlockSelects ==
  pc = "ok" => \E r \in {Reader} :
    /\ \A ms \in Selectors : \E found \in {BlockSeries(r, ms)} :
         /\ ToSet(found) = {Written(fp) : fp \in Selected(ms)}
         /\ \A i \in 1..(Len(found) - 1) : found[i].SeriesIndex < found[i + 1].SeriesIndex
    /\ ReaderLabelNames(r) = Ascending(AllNames)
    /\ \A n \in AllNames : ReaderLabelValues(r, n) = Ascending(AllValues(n))
    /\ [i \in DOMAIN file.labelIndices |-> file.labelIndices[i].name] = Ascending(AllNames)
    /\ \A i \in DOMAIN file.labelIndices :
         file.labelIndices[i].values = Ascending(AllValues(file.labelIndices[i].name))

(* A query for one shard of any factor gets exactly the series whose       *)
(* fingerprints have the prefix of that shard, in ascending order, and     *)
(* their label names and values, whether the factor is finer or coarser    *)
(* than that of the index.  The last fingerprint of all is the exception:  *)
(* the bounds that cut the list of a finer last shard exclude it.          *)
ShardsPartition ==
  pc = "idle" => \A sh \in ValidShards :
    LET mine == {fp \in DOMAIN profilesPerFP : Prefix(fp, RequiredBits(sh.of)) = sh.shard}
    IN /\ \A m \in {k \in Matchers : ~matchesEmpty(k)} :
            Lookup(idx, <<m>>, sh) = Ascending((Selected(<<m>>) \cap mine)
                                            \ (IF filtered(sh) THEN {MaxFP} ELSE {}))
       /\ ToSet(LabelNames(idx, sh)) = {l[1] : l \in UNION {ToSet(profilesPerFP[fp].lbs) : fp \in mine}}
       /\ \A n \in AllNames :
            ToSet(LabelValues(idx, n, sh)) =
              {Get(profilesPerFP[fp].lbs, n) : fp \in mine} \ {0}
=============================================================================

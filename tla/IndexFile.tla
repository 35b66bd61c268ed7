------------------------------ MODULE IndexFile ------------------------------
(***************************************************************************)
(* The index file of a block (pkg/phlaredb/tsdb/index/index.go): what the  *)
(* Writer puts into it, what the Reader keeps of it in memory, and the     *)
(* matchers of pkg/phlaredb/querier.go resolved against it.                *)
(*                                                                         *)
(* The file is a record of its sections.  An offset into a section is the  *)
(* position of an entry in it: lengths, paddings, checksums and the limits *)
(* of 4 byte lengths are left out, and so is the format version 1, which   *)
(* the Writer does not write.  A series lies at the 16 byte unit that its  *)
(* reference numbers; HeaderUnits stands for what precedes the first one.  *)
(***************************************************************************)
EXTENDS HeadIndex, Postings

CONSTANTS SymbolFactor,          \* symbolFactor (32)
          HeaderUnits            \* units before the first series

ASSUME SymbolFactorAssumption == SymbolFactor \in Nat \ {0}
ASSUME HeaderUnitsAssumption == HeaderUnits \in Nat \ {0}

Search(s, Test(_)) == LET i == SelectInSeq(s, Test) IN IF i = 0 THEN Len(s) + 1 ELSE i

-----------------------------------------------------------------------------
(* Symbols: every SymbolFactor-th symbol's offset is kept.                 *)

NewSymbols(syms) == [syms |-> syms,
                     offsets |-> SelectSeq([i \in DOMAIN syms |-> i],
                                           LAMBDA i : (i - 1) % SymbolFactor = 0)]

unknown == "unknown"

SymbolLookup(S, o) ==
  IF o >= Len(S.syms) THEN unknown
  ELSE S.syms[S.offsets[(o \div SymbolFactor) + 1] + (o % SymbolFactor)]

(* The sampled symbol to walk from is the last one that is not greater.    *)
walkFrom(S, sym) ==
  LET i == Search(S.offsets, LAMBDA off : S.syms[off] > sym)
  IN IF i > 1 THEN i - 1 ELSE i

ReverseLookup(S, sym) ==
  LET start == S.offsets[walkFrom(S, sym)]
      at == SelectInSubSeq(S.syms, start, Len(S.syms), LAMBDA e : e >= sym)
  IN IF S.offsets = <<>> \/ at = 0 \/ S.syms[at] # sym THEN unknown ELSE at - 1

-----------------------------------------------------------------------------
(* Writer.                                                                 *)

Series(f, ref) == f.series[ref - HeaderUnits + 1]
Refs(f) == [i \in DOMAIN f.series |-> HeaderUnits + i - 1]

(* AddSeries looks the names and values up in the symbols, with a cache of *)
(* the last value of each name.                                            *)
cached(cache, l) == l[1] \in DOMAIN cache /\ cache[l[1]].lastValue = l[2]

valueIndex(S, cache, l) ==
  IF cached(cache, l) THEN cache[l[1]].lastValueIndex ELSE ReverseLookup(S, l[2])

cacheAfter(S, cache, l) ==
  (l[1] :> [index |-> ReverseLookup(S, l[1]), lastValue |-> l[2],
            lastValueIndex |-> valueIndex(S, cache, l)]) @@ cache

encoded(S, cache, lbs) ==
  [i \in DOMAIN lbs |-> <<ReverseLookup(S, lbs[i][1]), valueIndex(S, cache, lbs[i])>>]

(* Metadata.EnsureBounds: 0 means that no bound was set yet.               *)
EnsureBounds(meta, from, through) ==
  [From |-> IF meta.From = 0 \/ from < meta.From THEN from ELSE meta.From,
   Through |-> IF meta.Through = 0 \/ through > meta.Through THEN through ELSE meta.Through]

(* writePostingsToTmpFiles: for each name in order, the references of the  *)
(* series of each of its values, read back from the series that were       *)
(* written.  Names are taken in batches that together have no more uses    *)
(* than there are series.                                                  *)
Pairs(f) == UNION {ToSet(f.series[i].lbs) : i \in DOMAIN f.series}
namesOf(f) == Ascending({p[1] : p \in Pairs(f)})
valuesOf(f, n) == Ascending({p[2] : p \in {q \in Pairs(f) : q[1] = n}})

refsWith(f, n, v) ==
  SelectSeq(Refs(f), LAMBDA ref : <<n, v>> \in ToSet(Series(f, ref).lbs))

uses(f, n) ==
  FoldSeq(LAMBDA s, c : c + Len(SelectSeq(s.lbs, LAMBDA l : l[1] = n)), 0, f.series)

RECURSIVE batch(_, _, _)
batch(f, ns, c) ==
  IF ns = <<>> \/ uses(f, Head(ns)) + c > Len(f.series) THEN 0
  ELSE 1 + batch(f, Tail(ns), c + uses(f, Head(ns)))

writePosting(S, n, v, refs) ==
  [name |-> SymbolLookup(S, n), value |-> SymbolLookup(S, v), list |-> refs]

writeName(f, S, n) ==
  LET values == valuesOf(f, n)
  IN [i \in DOMAIN values |-> writePosting(S, n, values[i], refsWith(f, n, values[i]))]

RECURSIVE writeBatches(_, _, _)
writeBatches(f, S, ns) ==
  LET size == batch(f, ns, 0)
  IN IF ns = <<>> THEN <<>>
     ELSE FlattenSeq([i \in 1..size |-> writeName(f, S, ns[i])])
            \o writeBatches(f, S, SubSeq(ns, size + 1, Len(ns)))

writePostings(f, S) ==
  <<[name |-> 0, value |-> 0, list |-> Refs(f)]>> \o writeBatches(f, S, namesOf(f))

(* writeLabelIndices: a list of the values for each run of equal names.    *)
labelIndex(acc, e) ==
  IF acc # <<>> /\ Last(acc).name = e.name
  THEN Front(acc) \o <<[Last(acc) EXCEPT !.values = Append(@, e.value)]>>
  ELSE Append(acc, [name |-> e.name, values |-> <<e.value>>])

writeLabelIndices(table) == FoldLeft(labelIndex, <<>>, Tail(table))

-----------------------------------------------------------------------------
(* Reader.  Of the postings offset table it keeps, for each name, the      *)
(* first value, every SymbolFactor-th one and the last.                    *)

noKey == [name |-> 0, value |-> 0, off |-> 0]

addOffset(map, key) == [map EXCEPT ![key.name] = Append(@, [value |-> key.value, off |-> key.off])]

flushLast(st) == IF st.lastKey = noKey THEN st.map ELSE addOffset(st.map, st.lastKey)

nextName(st, e) ==
  IF e.name \in DOMAIN st.map THEN st
  ELSE [map |-> (e.name :> <<>>) @@ flushLast(st), lastKey |-> noKey, valueCount |-> 0]

readOffset(st, e) ==
  IF st.valueCount % SymbolFactor = 0
  THEN [map |-> addOffset(st.map, e), lastKey |-> noKey, valueCount |-> st.valueCount + 1]
  ELSE [st EXCEPT !.lastKey = e, !.valueCount = @ + 1]

newReader(f) ==
  LET keys == [i \in DOMAIN f.postings |->
                 [name |-> f.postings[i].name, value |-> f.postings[i].value, off |-> i]]
      read == FoldLeft(LAMBDA st, e : readOffset(nextName(st, e), e),
                       [map |-> <<>>, lastKey |-> noKey, valueCount |-> 0], keys)
  IN [f |-> f, symbols |-> NewSymbols(f.symbols), postings |-> flushLast(read)]

ReaderLabelNames(r) == Ascending(DOMAIN r.postings \ {0})

ReaderLabelValues(r, name) ==
  IF name \notin DOMAIN r.postings THEN <<>>
  ELSE LET e == r.postings[name]
           first == e[1].off
           last == SelectInSubSeq(r.f.postings, first, Len(r.f.postings),
                                  LAMBDA p : p.value = Last(e).value)
       IN [i \in 1..(last - first + 1) |-> r.f.postings[first + i - 1].value]

(* Reader.Series, with the symbols resolved.                               *)
ReaderSeries(r, ref) ==
  LET s == Series(r.f, ref)
  IN [s EXCEPT !.lbs = [i \in DOMAIN s.lbs |-> <<SymbolLookup(r.symbols, s.lbs[i][1]),
                                                 SymbolLookup(r.symbols, s.lbs[i][2])>>]]

(* Reader.Postings: walks the table from the last kept entry that is not   *)
(* beyond the value, on to the next kept one, and takes the postings of    *)
(* the values it meets.  values is sorted.                                 *)
RECURSIVE postingsFrom(_, _, _, _), postingsWalk(_, _, _, _, _)

beyond(values, vi, v) ==
  LET k == SelectInSubSeq(values, vi, Len(values), LAMBDA x : x > v)
  IN IF k = 0 THEN Len(values) + 1 ELSE k

met(p, values) ==
  [k \in DOMAIN SelectSeq(values, LAMBDA x : x = p.value) |-> ListPostings(p.list)]

walkedTo(r, e, values, at, vi, next) ==
  met(r.f.postings[at.off], SubSeq(values, vi, next - 1))
    \o (IF at.i = Len(e) \/ next > Len(values) \/ values[next] >= e[at.i + 1].value
        THEN postingsFrom(r, e, values, next)
        ELSE postingsWalk(r, e, values, [at EXCEPT !.off = @ + 1], next))

postingsWalk(r, e, values, at, vi) ==
  walkedTo(r, e, values, at, vi, beyond(values, vi, r.f.postings[at.off].value))

startFound(e, value, i) == i
startAt(e, value, i) == IF i > 1 /\ e[i].value # value THEN i - 1 ELSE i

postingsFrom(r, e, values, vi) ==
  LET i == Search(e, LAMBDA o : o.value >= values[vi])
      from == startAt(e, values[vi], i)
  IN IF vi > Len(values) \/ i > Len(e) THEN <<>>
     ELSE postingsWalk(r, e, values, [i |-> from, off |-> e[from].off], vi)

ReaderPostings(r, name, values) ==
  IF name \notin DOMAIN r.postings \/ values = <<>> THEN EmptyPostings
  ELSE LET e == r.postings[name]
           start == Search(values, LAMBDA v : v >= e[1].value)
       IN Merge(postingsFrom(r, e, values, start))

-----------------------------------------------------------------------------
(* PostingsForMatchers.                                                    *)

inverseOf(m) ==
  [m EXCEPT !.type = CASE m.type = "=" -> "!=" [] m.type = "!=" -> "="
                       [] m.type = "=~" -> "!~" [] m.type = "!~" -> "=~"]

(* FindSetMatches: the nonempty alternatives of a plain alternation.       *)
FindSetMatches(m) == IF m.plain THEN m.set \ {0} ELSE {}

(* The values whose postings postingsForMatcher and                        *)
(* inversePostingsForMatcher ask for.                                      *)
postingsForMatcher(r, m) ==
  CASE m.type = "=" -> <<m.value>>
    [] m.type = "=~" /\ FindSetMatches(m) # {} -> Ascending(FindSetMatches(m))
    [] OTHER -> SelectSeq(ReaderLabelValues(r, m.name), LAMBDA v : Matches(m, v))

inversePostingsForMatcher(r, m) ==
  SelectSeq(ReaderLabelValues(r, m.name), LAMBDA v : ~Matches(m, v))

matcherPostings(r, m, inverse) ==
  ReaderPostings(r, m.name, IF inverse THEN inversePostingsForMatcher(r, m)
                            ELSE postingsForMatcher(r, m))

isNot(m) == m.type \in {"!=", "!~"}
matchesEmpty(m) == Matches(m, 0)
labelMustBeSet(ms, name) == \E i \in DOMAIN ms : ms[i].name = name /\ ~matchesEmpty(ms[i])

(* A matcher of a label that may be missing, or that excludes values of a  *)
(* label that is set, is subtracted; the others are intersected.           *)
subtracted(ms, m) == ~labelMustBeSet(ms, m.name) \/ (isNot(m) /\ matchesEmpty(m))

notPostings(r, ms, m) ==
  matcherPostings(r, IF labelMustBeSet(ms, m.name) THEN inverseOf(m) ELSE m,
                  ~labelMustBeSet(ms, m.name))

itPostings(r, m) == matcherPostings(r, IF isNot(m) THEN inverseOf(m) ELSE m, isNot(m))

AllPostings(r) == ReaderPostings(r, 0, <<0>>)

(* The lists to intersect are all series where there is only a matcher to  *)
(* subtract.                                                               *)
intersected(r, its, nots) ==
  Intersect(IF its = <<>> /\ nots # <<>> THEN <<AllPostings(r)>> ELSE its)

combined(r, its, nots) == FoldLeft(Without, intersected(r, its, nots), nots)

PostingsForMatchers(r, ms) ==
  LET itMs == SelectSeq(ms, LAMBDA m : ~subtracted(ms, m))
      notMs == SelectSeq(ms, LAMBDA m : subtracted(ms, m))
  IN combined(r, [i \in DOMAIN itMs |-> itPostings(r, itMs[i])],
              [i \in DOMAIN notMs |-> notPostings(r, ms, notMs[i])])

seriesAt(r, refs) == [i \in DOMAIN refs |-> ReaderSeries(r, refs[i])]

BlockSeries(r, ms) == seriesAt(r, ExpandPostings(PostingsForMatchers(r, ms)))
=============================================================================

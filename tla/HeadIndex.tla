------------------------------ MODULE HeadIndex ------------------------------
(***************************************************************************)
(* The inverted index of a head: BitPrefixInvertedIndex                    *)
(* (pkg/phlaredb/tsdb/bitprefix.go) over the indexShards of                *)
(* pkg/phlaredb/tsdb/index.go.  A fingerprint belongs to the shard that    *)
(* its first bits number, and a shard maps a label name to its values and  *)
(* a value to the sorted fingerprints of the series that carry it.         *)
(*                                                                         *)
(* A string is a number, ordered like it; 0 is the empty string.  Labels   *)
(* are a sequence of name and value pairs, sorted by name.  A matcher is   *)
(* [name, type, value, set]: "=" and "!=" compare with value, "=~" and     *)
(* "!~" stand for a pattern that matches the strings of set, and plain     *)
(* says whether it is a plain alternation of them.                         *)
(***************************************************************************)
EXTENDS Naturals, Sequences, FiniteSets, SequencesExt, FiniteSetsExt, TLC

CONSTANTS FPBits,       \* the width of a fingerprint (64)
          TotalShards   \* the shards of the index (32), a power of two

ASSUME FPBitsAssumption == FPBits \in Nat \ {0}
ASSUME TotalShardsAssumption == \E b \in 0..FPBits : TotalShards = 2 ^ b

Fingerprints == 0..(2 ^ FPBits - 1)
MaxFP == 2 ^ FPBits - 1
Ascending(S) == SetToSortSeq(S, <)

(* labels.Matcher, of the Prometheus library: type "!=" and "!~" negate.   *)
Matches(m, v) ==
  CASE m.type = "=" -> v = m.value
    [] m.type = "!=" -> v # m.value
    [] m.type = "=~" -> v \in m.set
    [] m.type = "!~" -> v \notin m.set

(* phlaremodel.Labels.Get: the empty string where the label is missing.    *)
Get(lbs, name) ==
  LET i == SelectInSeq(lbs, LAMBDA l : l[1] = name)
  IN IF i = 0 THEN 0 ELSE lbs[i][2]

-----------------------------------------------------------------------------
(* Shards: index.ShardAnnotation.                                          *)

RequiredBits(of) == CHOOSE b \in 0..FPBits : 2 ^ b <= of /\ of < 2 ^ (b + 1)
Prefix(fp, bits) == fp \div 2 ^ (FPBits - bits)
(* With a factor of 1 the shift by all bits is 0, and nothing is below it. *)
ShardMatch(sh, fp) ==
  LET bits == RequiredBits(sh.of)
  IN bits > 0 /\ Prefix(fp, bits) = sh.shard

Bounds(sh) ==
  LET bits == RequiredBits(sh.of)
  IN <<sh.shard * 2 ^ (FPBits - bits),
       IF sh.shard + 1 = sh.of THEN MaxFP ELSE (sh.shard + 1) * 2 ^ (FPBits - bits)>>

(* A requested factor has to be a power of two.                            *)
validateShard(sh) == 2 ^ RequiredBits(sh.of) = sh.of

shardForFP(fp) == Prefix(fp, RequiredBits(TotalShards))

(* The indices of the shards to consult, and whether their fingerprints    *)
(* have to be filtered.  NoShard is a query without an annotation.         *)
NoShard == [shard |-> 0, of |-> 0]

upperAligned(fp) == Prefix(fp, RequiredBits(TotalShards))
                      * 2 ^ (FPBits - RequiredBits(TotalShards)) = fp

withoutNextShard(fp) == Prefix(fp, RequiredBits(TotalShards))
lastIdx(fp) == Prefix(fp, RequiredBits(TotalShards)) + (IF upperAligned(fp) THEN 0 ELSE 1)

getShards(sh) ==
  IF sh = NoShard THEN 0..(TotalShards - 1)
  ELSE LET b == Bounds(sh)
       IN {s \in 0..(TotalShards - 1) :
             Prefix(b[1], RequiredBits(TotalShards)) <= s /\ s < lastIdx(b[2])}

filtered(sh) == sh # NoShard /\ sh.of > TotalShards

-----------------------------------------------------------------------------
(* indexShard.add.                                                         *)

EmptyIndex == [s \in 0..(TotalShards - 1) |-> <<>>]

Entry(shard, name) == IF name \in DOMAIN shard THEN shard[name] ELSE <<>>
FPs(entry, value) == IF value \in DOMAIN entry THEN entry[value] ELSE <<>>

AppendFP(fps, fp) == Append(fps, fp)
InsertFP(fps, fp) ==
  SelectSeq(fps, LAMBDA f : f < fp) \o <<fp>> \o SelectSeq(fps, LAMBDA f : f >= fp)

addPair(shard, l, fp) ==
  LET entry == Entry(shard, l[1])
      fps == InsertFP(FPs(entry, l[2]), fp)
  IN (l[1] :> ((l[2] :> fps) @@ entry)) @@ shard

indexAdd(idx, lbs, fp) ==
  [idx EXCEPT ![shardForFP(fp)] = FoldLeft(LAMBDA shard, l : addPair(shard, l, fp), @, lbs)]

-----------------------------------------------------------------------------
(* indexShard.lookup.  The head passes the pattern without the anchors     *)
(* that FindSetMatches asks for, so that every pattern is tried on the     *)
(* values, also an alternation.  intersect walks both sorted lists.        *)

sortFPs(s) == SortSeq(s, <)

toIntersect(entry, m) ==
  IF m.type = "=" THEN FPs(entry, m.value)
  ELSE LET values == SetToSeq({v \in DOMAIN entry : Matches(m, v)})
       IN sortFPs(FlattenSeq([i \in DOMAIN values |-> entry[values[i]]]))

RECURSIVE intersectFPs(_, _)
intersectFPs(a, b) ==
  IF a = <<>> \/ b = <<>> THEN <<>>
  ELSE IF Head(a) = Head(b) THEN <<Head(a)>> \o intersectFPs(a, Tail(b))
  ELSE IF Head(a) < Head(b) THEN intersectFPs(Tail(a), b)
  ELSE intersectFPs(a, Tail(b))

RECURSIVE lookupFrom(_, _, _)
lookupFrom(shard, ms, result) ==
  LET fps == intersectFPs(result, toIntersect(shard[Head(ms).name], Head(ms)))
  IN IF ms = <<>> THEN result
     ELSE IF Head(ms).name \notin DOMAIN shard \/ fps = <<>> THEN <<>>
     ELSE lookupFrom(shard, Tail(ms), fps)

indexLookup(shard, ms) ==
  IF Head(ms).name \notin DOMAIN shard THEN <<>>
  ELSE lookupFrom(shard, Tail(ms), toIntersect(shard[Head(ms).name], Head(ms)))

allFPs(shard) ==
  UNION {UNION {ToSet(shard[n][v]) : v \in DOMAIN shard[n]} : n \in DOMAIN shard}

(* BitPrefixInvertedIndex.Lookup with matchers: the shards in order, cut   *)
(* to the bounds of the requested shard where they hold more.              *)
Lookup(idx, ms, sh) ==
  LET found == FlattenSeq([i \in 1..Cardinality(getShards(sh)) |->
                             indexLookup(idx[Ascending(getShards(sh))[i]], ms)])
  IN SelectSeq(found, LAMBDA fp : filtered(sh) =>
                        fp >= Bounds(sh)[1] /\ fp < Bounds(sh)[2])

(* Without matchers every fingerprint of the shards is returned, in the    *)
(* order of a map: only the query without an annotation, which does not    *)
(* cut the list, is modelled.                                              *)
LookupAll(idx) == UNION {allFPs(idx[s]) : s \in getShards(NoShard)}

-----------------------------------------------------------------------------
(* LabelNames and LabelValues: the names or values of each shard, the ones *)
(* with a fingerprint of the requested shard when the list is filtered,    *)
(* merged.  mergeStringSlices merges sorted lists without their doubles.   *)
(* The filtered values of a shard are not sorted by the code; they are the *)
(* only list then, since a finer shard lies within one shard of the index. *)

inShard(fps, sh) == filtered(sh) => \E i \in DOMAIN fps : ShardMatch(sh, fps[i])

shardLabelNames(shard, sh) ==
  {n \in DOMAIN shard : \E v \in DOMAIN shard[n] : inShard(shard[n][v], sh)}

shardLabelValues(shard, name, sh) ==
  {v \in DOMAIN Entry(shard, name) : inShard(shard[name][v], sh)}

RECURSIVE mergeTwoStringSlices(_, _)
mergeTwoStringSlices(a, b) ==
  IF a = <<>> \/ b = <<>> THEN a \o b
  ELSE IF Head(a) < Head(b) THEN <<Head(a)>> \o mergeTwoStringSlices(Tail(a), b)
  ELSE IF Head(a) > Head(b) THEN <<Head(b)>> \o mergeTwoStringSlices(a, Tail(b))
  ELSE <<Head(a)>> \o mergeTwoStringSlices(Tail(a), Tail(b))

RECURSIVE mergeStringSlices(_)
mergeStringSlices(ss) ==
  LET half == Len(ss) \div 2
  IN CASE ss = <<>> -> <<>>
       [] Len(ss) = 1 -> ss[1]
       [] OTHER -> mergeTwoStringSlices(mergeStringSlices(SubSeq(ss, 1, half)),
                                        mergeStringSlices(SubSeq(ss, half + 1, Len(ss))))

ofShards(sh, sets) ==
  LET shards == Ascending(getShards(sh))
  IN mergeStringSlices([i \in DOMAIN shards |-> Ascending(sets[shards[i]])])

LabelNames(idx, sh) == ofShards(sh, [s \in getShards(sh) |-> shardLabelNames(idx[s], sh)])
LabelValues(idx, name, sh) ==
  ofShards(sh, [s \in getShards(sh) |-> shardLabelValues(idx[s], name, sh)])
=============================================================================

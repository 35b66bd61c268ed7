------------------------------- MODULE Pprof --------------------------------
(***************************************************************************)
(* What the distributor does to a decoded profile (pkg/pprof/pprof.go):    *)
(* Normalize gives locations without a mapping a mapping, adds up samples  *)
(* of the same stacktrace, drops those that are zero and what only they    *)
(* referred to.  A profile is a message of ProfileWire; p.spare holds what *)
(* RemoveInPlace leaves in the capacity of a slice.                        *)
(***************************************************************************)
EXTENDS Protobuf, ProfileWire

CONSTANTS Hash(_),   \* xxhash of the location ids of a sample
          Now,       \* currentTime().UnixNano()
          bytesName  \* the string "bytes"

\* RemoveInPlace of a slice: what is kept moves to the front, and behind it
\* the array is as it was.
RemoveInPlace(p, name, removed) ==
    LET front == SelectSeq(p[name], LAMBDA e : e \notin removed)
    IN [p EXCEPT ![name] = front,
                 !.spare[name] = SubSeq(p[name], Len(front) + 1, Len(p[name])) \o @]

ids(s) == {s[k].Id : k \in DOMAIN s}

ensureHasMapping(p) ==
    LET fake == [Zero(MappingUnmarshalVT) EXCEPT !.Id = Max(ids(p.Mapping) \cup {0}) + 1,
                                                 !.MemoryLimit = 2^WordBits - 1]
        needed == \E k \in DOMAIN p.Location : p.Location[k].MappingId = 0
    IN IF ~needed THEN p
       ELSE [p EXCEPT !.Mapping = Append(@, fake),
                      !.Location = [k \in DOMAIN @ |->
                          IF @[k].MappingId = 0 THEN [@[k] EXCEPT !.MappingId = fake.Id] ELSE @[k]]]

\* sort.Sort is not stable: any order in which the hashes ascend.
sortedSamples(ss) ==
    {t \in {[k \in DOMAIN ss |-> ss[perm[k]]] : perm \in Permutations(DOMAIN ss)} :
        \A k \in 1..(Len(ss) - 1) : Hash(t[k].LocationId) <= Hash(t[k + 1].LocationId)}

\* The value of a sample with those of its stacktrace in front of it.
summed(ss, k) ==
    [j \in DOMAIN ss[k].Value |->
        Int64(MapThenSumSet(LAMBDA i : ss[i].Value[j],
                            {i \in 1..k : Hash(ss[i].LocationId) = Hash(ss[k].LocationId)}))]

\* A sample is removed when the next one has its hash, or when it is zero.
lastOfRun(ss, k) == k = Len(ss) \/ Hash(ss[k].LocationId) # Hash(ss[k + 1].LocationId)
keepSample(ss, k) == lastOfRun(ss, k) /\ \E j \in DOMAIN ss[k].Value : summed(ss, k)[j] # 0

redundant(p, l) == l.Num # 0 /\ l.Key # 0 /\ p.StringTable[l.Key + 1] = bytesName

\* The samples of the profile for one order of its samples, and the samples
\* removed.  The labels are cleared of what is redundant on samples that stay.
withSamples(p, ss) ==
    LET after == [k \in DOMAIN ss |->
            LET s == [ss[k] EXCEPT !.Value = summed(ss, k)]
            IN IF keepSample(ss, k) THEN RemoveInPlace(s, "Label", {l \in Range(s.Label) : redundant(p, l)})
               ELSE s]
        kept == {k \in DOMAIN ss : keepSample(ss, k)}
        front == [k \in 1..Cardinality(kept) |->
                     after[CHOOSE i \in kept : Cardinality({j \in kept : j <= i}) = k]]
    IN [p |-> [p EXCEPT !.Sample = front,
                        !.spare["Sample"] = SubSeq(after, Len(front) + 1, Len(after)) \o @],
        removed |-> {ss[k] : k \in DOMAIN ss \ kept}]

locationsOf(samples) == UNION {Range(s.LocationId) : s \in samples}
functionsOf(locations) == UNION {{l.Line[k].FunctionId : k \in DOMAIN l.Line} : l \in locations}
namesOf(functions) == UNION {{f.Name, f.SystemName, f.Filename} : f \in functions}

\* visitAllNameReferences to read them.  The third one of a label is Num.
visitAllNameReferences(p) ==
    {p.DropFrames, p.KeepFrames, p.PeriodType[1].Type, p.PeriodType[1].Unit}
    \cup UNION {{t.Type, t.Unit} : t \in Range(p.SampleType)}
    \cup UNION {{m.Filename, m.BuildId} : m \in Range(p.Mapping)}
    \cup UNION {{l.Key, l.Num, l.NumUnit} : l \in UNION {Range(s.Label) : s \in Range(p.Sample)}}
    \cup namesOf(Range(p.Function))
    \cup Range(p.Comment)

\* Every index is lowered by the removed names in front of it.
shifted(removed, idx) == idx - Cardinality({r \in removed : r < idx})

\* visitAllNameReferences to change them.
withNames(p, removed) ==
    LET f(idx) == shifted(removed, idx)
        type(t) == [t EXCEPT !.Type = f(@), !.Unit = f(@)]
        all(s, g(_)) == [k \in DOMAIN s |-> g(s[k])]
        label(l) == [l EXCEPT !.Key = f(@), !.Num = f(@), !.NumUnit = f(@)]
    IN [p EXCEPT !.DropFrames = f(@), !.KeepFrames = f(@),
                 !.PeriodType = all(@, type), !.SampleType = all(@, type),
                 !.Mapping = all(@, LAMBDA m : [m EXCEPT !.Filename = f(@), !.BuildId = f(@)]),
                 !.Sample = all(@, LAMBDA s : [s EXCEPT !.Label = all(@, label)]),
                 !.Function = all(@, LAMBDA x : [x EXCEPT !.Name = f(@), !.SystemName = f(@),
                                                          !.Filename = f(@)]),
                 !.Comment = all(@, f)]

withoutNames(p, removed) ==
    LET table == [k \in DOMAIN p.StringTable |-> <<k - 1, p.StringTable[k]>>]
        rest == SelectSeq(table, LAMBDA e : e[1] \notin removed)
    IN withNames([p EXCEPT !.StringTable = [k \in DOMAIN rest |-> rest[k][2]]], removed)

\* clearSampleReferences.  It panics, with the result <<>>, where a profile
\* without a period type loses a name.
clearSampleReferences(p, samples) ==
    LET locationIds == locationsOf(samples) \ locationsOf(Range(p.Sample))
        locations == {l \in Range(p.Location) : l.Id \in locationIds}
        p1 == RemoveInPlace(p, "Location", locations)
        functionIds == functionsOf(locations) \ functionsOf(Range(p1.Location))
        functions == {f \in Range(p1.Function) : f.Id \in functionIds}
        p2 == RemoveInPlace(p1, "Function", functions)
        names == namesOf(functions) \ visitAllNameReferences(p2)
    IN IF locationIds = {} THEN <<p>>
       ELSE IF functionIds = {} THEN <<p1>>
       ELSE IF functions = {} THEN <<p2>>
       ELSE IF p2.PeriodType = nilMessage THEN <<>>
       ELSE IF names = {} THEN <<p2>>
       ELSE <<withoutNames(p2, names)>>

\* The profiles Normalize can make of p, each in a sequence of its own; <<>>
\* when it panics.
Normalize(p) ==
    LET p0 == ensureHasMapping([p EXCEPT !.TimeNanos = IF @ = 0 THEN Now ELSE @])
        results == {withSamples(p0, ss) : ss \in sortedSamples(p0.Sample)}
    IN {clearSampleReferences(r.p, r.removed) : r \in results}
=============================================================================

----------------------------- MODULE HeadProofs -----------------------------
(***************************************************************************)
(* Proofs about Head: for any calls and profiles, what is indexed resolves *)
(* to what was sent, only the first profile of a cumulative series is      *)
(* dropped, and a block holds what was ingested before its flush began.    *)
(*                                                                         *)
(* All rests on one fact: the row that a call's rewriting map gives an     *)
(* element holds its key, in the head from the step that interned it on    *)
(* and in the files of a flush that began after the call had returned.     *)
(***************************************************************************)
EXTENDS Head, TLAPS, FiniteSetTheorems

-----------------------------------------------------------------------------
(* Induction over a range of numbers, from the well-foundedness of Nat.    *)
LEMMA RangeInduction ==
    ASSUME NEW m \in Nat, NEW T, 0 \in T, \A n \in 0..m : n \in T /\ n < m => n + 1 \in T
    PROVE  \A n \in 0..m : n \in T
<1> DEFINE R == OpToRel(<, Nat)
           U == {n \in 0..m : n \notin T}
<1>1. IsWellFoundedOn(R, Nat)
  BY NatLessThanWellFounded, Zenon
<1>2. \A x \in Nat, y \in Nat : y < x => <<y, x>> \in R
  BY DEF OpToRel
<1> HIDE DEF R
<1> SUFFICES ASSUME U # {} PROVE FALSE
  OBVIOUS
<1>3. PICK x \in U : \A y \in U : <<y, x>> \notin R
  <2>1. U \subseteq Nat
    OBVIOUS
  <2> HIDE DEF U
  <2> QED
    BY Zenon, <1>1, <2>1, WFMin
<1>4. x \in Nat /\ x # 0 /\ x - 1 \in 0..m /\ x - 1 \in Nat /\ x - 1 < x
  OBVIOUS
<1>5. x - 1 \notin U
  BY Zenon, <1>2, <1>3, <1>4
<1> QED
  BY <1>4, <1>5

-----------------------------------------------------------------------------
(* The tables *)

(* The five tables in the order in which a call ingests them.              *)
LEMMA Names ==
    /\ DOMAIN TableNames = 1..5 /\ Len(TableNames) = 5
    /\ TableNames[1] = "strings" /\ TableNames[2] = "mappings" /\ TableNames[3] = "functions"
    /\ TableNames[4] = "locations" /\ TableNames[5] = "stacktraces"
    /\ Tables = {"strings", "mappings", "functions", "locations", "stacktraces"}
<1>1. /\ DOMAIN TableNames = 1..5 /\ Len(TableNames) = 5
      /\ TableNames[1] = "strings" /\ TableNames[2] = "mappings" /\ TableNames[3] = "functions"
      /\ TableNames[4] = "locations" /\ TableNames[5] = "stacktraces"
  BY DEF TableNames
<1>2. Tables = {TableNames[1], TableNames[2], TableNames[3], TableNames[4], TableNames[5]}
  <2>1. 1..5 = {1, 2, 3, 4, 5}
    OBVIOUS
  <2> QED
    BY <1>1, <2>1, Zenon DEF Tables, Range
<1> QED
  BY <1>1, <1>2

(* The tables that come before another.                                    *)
LEMMA EarlierTables ==
    /\ Earlier(1) = {} /\ Earlier(2) = {"strings"} /\ Earlier(3) = {"strings", "mappings"}
    /\ Earlier(4) = {"strings", "mappings", "functions"}
    /\ Earlier(5) = {"strings", "mappings", "functions", "locations"}
<1>1. /\ 1..(1 - 1) = {} /\ 1..(2 - 1) = {1} /\ 1..(3 - 1) = {1, 2}
      /\ 1..(4 - 1) = {1, 2, 3} /\ 1..(5 - 1) = {1, 2, 3, 4}
  OBVIOUS
<1> HIDE DEF TableNames
<1>2. Earlier(1) = {}
  BY <1>1, Zenon DEF Earlier
<1>3. Earlier(2) = {TableNames[1]}
  BY <1>1, Zenon DEF Earlier
<1>4. Earlier(3) = {TableNames[1], TableNames[2]}
  BY <1>1, Zenon DEF Earlier
<1>5. Earlier(4) = {TableNames[1], TableNames[2], TableNames[3]}
  BY <1>1, Zenon DEF Earlier
<1>6. Earlier(5) = {TableNames[1], TableNames[2], TableNames[3], TableNames[4]}
  BY <1>1, Zenon DEF Earlier
<1> QED
  BY <1>2, <1>3, <1>4, <1>5, <1>6, Names, Zenon

(* Each table is new to the ones before it, and the last one completes     *)
(* them.                                                                   *)
LEMMA NextTable ==
    ASSUME NEW n \in DOMAIN TableNames
    PROVE  /\ n \in 1..5 /\ TableNames[n] \in Tables /\ TableNames[n] \notin Earlier(n)
           /\ Earlier(n) \subseteq Tables
           /\ n < Len(TableNames) => n + 1 \in DOMAIN TableNames
                                     /\ Earlier(n + 1) = Earlier(n) \cup {TableNames[n]}
           /\ ~(n < Len(TableNames)) => Tables = Earlier(n) \cup {TableNames[n]}
<1>0. n \in 1..5
  BY Names
<1>1. CASE n = 1
  BY <1>1, Names, EarlierTables
<1>2. CASE n = 2
  BY <1>2, Names, EarlierTables
<1>3. CASE n = 3
  BY <1>3, Names, EarlierTables
<1>4. CASE n = 4
  BY <1>4, Names, EarlierTables
<1>5. CASE n = 5
  BY <1>5, Names, EarlierTables
<1> QED
  BY <1>0, <1>1, <1>2, <1>3, <1>4, <1>5

(* A name is that of one table, and no name of another stage.              *)
LEMMA NamesDiffer ==
    /\ \A m, n \in DOMAIN TableNames : AtTable(m) = AtTable(n) => m = n
    /\ \A m, n \in DOMAIN TableNames : TableNames[m] = TableNames[n] => m = n
    /\ \A n \in DOMAIN TableNames : AtTable(n) \notin AfterTables
    /\ \A n \in DOMAIN TableNames : TableNames[n] \notin {"idle", "removed", "index", "profiles",
                                                        "meta", "rename", "failed", "done"}
<1>1. \A n \in 1..5 : n = 1 \/ n = 2 \/ n = 3 \/ n = 4 \/ n = 5
  OBVIOUS
<1> QED
  BY <1>1, Names DEF AtTable, InLoop, AfterTables

-----------------------------------------------------------------------------
(* Sequences and interning *)

(* What a sequence holds.                                                  *)
LEMMA SeqFacts ==
    ASSUME NEW s, IsSeq(s)
    PROVE  /\ Len(s) \in Nat /\ DOMAIN s = 1..Len(s)
           /\ \A x : x \in Range(s) <=> \E i \in DOMAIN s : s[i] = x
<1>1. s \in Seq(Range(s))
  BY DEF IsSeq
<1>2. Len(s) \in Nat /\ DOMAIN s = 1..Len(s)
  BY ONLY <1>1
<1> QED
  BY <1>2, Zenon DEF Range

(* What a sequence holds after an element was appended.                    *)
LEMMA AppendFacts ==
    ASSUME NEW s, IsSeq(s), NEW x
    PROVE  /\ IsSeq(Append(s, x)) /\ Len(Append(s, x)) = Len(s) + 1
           /\ Range(Append(s, x)) = Range(s) \cup {x}
           /\ \A i \in DOMAIN s : i \in DOMAIN Append(s, x) /\ Append(s, x)[i] = s[i]
<1> DEFINE S == Range(s) \cup {x}
           a == Append(s, x)
<1>1. s \in Seq(S) /\ x \in S
  <2>1. s \in Seq(Range(s))
    BY DEF IsSeq
  <2>2. s \in [1..Len(s) -> Range(s)] /\ Len(s) \in Nat
    BY ONLY <2>1
  <2>3. s \in [1..Len(s) -> S]
    BY <2>2, Zenon
  <2> QED
    BY <2>2, <2>3, SMT
<1> HIDE DEF S
<1>2. /\ a \in Seq(S) /\ Len(a) = Len(s) + 1 /\ Len(s) \in Nat
      /\ \A i \in 1..Len(s) : a[i] = s[i]
      /\ a[Len(s) + 1] = x
  BY ONLY <1>1
<1>3. DOMAIN a = 1..(Len(s) + 1) /\ DOMAIN s = 1..Len(s)
  BY ONLY <1>1, <1>2
<1> HIDE DEF a
<1>4. \A i \in DOMAIN s : i \in DOMAIN a /\ a[i] = s[i]
  BY <1>2, <1>3
<1>5. DOMAIN a = DOMAIN s \cup {Len(s) + 1}
  BY <1>2, <1>3
<1>6. Range(a) = Range(s) \cup {x}
  <2>1. \A y : y \in Range(a) <=> \E i \in DOMAIN a : y = a[i]
    BY Zenon DEF Range
  <2>2. \A y : y \in Range(s) <=> \E i \in DOMAIN s : y = s[i]
    BY Zenon DEF Range
  <2>3. \A y : (\E i \in DOMAIN a : y = a[i]) <=> (\E i \in DOMAIN s : y = a[i]) \/ y = x
    BY ONLY <1>2, <1>5, Zenon
  <2> QED
    BY ONLY <1>4, <2>1, <2>2, <2>3
<1>7. IsSeq(a)
  BY <1>2, <1>6 DEF S, IsSeq
<1> QED
  BY <1>2, <1>4, <1>6, <1>7 DEF a

(* The rows r start with rows.                                             *)
Grows(rows, r) == \A i \in DOMAIN rows : i \in DOMAIN r /\ r[i] = rows[i]

(* What the rows are after n of the keys ks were interned.                 *)
InternedUpTo(rows, ks, n, r) ==
    /\ IsSeq(r) /\ Grows(rows, r)
    /\ \A i \in 1..n : ks[i] \in Range(r)

(* One key is interned.                                                    *)
InternOne(r, k) == IF k \in Range(r) THEN r ELSE Append(r, k)

(* One interned key keeps the rows and has a row.                          *)
LEMMA OneMore ==
    ASSUME NEW rows, NEW ks, NEW n \in Nat, NEW r, InternedUpTo(rows, ks, n, r)
    PROVE  InternedUpTo(rows, ks, n + 1, InternOne(r, ks[n + 1]))
<1> DEFINE k == ks[n + 1]
<1>1. \A i \in 1..(n + 1) : i \in 1..n \/ i = n + 1
  OBVIOUS
<1>2. IsSeq(r) /\ Grows(rows, r) /\ \A i \in 1..n : ks[i] \in Range(r)
  BY DEF InternedUpTo
<1>3. CASE k \in Range(r)
  BY <1>1, <1>2, <1>3, Zenon DEF InternedUpTo, InternOne
<1>4. CASE k \notin Range(r)
  <2>1. /\ IsSeq(Append(r, k)) /\ Range(Append(r, k)) = Range(r) \cup {k}
        /\ \A i \in DOMAIN r : i \in DOMAIN Append(r, k) /\ Append(r, k)[i] = r[i]
    BY ONLY <1>2, AppendFacts
  <2>2. Grows(rows, Append(r, k))
    BY <1>2, <2>1, Zenon DEF Grows
  <2> QED
    BY <1>1, <1>2, <1>4, <2>1, <2>2, Zenon DEF InternedUpTo, InternOne
<1> QED
  BY <1>3, <1>4

(* Interning keeps the rows there were and leaves a row for every key.     *)
LEMMA InternedDoes ==
    ASSUME NEW rows, IsSeq(rows), NEW ks, IsSeq(ks)
    PROVE  InternedUpTo(rows, ks, Len(ks), Interned(rows, ks))
<1> DEFINE upTo == CHOOSE g : g = [n \in 0..Len(ks) |->
                       IF n = 0 THEN rows
                       ELSE IF ks[n] \in Range(g[n - 1]) THEN g[n - 1]
                       ELSE Append(g[n - 1], ks[n])]
           T == {n \in 0..Len(ks) : InternedUpTo(rows, ks, n, upTo[n])}
           Turn(r, n) == InternOne(r, ks[n])
<1>1. Len(ks) \in Nat
  BY SeqFacts
<1>2. Interned(rows, ks) = upTo[Len(ks)]
  BY DEF Interned
<1>3. upTo = [n \in 0..Len(ks) |-> IF n = 0 THEN rows ELSE Turn(upTo[n - 1], n)]
  <2> HIDE DEF Turn
  <2>1. \E g : g = [n \in 0..Len(ks) |-> IF n = 0 THEN rows ELSE Turn(g[n - 1], n)]
    <3> DEFINE Pre(m, g) == g = [n \in 0..m |-> IF n = 0 THEN rows ELSE Turn(g[n - 1], n)]
               P == {m \in Nat : \E g : Pre(m, g)}
    <3>1. 0 \in P
      <4> DEFINE g == [n \in 0..0 |-> rows]
      <4>1. g = [n \in 0..0 |-> IF n = 0 THEN rows ELSE Turn(g[n - 1], n)]
        OBVIOUS
      <4> QED
        BY Zenon, <4>1
    <3>2. ASSUME NEW m \in Nat, NEW g, Pre(m, g)
          PROVE  \E f : Pre(m + 1, f)
      <4> DEFINE f == [n \in 0..(m + 1) |-> IF n = m + 1 THEN Turn(g[m], m + 1) ELSE g[n]]
      <4>1. \A n \in 0..m : f[n] = g[n]
        OBVIOUS
      <4>2. f[m + 1] = Turn(g[m], m + 1)
        OBVIOUS
      <4>3. \A n \in 0..m : g[n] = IF n = 0 THEN rows ELSE Turn(g[n - 1], n)
        BY <3>2
      <4>4. \A n \in 0..(m + 1) : f[n] = IF n = 0 THEN rows ELSE Turn(f[n - 1], n)
        <5> TAKE n \in 0..(m + 1)
        <5>1. CASE n = m + 1
          <6>1. n # 0 /\ n - 1 = m /\ m \in 0..m
            BY <5>1
          <6> HIDE DEF f
          <6> QED
            BY <5>1, <6>1, <4>1, <4>2
        <5>2. CASE n # m + 1
          <6>1. n \in 0..m /\ (n # 0 => n - 1 \in 0..m)
            BY <5>2
          <6> HIDE DEF f
          <6> QED
            BY <6>1, <4>1, <4>3
        <5> QED
          BY <5>1, <5>2
      <4>5. f = [n \in 0..(m + 1) |-> f[n]]
        OBVIOUS
      <4> HIDE DEF f
      <4>6. Pre(m + 1, f)
        BY <4>4, <4>5, Zenon
      <4> QED
        BY <4>6
    <3>3. \A n \in 0..Len(ks) : n \in P /\ n < Len(ks) => n + 1 \in P
      <4> SUFFICES ASSUME NEW n \in 0..Len(ks), n \in P PROVE n + 1 \in P
        BY Zenon
      <4>1. n \in Nat /\ n + 1 \in Nat
        BY <1>1
      <4>2. PICK g : Pre(n, g)
        OBVIOUS
      <4>3. \E f : Pre(n + 1, f)
        BY Zenon, <3>2, <4>1, <4>2
      <4> QED
        BY Zenon, <4>1, <4>3
    <3>4. Len(ks) \in P
      <4>1. Len(ks) \in 0..Len(ks)
        BY <1>1
      <4> HIDE DEF P
      <4> QED
        BY Zenon, <1>1, <3>1, <3>3, <4>1, RangeInduction
    <3> QED
      BY <3>4
  <2> QED
    BY <2>1, Zenon DEF Turn, InternOne
<1> HIDE DEF upTo
<1>4. /\ upTo[0] = rows
      /\ \A n \in 0..Len(ks) : n < Len(ks) => upTo[n + 1] = InternOne(upTo[n], ks[n + 1])
  <2>1. \A n \in 0..Len(ks) : n < Len(ks) => n + 1 \in 0..Len(ks) /\ n + 1 # 0 /\ (n + 1) - 1 = n
    BY <1>1
  <2>2. 0 \in 0..Len(ks)
    BY <1>1
  <2> HIDE DEF Turn
  <2>3. \A n \in 0..Len(ks) : upTo[n] = IF n = 0 THEN rows ELSE Turn(upTo[n - 1], n)
    BY <1>3
  <2>4. \A n \in 0..Len(ks) : n < Len(ks) => upTo[n + 1] = Turn(upTo[n], n + 1)
    BY ONLY <2>1, <2>3
  <2> QED
    BY <2>2, <2>3, <2>4 DEF Turn
<1>5. 0 \in T
  <2>1. 1..0 = {} /\ 0 \in 0..Len(ks)
    BY <1>1
  <2> QED
    BY <1>4, <2>1, Zenon DEF InternedUpTo, Grows
<1>6. \A n \in 0..Len(ks) : n \in T /\ n < Len(ks) => n + 1 \in T
  <2> SUFFICES ASSUME NEW n \in 0..Len(ks), n \in T, n < Len(ks) PROVE n + 1 \in T
    OBVIOUS
  <2>1. n \in Nat /\ n + 1 \in 0..Len(ks)
    BY <1>1
  <2>2. InternedUpTo(rows, ks, n, upTo[n])
    OBVIOUS
  <2>3. InternedUpTo(rows, ks, n + 1, InternOne(upTo[n], ks[n + 1]))
    BY ONLY <2>1, <2>2, OneMore
  <2> QED
    BY <1>4, <2>1, <2>3
<1>7. Len(ks) \in T
  <2>1. Len(ks) \in 0..Len(ks)
    BY <1>1
  <2> HIDE DEF T
  <2> QED
    BY Zenon, <1>1, <1>5, <1>6, <2>1, RangeInduction
<1> QED
  BY <1>2, <1>7

-----------------------------------------------------------------------------
(* Following references *)

(* The elements pl of a profile p are the elements el of some rows, where  *)
(* the rewriting maps rw say.                                              *)
Corresponds(el, pl, rw, p) ==
    \A t \in Tables : \A id \in Ids(p, t) :
        /\ id \in Nat /\ rw[t][id] \in Nat
        /\ el[<<t, rw[t][id]>>].val = pl[<<t, id>>].val
        /\ DOMAIN el[<<t, rw[t][id]>>].refs = DOMAIN pl[<<t, id>>].refs
        /\ \A j \in DOMAIN pl[<<t, id>>].refs :
              LET r == pl[<<t, id>>].refs[j]
                  q == el[<<t, rw[t][id]>>].refs[j]
              IN  r.to \in Tables /\ r.id \in Ids(p, r.to) /\ q.to = r.to /\ q.id = rw[r.to][r.id]

(* Two resolutions of the references agree on the elements of p.           *)
SameTrees(T, U, rw, p) ==
    \A t \in Tables : \A id \in Ids(p, t) : T[<<t, rw[t][id]>>] = U[<<t, id>>]

(* They still do one step further.                                         *)
LEMMA ResolveOnce ==
    ASSUME NEW el, NEW pl, NEW rw, NEW p, Corresponds(el, pl, rw, p),
           NEW T, NEW U, SameTrees(T, U, rw, p)
    PROVE  SameTrees(Resolved(el, T), Resolved(pl, U), rw, p)
<1> SUFFICES ASSUME NEW t \in Tables, NEW id \in Ids(p, t)
             PROVE  Resolved(el, T)[<<t, rw[t][id]>>] = Resolved(pl, U)[<<t, id>>]
  BY Zenon DEF SameTrees
<1> DEFINE a == <<t, rw[t][id]>>
           b == <<t, id>>
           ra == [j \in DOMAIN el[a].refs |-> T[<<el[a].refs[j].to, el[a].refs[j].id>>]]
           rb == [j \in DOMAIN pl[b].refs |-> U[<<pl[b].refs[j].to, pl[b].refs[j].id>>]]
<1>1. a \in Tables \X Nat /\ b \in Tables \X Nat
  BY Zenon DEF Corresponds
<1>2. /\ el[a].val = pl[b].val /\ DOMAIN el[a].refs = DOMAIN pl[b].refs
      /\ \A j \in DOMAIN pl[b].refs :
            /\ pl[b].refs[j].to \in Tables /\ pl[b].refs[j].id \in Ids(p, pl[b].refs[j].to)
            /\ el[a].refs[j].to = pl[b].refs[j].to
            /\ el[a].refs[j].id = rw[pl[b].refs[j].to][pl[b].refs[j].id]
  BY Zenon DEF Corresponds
<1>3. Resolved(el, T)[a] = [val |-> el[a].val, refs |-> ra]
  BY <1>1, Zenon DEF Resolved
<1>4. Resolved(pl, U)[b] = [val |-> pl[b].val, refs |-> rb]
  BY <1>1, Zenon DEF Resolved
<1>5. \A j \in DOMAIN pl[b].refs :
         T[<<el[a].refs[j].to, el[a].refs[j].id>>] = U[<<pl[b].refs[j].to, pl[b].refs[j].id>>]
  BY <1>2, Zenon DEF SameTrees
<1> HIDE DEF a, b
<1>6. ra = rb
  BY <1>2, <1>5, Zenon
<1> QED
  BY <1>2, <1>3, <1>4, <1>6, Zenon DEF a, b

(* They agree when all references are followed.                            *)
LEMMA FollowAll ==
    ASSUME NEW el, NEW pl, NEW rw, NEW p, Corresponds(el, pl, rw, p)
    PROVE  SameTrees(Follow(el), Follow(pl), rw, p)
<1> DEFINE none == [x \in Tables \X Nat |-> Missing]
           e1 == Resolved(el, none)
           p1 == Resolved(pl, none)
           e2 == Resolved(el, e1)
           p2 == Resolved(pl, p1)
           e3 == Resolved(el, e2)
           p3 == Resolved(pl, p2)
           e4 == Resolved(el, e3)
           p4 == Resolved(pl, p3)
<1>0. SameTrees(none, none, rw, p)
  BY Zenon DEF SameTrees, Corresponds
<1> HIDE DEF none
<1>1. SameTrees(e1, p1, rw, p)
  BY <1>0, ResolveOnce
<1> HIDE DEF e1, p1
<1>2. SameTrees(e2, p2, rw, p)
  BY <1>1, ResolveOnce
<1> HIDE DEF e2, p2
<1>3. SameTrees(e3, p3, rw, p)
  BY <1>2, ResolveOnce
<1> HIDE DEF e3, p3
<1>4. SameTrees(e4, p4, rw, p)
  BY <1>3, ResolveOnce
<1> HIDE DEF e4, p4
<1>5. SameTrees(Resolved(el, e4), Resolved(pl, p4), rw, p)
  BY <1>4, ResolveOnce
<1> QED
  BY <1>5, Zenon DEF Follow, none, e1, e2, e3, e4, p1, p2, p3, p4

(* What is known of the profile of a call.                                 *)
LEMMA ProfileFacts ==
    ASSUME TypeOK, NEW c \in Calls
    PROVE  /\ profile[c] \in Profiles /\ IsProfile(profile[c])
           /\ profile[c].series \in Seq(Series) /\ profile[c].time \in 1..(MaxTimestamp - 1)
           /\ Types(c) \in Nat /\ \A k \in 1..Types(c) : profile[c].series[k] \in Series
<1>1. profile[c] \in Profiles
  BY Zenon DEF TypeOK
<1>2. IsProfile(profile[c])
  BY <1>1, ProfilesAssumption
<1>3. profile[c].series \in Seq(Series) /\ profile[c].time \in 1..(MaxTimestamp - 1)
  BY <1>2, Zenon DEF IsProfile
<1>4. Len(profile[c].series) \in Nat /\ \A k \in 1..Len(profile[c].series) : profile[c].series[k] \in Series
  <2> DEFINE s == profile[c].series
  <2>1. s \in Seq(Series)
    BY <1>3
  <2> HIDE DEF s
  <2>2. Len(s) \in Nat /\ \A k \in 1..Len(s) : s[k] \in Series
    BY ONLY <2>1
  <2> QED
    BY <2>2 DEF s
<1>5. Types(c) = 0 \/ Types(c) = Len(profile[c].series)
  BY Zenon DEF Types
<1>6. 1..0 = {} /\ 0 \in Nat
  OBVIOUS
<1> QED
  BY <1>1, <1>2, <1>3, <1>4, <1>5, <1>6, Zenon

(* An element that a profile has is one of its table, found by its id.     *)
LEMMA ElementFacts ==
    ASSUME NEW p, IsProfile(p), NEW n \in DOMAIN TableNames, NEW id \in Ids(p, TableNames[n])
    PROVE  /\ id \in Nat /\ ElementOf(p, TableNames[n], id) \in Range(p.tables[TableNames[n]])
           /\ ElementOf(p, TableNames[n], id).id = id
           /\ IsElement(p, n, ElementOf(p, TableNames[n], id))
<1> DEFINE t == TableNames[n]
           e == ElementOf(p, t, id)
<1>1. \E f \in Range(p.tables[t]) : f.id = id
  BY Zenon DEF Ids
<1>2. e = CHOOSE f \in Range(p.tables[t]) : f.id = id
  BY <1>1, Zenon DEF ElementOf
<1>3. e \in Range(p.tables[t]) /\ e.id = id
  BY <1>1, <1>2, Zenon
<1>4. IsElement(p, n, e)
  BY <1>3, Zenon DEF IsProfile
<1> QED
  BY <1>3, <1>4, Zenon DEF IsElement

(* A reference inside a profile is to an element of an earlier table and   *)
(* is rewritten with the map of that table.                                *)
LEMMA ReferenceFacts ==
    ASSUME NEW p, IsProfile(p), NEW rw, NEW n \in DOMAIN TableNames,
           NEW e, IsElement(p, n, e), NEW j \in DOMAIN e.refs
    PROVE  /\ e.refs[j].to \in Earlier(n) /\ e.refs[j].to \in Tables
           /\ e.refs[j].id \in Ids(p, e.refs[j].to)
           /\ rewrite(rw, e.refs[j]) = [to |-> e.refs[j].to, id |-> rw[e.refs[j].to][e.refs[j].id]]
<1> DEFINE r == e.refs[j]
<1>1. r.to \in Earlier(n) /\ \E f \in Range(p.tables[r.to]) : f.id = r.id
  BY Zenon DEF IsElement
<1>2. r.to \in Tables
  BY <1>1, NextTable, Zenon
<1>3. r.id \in Ids(p, r.to)
  BY <1>1, Zenon DEF Ids
<1>4. ~(r.to = "mappings" /\ r.id = 0)
  BY <1>1, Zenon DEF IsProfile
<1> QED
  BY <1>1, <1>2, <1>3, <1>4, Zenon DEF rewrite

(* Rows that have the elements of all tables of a call correspond to the   *)
(* profile.                                                                *)
LEMMA RowsCorrespond ==
    ASSUME NEW p, IsProfile(p), NEW rw, NEW rows, \A t \in Tables : HasRows(rows[t], p, rw, t)
    PROVE  Corresponds([x \in Tables \X Nat |-> RowIn(rows[x[1]], x[2])],
                       [x \in Tables \X Nat |-> ElementOf(p, x[1], x[2])], rw, p)
<1> DEFINE el == [x \in Tables \X Nat |-> RowIn(rows[x[1]], x[2])]
           pl == [x \in Tables \X Nat |-> ElementOf(p, x[1], x[2])]
<1> SUFFICES ASSUME NEW t \in Tables, NEW id \in Ids(p, t)
             PROVE
        /\ id \in Nat /\ rw[t][id] \in Nat
        /\ el[<<t, rw[t][id]>>].val = pl[<<t, id>>].val
        /\ DOMAIN el[<<t, rw[t][id]>>].refs = DOMAIN pl[<<t, id>>].refs
        /\ \A j \in DOMAIN pl[<<t, id>>].refs :
              LET r == pl[<<t, id>>].refs[j]
                  q == el[<<t, rw[t][id]>>].refs[j]
              IN  r.to \in Tables /\ r.id \in Ids(p, r.to) /\ q.to = r.to /\ q.id = rw[r.to][r.id]
  BY Zenon DEF Corresponds
<1> DEFINE e == ElementOf(p, t, id)
           r == rw[t][id]
<1>1. PICK n \in DOMAIN TableNames : t = TableNames[n]
  BY Zenon DEF Tables, Range
<1>2. id \in Nat /\ IsElement(p, n, e)
  BY <1>1, ElementFacts
<1>3. r \in Nat /\ r + 1 \in DOMAIN rows[t] /\ rows[t][r + 1] = key(rw, e)
  BY Zenon DEF HasRows
<1>4. el[<<t, r>>] = key(rw, e)
  <2>1. <<t, r>> \in Tables \X Nat /\ <<t, r>>[1] = t /\ <<t, r>>[2] = r
    BY <1>3
  <2>2. el[<<t, r>>] = RowIn(rows[t], r)
    BY <2>1, Zenon
  <2> QED
    BY <1>3, <2>2, Zenon DEF RowIn
<1>5. pl[<<t, id>>] = e
  <2>1. <<t, id>> \in Tables \X Nat /\ <<t, id>>[1] = t /\ <<t, id>>[2] = id
    BY <1>2
  <2> QED
    BY <2>1, Zenon
<1>6. /\ key(rw, e).val = e.val /\ DOMAIN key(rw, e).refs = DOMAIN e.refs
      /\ \A j \in DOMAIN e.refs : key(rw, e).refs[j] = rewrite(rw, e.refs[j])
  BY DEF key
<1>7. ASSUME NEW j \in DOMAIN e.refs
      PROVE  /\ e.refs[j].to \in Tables /\ e.refs[j].id \in Ids(p, e.refs[j].to)
             /\ key(rw, e).refs[j].to = e.refs[j].to
             /\ key(rw, e).refs[j].id = rw[e.refs[j].to][e.refs[j].id]
  <2>1. /\ e.refs[j].to \in Tables /\ e.refs[j].id \in Ids(p, e.refs[j].to)
        /\ rewrite(rw, e.refs[j]) = [to |-> e.refs[j].to, id |-> rw[e.refs[j].to][e.refs[j].id]]
    BY SMTT(30), <1>2, ReferenceFacts
  <2> HIDE DEF e
  <2> QED
    BY SMTT(30), <1>6, <2>1
<1> HIDE DEF el, pl, e
<1> QED
  BY <1>2, <1>3, <1>4, <1>5, <1>6, <1>7, ZenonT(40) DEF r

(* A stored profile has the stacktraces it was sent with in any rows that  *)
(* have the elements of its call.                                          *)
LEMMA StacksFound ==
    ASSUME TypeOK, NEW c \in Calls, NEW k, NEW rows,
           \A t \in Tables : HasRows(rows[t], profile[c], rewrites[c], t)
    PROVE  SameStacktraces(Stored(c, k), InRows(rows))
<1> DEFINE x == Stored(c, k)
           p == profile[c]
           st == p.tables["stacktraces"]
           rw == rewrites[c]
<1>1. /\ x.id = <<c, k>> /\ x.id[1] = c /\ DOMAIN x.stacktraces = DOMAIN st
      /\ \A i \in DOMAIN st : x.stacktraces[i] = rw["stacktraces"][i - 1]
  BY DEF Stored
<1>2. SameTrees(InRows(rows), InProfile(p), rw, p)
  BY Zenon, ProfileFacts, RowsCorrespond, FollowAll DEF InRows, InProfile
<1>3. ASSUME NEW i \in DOMAIN st
      PROVE  i - 1 \in Ids(p, "stacktraces")
  <2>1. st[i].id = i - 1
    BY ProfileFacts, Zenon DEF IsProfile
  <2>2. st[i] \in Range(st)
    BY Zenon DEF Range
  <2> QED
    BY <2>1, <2>2, Zenon DEF Ids
<1>4. "stacktraces" \in Tables
  BY Names
<1> HIDE DEF p, st, rw, x
<1>5. \A i \in DOMAIN st : InRows(rows)[<<"stacktraces", x.stacktraces[i]>>]
                             = InProfile(p)[<<"stacktraces", i - 1>>]
  BY <1>1, <1>2, <1>3, <1>4, Zenon DEF SameTrees
<1> QED
  BY <1>1, <1>5, Zenon DEF SameStacktraces, p, x

-----------------------------------------------------------------------------
(* Interning a table *)

(* The key of an element depends on the maps of earlier tables only.       *)
LEMMA KeyStays ==
    ASSUME NEW p, IsProfile(p), NEW n \in DOMAIN TableNames, NEW e, IsElement(p, n, e),
           NEW rw, NEW rw2, \A u \in Earlier(n) : rw2[u] = rw[u]
    PROVE  key(rw2, e) = key(rw, e)
<1>1. \A j \in DOMAIN e.refs : rewrite(rw2, e.refs[j]) = rewrite(rw, e.refs[j])
  <2> TAKE j \in DOMAIN e.refs
  <2>1. e.refs[j].to \in Earlier(n)
    BY Zenon DEF IsElement
  <2> QED
    BY <2>1, Zenon DEF rewrite
<1> QED
  BY <1>1, Zenon DEF key

(* The rows of a table of a call stay where they are while the table grows *)
(* and the call adds maps for later tables.                                *)
LEMMA HasRowsStays ==
    ASSUME NEW p, IsProfile(p), NEW n \in DOMAIN TableNames, NEW rows, NEW rows2, Grows(rows, rows2),
           NEW rw, NEW rw2, \A u \in Earlier(n) \cup {TableNames[n]} : rw2[u] = rw[u],
           HasRows(rows, p, rw, TableNames[n])
    PROVE  HasRows(rows2, p, rw2, TableNames[n])
<1> DEFINE t == TableNames[n]
<1> SUFFICES ASSUME NEW id \in Ids(p, t)
             PROVE  /\ rw2[t][id] \in Nat /\ rw2[t][id] + 1 \in DOMAIN rows2
                    /\ rows2[rw2[t][id] + 1] = key(rw2, ElementOf(p, t, id))
  BY Zenon DEF HasRows
<1>1. rw2[t][id] = rw[t][id]
  BY Zenon
<1>2. IsElement(p, n, ElementOf(p, t, id))
  BY ElementFacts
<1>3. key(rw2, ElementOf(p, t, id)) = key(rw, ElementOf(p, t, id))
  BY <1>2, KeyStays
<1>4. /\ rw[t][id] \in Nat /\ rw[t][id] + 1 \in DOMAIN rows
      /\ rows[rw[t][id] + 1] = key(rw, ElementOf(p, t, id))
  BY Zenon DEF HasRows
<1>5. rw[t][id] + 1 \in DOMAIN rows2 /\ rows2[rw[t][id] + 1] = rows[rw[t][id] + 1]
  BY <1>4, Zenon DEF Grows
<1> QED
  BY <1>1, <1>3, <1>4, <1>5, Zenon

(* Rows are the same as themselves, grown by nothing.                      *)
LEMMA GrowsNot == ASSUME NEW rows PROVE Grows(rows, rows)
BY DEF Grows

(* The row that is found for a key that was interned holds it.             *)
LEMMA RowFound ==
    ASSUME NEW rows, IsSeq(rows), NEW k \in Range(rows)
    PROVE  RowOf(rows, k) \in Nat /\ RowOf(rows, k) + 1 \in DOMAIN rows /\ rows[RowOf(rows, k) + 1] = k
<1> DEFINE i == CHOOSE j \in DOMAIN rows : rows[j] = k
<1>1. Len(rows) \in Nat /\ DOMAIN rows = 1..Len(rows) /\ \E j \in DOMAIN rows : rows[j] = k
  BY SeqFacts
<1>2. i \in DOMAIN rows /\ rows[i] = k
  BY <1>1, Zenon
<1>3. RowOf(rows, k) = i - 1
  BY DEF RowOf
<1> HIDE DEF i
<1>4. i \in Nat /\ i # 0
  BY <1>1, <1>2
<1>5. RowOf(rows, k) \in Nat /\ RowOf(rows, k) + 1 = i
  BY <1>3, <1>4
<1> QED
  BY <1>2, <1>5

(* The rows of table t once call c has interned its elements.              *)
RowsWith(c, t) ==
    Interned(table[t], [i \in DOMAIN profile[c].tables[t] |-> key(rewrites[c], profile[c].tables[t][i])])

(* The rewriter of call c once it has the map of table t.                  *)
RewriterWith(c, t) == Put(rewrites[c], t, ConversionTable(c, t, RowsWith(c, t)))

(* A call that has ingested the earlier tables ingests the next one.       *)
LEMMA TableInterned ==
    ASSUME TypeOK, NEW c \in Calls, NEW n \in DOMAIN TableNames, DOMAIN rewrites[c] = Earlier(n)
    PROVE  /\ IsSeq(RowsWith(c, TableNames[n])) /\ Grows(table[TableNames[n]], RowsWith(c, TableNames[n]))
           /\ DOMAIN RewriterWith(c, TableNames[n]) = Earlier(n) \cup {TableNames[n]}
           /\ \A u \in Earlier(n) : RewriterWith(c, TableNames[n])[u] = rewrites[c][u]
           /\ HasRows(RowsWith(c, TableNames[n]), profile[c], RewriterWith(c, TableNames[n]), TableNames[n])
<1> DEFINE t == TableNames[n]
           p == profile[c]
           es == p.tables[t]
           rw == rewrites[c]
           ks == [i \in DOMAIN es |-> key(rw, es[i])]
           rows == RowsWith(c, t)
           ct == ConversionTable(c, t, rows)
           rw2 == RewriterWith(c, t)
<1>1. IsProfile(p) /\ t \in Tables /\ t \notin Earlier(n) /\ IsSeq(table[t])
  BY ProfileFacts, NextTable, Zenon DEF TypeOK
<1>2. IsSeq(es)
  BY <1>1, Zenon DEF IsProfile
<1>3. Len(es) \in Nat /\ DOMAIN es = 1..Len(es)
  BY <1>2, SeqFacts
<1>4. IsSeq(ks) /\ Len(ks) = Len(es) /\ DOMAIN ks = DOMAIN es
  <2>1. DOMAIN ks = 1..Len(es) /\ \A i \in 1..Len(es) : ks[i] \in Range(ks)
    BY <1>3, Zenon DEF Range
  <2>2. ks \in [1..Len(es) -> Range(ks)]
    BY <1>3, <2>1, Zenon
  <2> HIDE DEF ks
  <2>3. ks \in Seq(Range(ks))
    BY <1>3, <2>2, SMT
  <2>4. Len(ks) = Len(es)
    BY ONLY <1>3, <2>1, <2>3
  <2> QED
    BY <1>3, <2>1, <2>3, <2>4 DEF IsSeq
<1>5. rows = Interned(table[t], ks)
  BY DEF RowsWith
<1>6. InternedUpTo(table[t], ks, Len(ks), rows)
  BY <1>1, <1>4, <1>5, InternedDoes
<1>7. IsSeq(rows) /\ Grows(table[t], rows) /\ \A i \in DOMAIN es : key(rw, es[i]) \in Range(rows)
  <2>1. IsSeq(rows) /\ Grows(table[t], rows) /\ \A i \in DOMAIN es : ks[i] \in Range(rows)
    BY <1>3, <1>4, <1>6, Zenon DEF InternedUpTo
  <2> QED
    BY <2>1, Zenon
<1> HIDE DEF ks, rows
<1>8. rw2 = Put(rw, t, ct)
  BY DEF RewriterWith, rows
<1>9. /\ DOMAIN rw2 = Earlier(n) \cup {t} /\ rw2[t] = ct
      /\ \A u \in Earlier(n) : rw2[u] = rw[u]
  BY <1>1, <1>8, Zenon DEF Put
<1>10. ASSUME NEW id \in Ids(p, t)
       PROVE  ct[id] = RowOf(rows, key(rw, ElementOf(p, t, id)))
  <2>1. id \in {es[i].id : i \in DOMAIN es}
    BY Zenon DEF Ids, Range
  <2>2. \E e \in Range(es) : e.id = id
    BY Zenon DEF Ids
  <2>3. ElementOf(p, t, id) = CHOOSE e \in Range(es) : e.id = id
    BY <2>2, Zenon DEF ElementOf
  <2> QED
    BY <2>1, <2>3, Zenon DEF ConversionTable
<1>11. ASSUME NEW id \in Ids(p, t)
       PROVE  /\ rw2[t][id] \in Nat /\ rw2[t][id] + 1 \in DOMAIN rows
              /\ rows[rw2[t][id] + 1] = key(rw2, ElementOf(p, t, id))
  <2> DEFINE e == ElementOf(p, t, id)
  <2>1. e \in Range(es) /\ IsElement(p, n, e)
    BY <1>1, ElementFacts
  <2>2. key(rw2, e) = key(rw, e)
    BY <1>1, <1>9, <2>1, KeyStays
  <2>3. key(rw, e) \in Range(rows)
    BY <1>7, <2>1, Zenon DEF Range
  <2> HIDE DEF e
  <2>4. LET r == RowOf(rows, key(rw, e)) IN r \in Nat /\ r + 1 \in DOMAIN rows /\ rows[r + 1] = key(rw, e)
    BY <1>7, <2>3, RowFound
  <2>5. rw2[t][id] = RowOf(rows, key(rw, e))
    BY <1>9, <1>10, Zenon DEF e
  <2> QED
    BY <2>2, <2>4, <2>5, Zenon DEF e
<1>12. HasRows(rows, p, rw2, t)
  BY <1>11, Zenon DEF HasRows
<1> QED
  BY <1>7, <1>9, <1>12 DEF rows

-----------------------------------------------------------------------------
(* What steps leave alone *)

(* Calls keep what they were given and, once they have ingested their      *)
(* tables, their rewriter; they go on to later types.                      *)
CallsGoOn ==
    /\ profile' = profile
    /\ \A d \in Calls : pc[d] \in AfterTables =>
          /\ pc'[d] \in AfterTables /\ rewrites'[d] = rewrites[d]
          /\ ingested[d] => ingested'[d]
          /\ \A k \in Nat : k < idxType[d] => k < idxType'[d]

(* What a call stores for a type is determined by its profile and its      *)
(* rewriter.                                                               *)
LEMMA StoredStays ==
    ASSUME NEW c \in Calls, NEW k, profile' = profile, rewrites'[c] = rewrites[c]
    PROVE  Stored(c, k)' = Stored(c, k)
BY Zenon DEF Stored, rewriteString

(* The number of types is determined by the profile.                       *)
LEMMA TypesStay ==
    ASSUME NEW c \in Calls, profile' = profile
    PROVE  Types(c)' = Types(c)
BY Zenon DEF Types

(* What is known of an indexed profile.                                    *)
LEMMA IndexedFacts ==
    ASSUME IndexedIsStored, NEW x \in Indexed
    PROVE  /\ x.series \in DOMAIN profilesPerFP /\ x \in Range(profilesPerFP[x.series])
           /\ x \in Range(profiles) /\ x.id \in DOMAIN seriesIndex
           /\ \E c \in Calls : \E k \in 1..Types(c) :
                 pc[c] \in AfterTables /\ ingested[c] /\ x = Stored(c, k) /\ k < idxType[c]
<1>1. PICK s \in DOMAIN profilesPerFP : x \in Range(profilesPerFP[s])
  BY DEF Indexed
<1> QED
  BY <1>1 DEF IndexedIsStored

(* An index that is not added to still holds stored profiles.              *)
LEMMA IndexKept ==
    ASSUME IInv, CallsGoOn, profilesPerFP' = profilesPerFP,
           Range(profiles) \subseteq Range(profiles'), DOMAIN seriesIndex \subseteq DOMAIN seriesIndex'
    PROVE  IndexedIsStored'
<1> SUFFICES ASSUME NEW s \in DOMAIN profilesPerFP, NEW x \in Range(profilesPerFP[s])
             PROVE  /\ x.series = s /\ x \in Range(profiles') /\ x.id \in DOMAIN seriesIndex'
                    /\ \E c \in Calls : \E k \in 1..Types(c)' :
                          /\ pc'[c] \in AfterTables /\ ingested'[c]
                          /\ x = Stored(c, k)' /\ k < idxType'[c]
  BY Zenon DEF IndexedIsStored
<1>1. /\ x.series = s /\ x \in Range(profiles) /\ x.id \in DOMAIN seriesIndex
      /\ \E c \in Calls : \E k \in 1..Types(c) :
            pc[c] \in AfterTables /\ ingested[c] /\ x = Stored(c, k) /\ k < idxType[c]
  BY DEF IInv, IndexedIsStored
<1>2. PICK c \in Calls : \E k \in 1..Types(c) :
         pc[c] \in AfterTables /\ ingested[c] /\ x = Stored(c, k) /\ k < idxType[c]
  BY <1>1
<1>3. PICK k \in 1..Types(c) : pc[c] \in AfterTables /\ ingested[c] /\ x = Stored(c, k) /\ k < idxType[c]
  BY <1>2
<1>4. k \in Nat /\ Types(c)' = Types(c)
  BY ProfileFacts, TypesStay DEF IInv, CallsGoOn
<1>5. pc'[c] \in AfterTables /\ ingested'[c] /\ k < idxType'[c] /\ rewrites'[c] = rewrites[c] /\ profile' = profile
  BY <1>3, <1>4, Zenon DEF CallsGoOn
<1>6. Stored(c, k)' = Stored(c, k)
  BY <1>5, StoredStays
<1> QED
  BY <1>1, <1>3, <1>4, <1>5, <1>6, Zenon

(* What was dropped does not change while no call ends with a type.        *)
LEMMA DropsKept ==
    ASSUME DroppedIsHighest, OnlyFirstIsDropped, UNCHANGED <<profile, idxType, profilesPerFP, highest>>
    PROVE  DroppedIsHighest' /\ OnlyFirstIsDropped'
<1>1. \A c \in Calls : \A k : Dropped(c, k)' <=> Dropped(c, k)
  BY Zenon DEF Dropped, Types, Indexed
<1>2. \A c \in Calls : Types(c)' = Types(c)
  BY Zenon DEF Types
<1>3. DroppedIsHighest'
  BY <1>1, <1>2, Zenon DEF DroppedIsHighest
<1>4. OnlyFirstIsDropped'
  <2> SUFFICES ASSUME NEW c \in Calls, NEW d \in Calls, NEW k \in 1..Types(c)', NEW l \in 1..Types(d)',
                      Dropped(c, k)'
               PROVE  /\ profile'[c].series[k] \in Cumulative
                      /\ Dropped(d, l)' /\ profile'[c].series[k] = profile'[d].series[l]
                           => <<c, k>> = <<d, l>>
    BY DEF OnlyFirstIsDropped
  <2> QED
    BY <1>1, <1>2 DEF OnlyFirstIsDropped
<1> QED
  BY <1>3, <1>4

(* A call that takes no step is where it was.                              *)
LEMMA CallKept ==
    ASSUME NEW d \in Calls, CallProgress(d), profile' = profile, pc'[d] = pc[d], rewrites'[d] = rewrites[d],
           idxType'[d] = idxType[d], ingested'[d] = ingested[d],
           Range(profiles) \subseteq Range(profiles'), DOMAIN seriesIndex \subseteq DOMAIN seriesIndex',
           Covers(meta, profile[d].time) => Covers(meta', profile[d].time)
    PROVE  CallProgress(d)'
<1>1. Types(d)' = Types(d)
  BY TypesStay, Zenon
<1>2. Stored(d, idxType[d])' = Stored(d, idxType[d])
  BY Zenon DEF Stored, rewriteString
<1> QED
  BY <1>1, <1>2, Zenon DEF CallProgress

(* What Flush has written is about the calls that had returned, which take *)
(* no steps.                                                               *)
LEMMA FlushKept ==
    ASSUME IInv, NEW c \in Calls, pc[c] # "done", UNCHANGED flushVars, profile' = profile,
           \A d \in Calls : d # c => pc'[d] = pc[d] /\ rewrites'[d] = rewrites[d],
           \A x \in Indexed' : x \in Indexed \/ x.id[1] = c,
           \A id \in DOMAIN seriesIndex : id[1] # c => seriesIndex'[id] = seriesIndex[id]
    PROVE  FlushProgress' /\ WrittenHasBefore'
<1>1. flushPc' = flushPc /\ before' = before /\ block' = block
  BY Zenon DEF flushVars
<1>2. \A d \in before : d \in Calls /\ pc[d] = "done" /\ d # c
  BY Zenon DEF IInv, FlushProgress, TypeOK
<1>3. FlushProgress'
  BY <1>1, <1>2, Zenon DEF IInv, FlushProgress
<1>4. ASSUME NEW x \in FromBefore'
      PROVE  x \in FromBefore /\ seriesIndex'[x.id] = seriesIndex[x.id]
  <2>1. x \in Indexed' /\ x.id[1] \in before
    BY <1>1, <1>4, Zenon DEF FromBefore
  <2>2. x \in Indexed /\ x.id[1] # c
    BY <1>2, <2>1
  <2>3. x.id \in DOMAIN seriesIndex
    BY <2>2, IndexedFacts DEF IInv
  <2> QED
    BY <2>1, <2>2, <2>3, Zenon DEF FromBefore
<1>5. \A t \in DOMAIN block \cap Tables : \A d \in before :
         HasRows(block[t], profile[d], rewrites[d], t)
  BY Zenon DEF IInv, WrittenHasBefore
<1>6. \A t \in DOMAIN block' \cap Tables : \A d \in before' :
         HasRows(block'[t], profile'[d], rewrites'[d], t)
  BY <1>1, <1>2, <1>5, Zenon
<1>7. /\ "index" \in DOMAIN block =>
            /\ \A s, u \in DOMAIN block["index"] :
                  block["index"][s].pos = block["index"][u].pos => s = u
            /\ \A x \in FromBefore :
                  /\ x.series \in DOMAIN block["index"]
                  /\ block["index"][x.series].pos = seriesIndex[x.id]
                  /\ Covers(block["index"][x.series].range, x.time)
      /\ "profiles" \in DOMAIN block => \A x \in FromBefore :
            [profile |-> x, seriesIndex |-> seriesIndex[x.id]] \in block["profiles"]
      /\ "meta" \in DOMAIN block => \A x \in FromBefore : Covers(block["meta"].range, x.time)
  BY Zenon DEF IInv, WrittenHasBefore
<1>8. /\ "index" \in DOMAIN block' =>
            /\ \A s, u \in DOMAIN block'["index"] :
                  block'["index"][s].pos = block'["index"][u].pos => s = u
            /\ \A x \in FromBefore' :
                  /\ x.series \in DOMAIN block'["index"]
                  /\ block'["index"][x.series].pos = seriesIndex'[x.id]
                  /\ Covers(block'["index"][x.series].range, x.time)
      /\ "profiles" \in DOMAIN block' => \A x \in FromBefore' :
            [profile |-> x, seriesIndex |-> seriesIndex'[x.id]] \in block'["profiles"]
      /\ "meta" \in DOMAIN block' => \A x \in FromBefore' : Covers(block'["meta"].range, x.time)
  BY ONLY <1>1, <1>4, <1>7, Zenon
<1>9. WrittenHasBefore'
  BY ONLY <1>6, <1>8, Zenon DEF WrittenHasBefore
<1> QED
  BY <1>3, <1>9

-----------------------------------------------------------------------------
(* The steps of Ingest *)

(* A call has maps for the tables up to some table.                        *)
LEMMA MapsUpToTable ==
    ASSUME TypeOK, NEW d \in Calls, CallProgress(d)
    PROVE  /\ DOMAIN rewrites[d] \subseteq Tables
           /\ \A n \in DOMAIN TableNames : TableNames[n] \in DOMAIN rewrites[d] =>
                 Earlier(n) \subseteq DOMAIN rewrites[d]
<1>1. pc[d] \in AfterTables \/ \E n \in DOMAIN TableNames : pc[d] = AtTable(n)
  BY Zenon DEF TypeOK
<1>2. CASE pc[d] \in AfterTables
  <2>1. DOMAIN rewrites[d] = Tables
    BY <1>2, Zenon DEF CallProgress
  <2> QED
    BY <2>1, NextTable, Zenon
<1>3. ASSUME NEW n \in DOMAIN TableNames, pc[d] = AtTable(n)
      PROVE  /\ DOMAIN rewrites[d] \subseteq Tables
             /\ \A m \in DOMAIN TableNames : TableNames[m] \in DOMAIN rewrites[d] =>
                 Earlier(m) \subseteq DOMAIN rewrites[d]
  <2>1. DOMAIN rewrites[d] = Earlier(n)
    BY <1>3, Zenon DEF CallProgress
  <2>2. Earlier(n) \subseteq Tables
    BY NextTable
  <2>3. ASSUME NEW m \in DOMAIN TableNames, TableNames[m] \in Earlier(n)
        PROVE  Earlier(m) \subseteq Earlier(n)
    <3>1. PICK l \in 1..(n - 1) : TableNames[m] = TableNames[l]
      BY <2>3, Zenon DEF Earlier
    <3>2. n \in 1..5 /\ m \in 1..5 /\ DOMAIN TableNames = 1..5
      BY Names
    <3>3. l \in DOMAIN TableNames
      BY <3>1, <3>2
    <3>4. m = l
      BY <3>1, <3>3, NamesDiffer
    <3>5. \A i \in 1..(m - 1) : i \in 1..(n - 1)
      BY <3>1, <3>2, <3>4
    <3> QED
      BY <3>5, Zenon DEF Earlier
  <2> QED
    BY <2>1, <2>2, <2>3, Zenon
<1> QED
  BY <1>1, <1>2, <1>3

(* A call ingests its next table.                                          *)
LEMMA IngestTableIInv ==
    ASSUME IInv, NEW c \in Calls, IngestTable(c)
    PROVE  IInv'
<1>0. TypeOK /\ \A d \in Calls : CallProgress(d)
  BY Zenon DEF IInv
<1>1. PICK n \in DOMAIN TableNames :
         /\ pc[c] = AtTable(n)
         /\ table' = [table EXCEPT ![TableNames[n]] = RowsWith(c, TableNames[n])]
         /\ rewrites' = [rewrites EXCEPT ![c] = RewriterWith(c, TableNames[n])]
         /\ pc' = [pc EXCEPT ![c] = IF n < Len(TableNames) THEN AtTable(n + 1)
                                    ELSE IF Types(c) = 0 THEN "done" ELSE "delta"]
  BY Zenon DEF IngestTable, RowsWith, RewriterWith
<1>2. UNCHANGED <<profiles, seriesIndex, highest, profilesPerFP, meta, totalSamples, profile,
                  idxType, ingested, flushVars>>
  BY Zenon DEF IngestTable
<1> DEFINE t == TableNames[n]
           rows == RowsWith(c, t)
           rw == RewriterWith(c, t)
<1>3. DOMAIN rewrites[c] = Earlier(n) /\ idxType[c] = 1 /\ ~ingested[c]
  BY <1>0, <1>1, Zenon DEF CallProgress
<1>4. /\ IsSeq(rows) /\ Grows(table[t], rows) /\ DOMAIN rw = Earlier(n) \cup {t}
      /\ \A u \in Earlier(n) : rw[u] = rewrites[c][u]
      /\ HasRows(rows, profile[c], rw, t)
  BY <1>0, <1>3, TableInterned
<1>5. /\ n \in 1..5 /\ t \in Tables /\ t \notin Earlier(n) /\ Earlier(n) \subseteq Tables
      /\ n < Len(TableNames) => n + 1 \in DOMAIN TableNames /\ Earlier(n + 1) = Earlier(n) \cup {t}
      /\ ~(n < Len(TableNames)) => Tables = Earlier(n) \cup {t}
  BY NextTable
<1> HIDE DEF rows, rw
<1>6. /\ DOMAIN table' = Tables /\ table'[t] = rows /\ \A u \in Tables : u # t => table'[u] = table[u]
      /\ DOMAIN rewrites' = Calls /\ rewrites'[c] = rw
      /\ \A d \in Calls : d # c => rewrites'[d] = rewrites[d]
      /\ \A d \in Calls : d # c => pc'[d] = pc[d]
      /\ pc'[c] = IF n < Len(TableNames) THEN AtTable(n + 1)
                  ELSE IF Types(c) = 0 THEN "done" ELSE "delta"
  BY <1>0, <1>1, <1>5 DEF TypeOK, rows, rw
<1>7. pc[c] \notin AfterTables /\ pc[c] # "done"
  BY <1>1, NamesDiffer DEF AfterTables
<1>8. TypeOK'
  <2>1. \A u \in Tables : IsSeq(table'[u])
    BY <1>0, <1>4, <1>6, Zenon DEF TypeOK
  <2>2. pc'[c] \in {AtTable(m) : m \in DOMAIN TableNames} \cup AfterTables
    BY <1>5, <1>6, Zenon DEF AfterTables, InLoop
  <2>3. pc' \in [Calls -> {AtTable(m) : m \in DOMAIN TableNames} \cup AfterTables]
    BY <1>0, <1>1, <2>2 DEF TypeOK
  <2> QED
    BY <1>0, <1>2, <1>6, <2>1, <2>3, Zenon DEF TypeOK, flushVars
<1>9. CallsGoOn
  BY <1>2, <1>6, <1>7, Zenon DEF CallsGoOn
<1>10. IndexedIsStored'
  BY <1>2, <1>9, IndexKept
<1>11. DroppedIsHighest' /\ OnlyFirstIsDropped'
  BY Zenon, <1>2, DropsKept DEF IInv
<1>12. FlushProgress' /\ WrittenHasBefore'
  <2>1. Indexed' = Indexed
    BY <1>2, Zenon DEF Indexed
  <2> QED
    BY <1>2, <1>6, <1>7, <2>1, FlushKept
<1>13. ProfilesHaveIndex'
  BY <1>2, Zenon DEF IInv, ProfilesHaveIndex
<1>14. RewritesAreRows'
  <2>1. ASSUME NEW d \in Calls, NEW u \in DOMAIN rewrites'[d]
        PROVE  HasRows(table'[u], profile[d], rewrites'[d], u)
    <3>1. Grows(table[u], table'[u])
      <4>1. u \in Tables
        BY <1>0, <1>4, <1>5, <1>6, <2>1, MapsUpToTable, Zenon
      <4> QED
        BY <1>4, <1>6, <4>1, GrowsNot, Zenon
    <3>2. IsProfile(profile[d])
      BY <1>0, ProfileFacts
    <3>3. CASE d = c /\ u = t
      BY <1>4, <1>6, <3>3, Zenon
    <3>4. CASE ~(d = c /\ u = t)
      <4>1. u \in DOMAIN rewrites[d] /\ HasRows(table[u], profile[d], rewrites[d], u)
        BY <1>3, <1>4, <1>6, <2>1, <3>4, Zenon DEF IInv, RewritesAreRows
      <4>2. DOMAIN rewrites[d] \subseteq Tables
            /\ \A m \in DOMAIN TableNames : TableNames[m] \in DOMAIN rewrites[d] =>
                 Earlier(m) \subseteq DOMAIN rewrites[d]
        BY <1>0, MapsUpToTable
      <4>3. PICK m \in DOMAIN TableNames : u = TableNames[m]
        BY <4>1, <4>2, Zenon DEF Tables, Range
      <4>4. Earlier(m) \cup {u} \subseteq DOMAIN rewrites[d]
        BY <4>1, <4>2, <4>3, Zenon
      <4>5. \A v \in Earlier(m) \cup {u} : rewrites'[d][v] = rewrites[d][v]
        BY <1>3, <1>4, <1>6, <4>4, Zenon
      <4> QED
        BY <3>1, <3>2, <4>1, <4>3, <4>5, HasRowsStays
    <3> QED
      BY <3>3, <3>4
  <2>2. profile' = profile
    BY <1>2
  <2> QED
    BY ONLY <2>1, <2>2, Zenon DEF RewritesAreRows
<1>15. \A d \in Calls : CallProgress(d)'
  <2>1. ASSUME NEW d \in Calls, d # c PROVE CallProgress(d)'
    BY <1>0, <1>2, <1>6, <2>1, CallKept, Zenon
  <2>2. CallProgress(c)'
    <3>1. CASE n < Len(TableNames)
      <4>1. pc'[c] = AtTable(n + 1) /\ n + 1 \in DOMAIN TableNames
            /\ DOMAIN rewrites'[c] = Earlier(n + 1)
        BY <1>4, <1>5, <1>6, <3>1, Zenon
      <4>2. pc'[c] \notin AfterTables /\ \A m \in DOMAIN TableNames : pc'[c] = AtTable(m) => m = n + 1
        BY <4>1, NamesDiffer, Zenon
      <4> QED
        BY <1>2, <1>3, <4>1, <4>2, Zenon DEF CallProgress, AfterTables, InLoop
    <3>2. CASE ~(n < Len(TableNames))
      <4>1. DOMAIN rewrites'[c] = Tables
        BY <1>4, <1>5, <1>6, <3>2, Zenon
      <4>2. pc'[c] \in AfterTables /\ \A m \in DOMAIN TableNames : pc'[c] # AtTable(m)
        <5>1. pc'[c] \in AfterTables
          BY <1>6, <3>2, Zenon DEF AfterTables, InLoop
        <5> QED
          BY <5>1, NamesDiffer, Zenon
      <4>3. Types(c)' = Types(c) /\ Types(c) \in Nat
        BY <1>0, <1>2, TypesStay, ProfileFacts
      <4>4. pc'[c] \in {"delta", "done"} /\ (pc'[c] = "delta" => 1 <= Types(c)')
        BY <1>6, <3>2, <4>3
      <4>5. idxType'[c] = 1 /\ ~ingested'[c]
        BY <1>2, <1>3
      <4>6. /\ pc'[c] \notin {"index", "meta"}
            /\ (pc'[c] \in InLoop => idxType'[c] <= Types(c)')
        BY <4>4, <4>5 DEF InLoop
      <4> QED
        BY <4>1, <4>2, <4>5, <4>6, Zenon DEF CallProgress
    <3> QED
      BY <3>1, <3>2
  <2> QED
    BY <2>1, <2>2
<1> QED
  BY <1>8, <1>10, <1>11, <1>12, <1>13, <1>14, <1>15, Zenon DEF IInv

(* What a step of a call in its loop over the types leaves alone.          *)
LoopStep(c) ==
    /\ pc[c] \in AfterTables \ {"done"} /\ pc'[c] \in AfterTables
    /\ UNCHANGED <<table, profile, rewrites, flushVars>>
    /\ \A d \in Calls : d # c =>
          pc'[d] = pc[d] /\ idxType'[d] = idxType[d] /\ ingested'[d] = ingested[d]

(* The tables, the other calls and the block are as before such a step.    *)
LEMMA LoopStepKeeps ==
    ASSUME IInv, NEW c \in Calls, LoopStep(c), ingested[c] => ingested'[c],
           \A k \in Nat : k < idxType[c] => k < idxType'[c],
           Range(profiles) \subseteq Range(profiles'), DOMAIN seriesIndex \subseteq DOMAIN seriesIndex',
           \A x \in Indexed' : x \in Indexed \/ x.id[1] = c,
           \A id \in DOMAIN seriesIndex : id[1] # c => seriesIndex'[id] = seriesIndex[id],
           \A d \in Calls : Covers(meta, profile[d].time) => Covers(meta', profile[d].time)
    PROVE  /\ CallsGoOn /\ RewritesAreRows' /\ FlushProgress' /\ WrittenHasBefore'
           /\ \A d \in Calls : d # c => CallProgress(d)'
<1>1. CallsGoOn
  BY Zenon DEF LoopStep, CallsGoOn
<1>2. RewritesAreRows'
  <2>1. RewritesAreRows /\ UNCHANGED <<table, profile, rewrites>>
    BY Zenon DEF IInv, LoopStep
  <2> QED
    BY ONLY <2>1, Zenon DEF RewritesAreRows
<1>3. FlushProgress' /\ WrittenHasBefore'
  <2>1. /\ pc[c] # "done" /\ UNCHANGED flushVars /\ profile' = profile
        /\ \A d \in Calls : d # c => pc'[d] = pc[d] /\ rewrites'[d] = rewrites[d]
    BY Zenon DEF LoopStep
  <2> QED
    BY <2>1, FlushKept
<1>4. ASSUME NEW d \in Calls, d # c PROVE CallProgress(d)'
  <2>1. /\ profile' = profile /\ pc'[d] = pc[d] /\ rewrites'[d] = rewrites[d]
        /\ idxType'[d] = idxType[d] /\ ingested'[d] = ingested[d] /\ CallProgress(d)
    BY <1>4, Zenon DEF LoopStep, IInv
  <2> QED
    BY <2>1, CallKept
<1> QED
  BY <1>1, <1>2, <1>3, <1>4

(* When a call has dealt with a type it goes on to the next one or leaves  *)
(* the loop.                                                               *)
LEMMA AfterTypesFacts ==
    ASSUME IInv, NEW c \in Calls, pc[c] \in InLoop, NEW done \in BOOLEAN
    PROVE  /\ idxType[c] \in 1..Types(c) /\ idxType[c] \in Nat /\ Types(c) \in Nat
           /\ AfterTypes(c, done) \in {"delta", "meta", "done"}
           /\ AfterTypes(c, done) = "delta" => idxType[c] + 1 <= Types(c)
           /\ AfterTypes(c, done) = "meta" => done
           /\ AfterTypes(c, done) = "done" => ~done
<1>1. idxType[c] \in Nat \ {0} /\ idxType[c] <= Types(c)
  BY Zenon DEF IInv, TypeOK, CallProgress
<1>2. Types(c) \in Nat
  BY ProfileFacts DEF IInv
<1> QED
  BY <1>1, <1>2 DEF AfterTypes

(* The progress of a call that stays out of the tables.                    *)
LEMMA LoopProgress ==
    ASSUME IInv, NEW c \in Calls, LoopStep(c),
           pc'[c] \in InLoop => idxType'[c] <= Types(c),
           pc'[c] = "index" => /\ <<c, idxType'[c]>> \in DOMAIN seriesIndex'
                               /\ Stored(c, idxType'[c]) \in Range(profiles'),
           pc'[c] = "meta" => ingested'[c],
           pc'[c] = "done" /\ ingested'[c] => Covers(meta', profile[c].time)
    PROVE  CallProgress(c)'
<1>1. /\ profile' = profile /\ rewrites' = rewrites /\ pc'[c] \in AfterTables /\ pc[c] \in AfterTables
  BY Zenon DEF LoopStep
<1>2. DOMAIN rewrites'[c] = Tables
  BY <1>1, Zenon DEF IInv, CallProgress
<1>3. \A n \in DOMAIN TableNames : pc'[c] # AtTable(n)
  BY <1>1, NamesDiffer, Zenon
<1>4. Types(c)' = Types(c)
  BY <1>1, TypesStay
<1>5. Stored(c, idxType[c])' = Stored(c, idxType'[c])
  BY <1>1, Zenon DEF Stored, rewriteString
<1>6. /\ \A n \in DOMAIN TableNames : pc'[c] = AtTable(n) =>
            DOMAIN rewrites'[c] = Earlier(n) /\ idxType'[c] = 1 /\ ~ingested'[c]
      /\ pc'[c] \in AfterTables => DOMAIN rewrites'[c] = Tables
  BY <1>2, <1>3, Zenon
<1> QED
  BY <1>1, <1>4, <1>5, <1>6, Zenon DEF CallProgress

(* computeDelta drops the first profile of a cumulative series, which      *)
(* nobody has dropped before since its series was not known.               *)
LEMMA ComputeDeltaIInv ==
    ASSUME IInv, NEW c \in Calls, ComputeDelta(c)
    PROVE  IInv'
<1> DEFINE i == idxType[c]
           s == profile[c].series[i]
<1>0. TypeOK /\ pc[c] = "delta" /\ pc[c] \in InLoop /\ pc[c] \in AfterTables \ {"done"}
  BY DEF IInv, ComputeDelta, InLoop, AfterTables
<1>1. UNCHANGED <<table, profiles, seriesIndex, profilesPerFP, meta, totalSamples, profile,
                  rewrites, ingested, flushVars>>
  BY Zenon DEF ComputeDelta
<1>2. Indexed' = Indexed /\ i \in 1..Types(c) /\ i \in Nat /\ s \in Series
  <2>1. Indexed' = Indexed
    BY <1>1, Zenon DEF Indexed
  <2>2. i \in 1..Types(c) /\ i \in Nat
    BY Zenon, <1>0, AfterTypesFacts
  <2> QED
    BY <1>0, <2>1, <2>2, ProfileFacts
<1>3. ProfilesHaveIndex'
  BY <1>1, Zenon DEF IInv, ProfilesHaveIndex
<1>4. CASE s \notin Cumulative \ highest
  <2>1. pc' = [pc EXCEPT ![c] = "profiles"] /\ UNCHANGED <<highest, idxType>>
    BY <1>4, Zenon DEF ComputeDelta
  <2>2. pc' \in [Calls -> {AtTable(n) : n \in DOMAIN TableNames} \cup AfterTables]
        /\ pc'[c] = "profiles" /\ \A d \in Calls : d # c => pc'[d] = pc[d]
    BY <1>0, <2>1 DEF TypeOK, AfterTables, InLoop
  <2>3. LoopStep(c)
    BY <1>0, <1>1, <2>1, <2>2, Zenon DEF LoopStep, AfterTables, InLoop
  <2>4. /\ CallsGoOn /\ RewritesAreRows' /\ FlushProgress' /\ WrittenHasBefore'
        /\ \A d \in Calls : d # c => CallProgress(d)'
    BY <1>1, <1>2, <2>1, <2>3, LoopStepKeeps
  <2>5. CallProgress(c)'
    <3>1. idxType'[c] <= Types(c)
      BY <1>0, <2>1, Zenon DEF IInv, CallProgress
    <3>2. pc'[c] \notin {"index", "meta", "done"}
      BY <2>2
    <3> QED
      BY Zenon, <2>3, <3>1, <3>2, LoopProgress
  <2>6. TypeOK'
    BY <1>0, <1>1, <2>1, <2>2, Zenon DEF TypeOK, flushVars
  <2>7. IndexedIsStored'
    BY <1>1, <2>4, IndexKept
  <2>8. DroppedIsHighest' /\ OnlyFirstIsDropped'
    BY <1>1, <2>1, DropsKept DEF IInv
  <2> QED
    BY <1>3, <2>4, <2>5, <2>6, <2>7, <2>8, Zenon DEF IInv
<1>5. CASE s \in Cumulative \ highest
  <2>1. /\ highest' = highest \cup {s} /\ idxType' = [idxType EXCEPT ![c] = i + 1]
        /\ pc' = [pc EXCEPT ![c] = AfterTypes(c, ingested[c])]
    BY <1>5, Zenon DEF ComputeDelta, highestWith
  <2>a. ingested[c] \in BOOLEAN
    BY <1>0, Zenon DEF TypeOK
  <2>2. /\ AfterTypes(c, ingested[c]) \in {"delta", "meta", "done"}
        /\ AfterTypes(c, ingested[c]) = "delta" => i + 1 <= Types(c)
        /\ AfterTypes(c, ingested[c]) = "meta" => ingested[c]
        /\ AfterTypes(c, ingested[c]) = "done" => ~ingested[c]
    BY Zenon, <1>0, <2>a, AfterTypesFacts
  <2>3. /\ pc' \in [Calls -> {AtTable(n) : n \in DOMAIN TableNames} \cup AfterTables]
        /\ pc'[c] = AfterTypes(c, ingested[c]) /\ pc'[c] \in AfterTables
        /\ idxType' \in [Calls -> Nat \ {0}] /\ idxType'[c] = i + 1
        /\ \A d \in Calls : d # c => pc'[d] = pc[d] /\ idxType'[d] = idxType[d]
    BY <1>0, <1>2, <2>1, <2>2 DEF TypeOK, AfterTables, InLoop
  <2>4. LoopStep(c) /\ \A k \in Nat : k < idxType[c] => k < idxType'[c]
    <3>1. \A k \in Nat : k < idxType[c] => k < idxType'[c]
      BY <1>2, <2>3
    <3> QED
      BY <1>0, <1>1, <2>3, <3>1, Zenon DEF LoopStep
  <2>5. /\ CallsGoOn /\ RewritesAreRows' /\ FlushProgress' /\ WrittenHasBefore'
        /\ \A d \in Calls : d # c => CallProgress(d)'
    BY Zenon, <1>1, <1>2, <2>4, LoopStepKeeps
  <2>6. CallProgress(c)'
    <3>1. /\ pc'[c] \in InLoop => idxType'[c] <= Types(c)
          /\ pc'[c] # "index" /\ (pc'[c] = "meta" => ingested'[c]) /\ (pc'[c] = "done" => ~ingested'[c])
      BY <1>1, <2>2, <2>3 DEF InLoop
    <3> QED
      BY Zenon, <2>4, <3>1, LoopProgress
  <2>7. TypeOK'
    <3>1. highest' \subseteq Cumulative
      BY <1>0, <1>5, <2>1, Zenon DEF TypeOK
    <3> QED
      BY <1>0, <1>1, <2>3, <3>1, Zenon DEF TypeOK, flushVars
  <2>8. IndexedIsStored'
    BY <1>1, <2>5, IndexKept
  <2>9. \A d \in Calls : Types(d)' = Types(d) /\ Types(d) \in Nat
    BY <1>0, <1>1, TypesStay, ProfileFacts
  <2>10. ASSUME NEW d \in Calls, NEW k \in 1..Types(d), Dropped(d, k)'
         PROVE  Dropped(d, k) \/ (d = c /\ k = i)
    <3>1. k \in Nat /\ k < idxType'[d] /\ \A x \in Indexed : x.id # <<d, k>>
      BY <1>2, <2>9, <2>10 DEF Dropped
    <3>2. k < idxType[d] \/ (d = c /\ k = i)
      BY <1>2, <2>3, <3>1
    <3> QED
      BY <3>1, <3>2, Zenon DEF Dropped
  <2>11. DroppedIsHighest'
    BY <1>1, <2>1, <2>9, <2>10, Zenon DEF IInv, DroppedIsHighest
  <2>12. OnlyFirstIsDropped'
    <3> SUFFICES ASSUME NEW d \in Calls, NEW e \in Calls, NEW k \in 1..Types(d), NEW l \in 1..Types(e),
                        Dropped(d, k)'
                 PROVE  /\ profile[d].series[k] \in Cumulative
                        /\ Dropped(e, l)' /\ profile[d].series[k] = profile[e].series[l]
                             => <<d, k>> = <<e, l>>
      BY SMTT(30), <1>1, <2>9 DEF OnlyFirstIsDropped
    <3>1. /\ Dropped(d, k) => profile[d].series[k] \in highest /\ profile[d].series[k] \in Cumulative
          /\ Dropped(e, l) => profile[e].series[l] \in highest
      <4>1. DroppedIsHighest /\ highest \subseteq Cumulative
        BY <1>0, Zenon DEF IInv, TypeOK
      <4> QED
        BY ONLY <4>1, d \in Calls, e \in Calls, k \in 1..Types(d), l \in 1..Types(e)
        DEF DroppedIsHighest
    <3>2. Dropped(d, k) \/ (d = c /\ k = i)
      BY <2>10
    <3>3. ASSUME Dropped(e, l)', profile[d].series[k] = profile[e].series[l]
          PROVE  <<d, k>> = <<e, l>>
      <4>1. Dropped(e, l) \/ (e = c /\ l = i)
        BY <2>10, <3>3
      <4>2. CASE Dropped(d, k) /\ Dropped(e, l)
        <5>1. OnlyFirstIsDropped
          BY DEF IInv
        <5> QED
          BY ONLY SMTT(30), <3>3, <4>2, <5>1, d \in Calls, e \in Calls, k \in 1..Types(d), l \in 1..Types(e)
          DEF OnlyFirstIsDropped
      <4>3. CASE (d = c /\ k = i) /\ (e = c /\ l = i)
        BY <4>3
      <4>4. CASE Dropped(d, k) /\ (e = c /\ l = i)
        BY <1>5, <3>1, <3>3, <4>4, Zenon
      <4>5. CASE (d = c /\ k = i) /\ Dropped(e, l)
        BY <1>5, <3>1, <3>3, <4>5, Zenon
      <4> QED
        BY <3>2, <4>1, <4>2, <4>3, <4>4, <4>5, Zenon
    <3> QED
      BY <1>5, <3>1, <3>2, <3>3, Zenon
  <2> QED
    BY <1>3, <2>5, <2>6, <2>7, <2>8, <2>11, <2>12, Zenon DEF IInv
<1> QED
  BY <1>4, <1>5

(* A profile is stored before it is indexed.                               *)
LEMMA IngestProfileIInv ==
    ASSUME IInv, NEW c \in Calls, IngestProfile(c)
    PROVE  IInv'
<1> DEFINE i == idxType[c]
           x == Stored(c, i)
<1>0. TypeOK /\ pc[c] = "profiles" /\ pc[c] \in InLoop /\ pc[c] \in AfterTables \ {"done"}
  BY DEF IInv, IngestProfile, InLoop, AfterTables
<1>1. /\ UNCHANGED <<table, highest, profilesPerFP, meta, totalSamples, profile,
                     rewrites, idxType, ingested, flushVars>>
      /\ profiles' = Append(profiles, x) /\ seriesIndex' = Put(seriesIndex, <<c, i>>, 0)
      /\ pc' = [pc EXCEPT ![c] = "index"]
  BY Zenon DEF IngestProfile
<1>2. x.id = <<c, i>>
  BY DEF Stored
<1> HIDE DEF x
<1>3. IsSeq(profiles') /\ Range(profiles') = Range(profiles) \cup {x}
  BY <1>0, <1>1, AppendFacts DEF TypeOK
<1>4. /\ DOMAIN seriesIndex' = DOMAIN seriesIndex \cup {<<c, i>>} /\ seriesIndex'[<<c, i>>] = 0
      /\ \A id \in DOMAIN seriesIndex : id # <<c, i>> => seriesIndex'[id] = seriesIndex[id]
  BY <1>1, Zenon DEF Put
<1>5. /\ pc' \in [Calls -> {AtTable(n) : n \in DOMAIN TableNames} \cup AfterTables]
      /\ pc'[c] = "index" /\ \A d \in Calls : d # c => pc'[d] = pc[d]
  BY <1>0, <1>1 DEF TypeOK, AfterTables, InLoop
<1>6. LoopStep(c)
  BY <1>0, <1>1, <1>5, Zenon DEF LoopStep, AfterTables, InLoop
<1>7. \A id \in DOMAIN seriesIndex : id[1] # c => seriesIndex'[id] = seriesIndex[id]
  BY <1>4
<1>8. Indexed' = Indexed
  BY <1>1, Zenon DEF Indexed
<1>9. /\ CallsGoOn /\ RewritesAreRows' /\ FlushProgress' /\ WrittenHasBefore'
      /\ \A d \in Calls : d # c => CallProgress(d)'
  BY Zenon, <1>1, <1>3, <1>4, <1>6, <1>7, <1>8, LoopStepKeeps
<1>10. CallProgress(c)'
  <2>1. idxType'[c] <= Types(c)
    BY <1>0, <1>1, Zenon DEF IInv, CallProgress
  <2>2. <<c, idxType'[c]>> \in DOMAIN seriesIndex' /\ Stored(c, idxType'[c]) \in Range(profiles')
    BY <1>1, <1>3, <1>4, Zenon DEF x
  <2>3. pc'[c] \notin {"meta", "done"}
    BY <1>5
  <2> QED
    BY <1>6, <2>1, <2>2, <2>3, LoopProgress
<1>11. TypeOK'
  <2>1. \A id \in DOMAIN seriesIndex' : seriesIndex'[id] \in Nat
    <3>1. \A id \in DOMAIN seriesIndex : seriesIndex[id] \in Nat
      BY <1>0, Zenon DEF TypeOK
    <3> QED
      BY <1>4, <3>1
  <2> QED
    BY <1>0, <1>1, <1>3, <1>5, <2>1, Zenon DEF TypeOK, flushVars
<1>12. IndexedIsStored'
  BY <1>1, <1>3, <1>4, <1>9, IndexKept
<1>13. ProfilesHaveIndex'
  BY <1>2, <1>3, <1>4, Zenon DEF IInv, ProfilesHaveIndex
<1>14. DroppedIsHighest' /\ OnlyFirstIsDropped'
  BY <1>1, DropsKept DEF IInv
<1> QED
  BY <1>9, <1>10, <1>11, <1>12, <1>13, <1>14, Zenon DEF IInv

(* A profile that was stored is indexed under its series.                  *)
LEMMA IndexAddIInv ==
    ASSUME IInv, NEW c \in Calls, IndexAdd(c)
    PROVE  IInv'
<1> DEFINE i == idxType[c]
           x == Stored(c, i)
           s == x.series
           seen == IF s \in DOMAIN profilesPerFP THEN profilesPerFP[s] ELSE <<>>
<1>0. TypeOK /\ pc[c] = "index" /\ pc[c] \in InLoop /\ pc[c] \in AfterTables \ {"done"}
  BY DEF IInv, IndexAdd, InLoop, AfterTables
<1>1. /\ UNCHANGED <<table, profiles, seriesIndex, highest, meta, totalSamples,
                     profile, rewrites, flushVars>>
      /\ profilesPerFP' = Put(profilesPerFP, s, Append(seen, x))
      /\ ingested' = [ingested EXCEPT ![c] = TRUE]
      /\ idxType' = [idxType EXCEPT ![c] = i + 1]
      /\ pc' = [pc EXCEPT ![c] = AfterTypes(c, TRUE)]
  BY DEF IndexAdd
<1>2. /\ i \in 1..Types(c) /\ i \in Nat
      /\ AfterTypes(c, TRUE) \in {"delta", "meta", "done"}
      /\ AfterTypes(c, TRUE) = "delta" => i + 1 <= Types(c)
      /\ AfterTypes(c, TRUE) # "done"
  BY Zenon, <1>0, AfterTypesFacts
<1>3. x.id = <<c, i>> /\ x.id[1] = c /\ s = profile[c].series[i]
  BY Zenon DEF Stored
<1>4. s \in Series /\ x \in Range(profiles) /\ x.id \in DOMAIN seriesIndex
  <2>1. x \in Range(profiles) /\ <<c, i>> \in DOMAIN seriesIndex
    BY <1>0, Zenon DEF IInv, CallProgress
  <2> QED
    BY <1>0, <1>2, <1>3, <2>1, ProfileFacts
<1> HIDE DEF x
<1>5. /\ pc' \in [Calls -> {AtTable(n) : n \in DOMAIN TableNames} \cup AfterTables]
      /\ pc'[c] = AfterTypes(c, TRUE) /\ pc'[c] \in AfterTables
      /\ idxType' \in [Calls -> Nat \ {0}] /\ idxType'[c] = i + 1
      /\ \A d \in Calls : d # c => pc'[d] = pc[d] /\ idxType'[d] = idxType[d]
  <2>1. AfterTypes(c, TRUE) \in AfterTables
    BY Zenon, <1>2 DEF AfterTables, InLoop
  <2>2. i + 1 \in Nat \ {0}
    BY <1>2
  <2> QED
    BY <1>0, <1>1, <2>1, <2>2, Zenon DEF TypeOK
<1>6. /\ ingested' \in [Calls -> BOOLEAN] /\ ingested'[c]
      /\ \A d \in Calls : d # c => ingested'[d] = ingested[d]
  BY <1>0, <1>1, Zenon DEF TypeOK
<1>7. IsSeq(seen) /\ \A y \in Range(seen) : s \in DOMAIN profilesPerFP /\ y \in Range(profilesPerFP[s])
  <2>1. CASE s \in DOMAIN profilesPerFP
    BY <1>0, <2>1, Zenon DEF TypeOK
  <2>2. CASE s \notin DOMAIN profilesPerFP
    <3>1. Range(<<>>) = {}
      BY DEF Range
    <3>2. IsSeq(<<>>)
      BY DEF IsSeq
    <3> QED
      BY <2>2, <3>1, <3>2, Zenon
  <2> QED
    BY <2>1, <2>2
<1>8. IsSeq(Append(seen, x)) /\ Range(Append(seen, x)) = Range(seen) \cup {x}
  BY <1>7, AppendFacts
<1>9. /\ DOMAIN profilesPerFP' = DOMAIN profilesPerFP \cup {s} /\ profilesPerFP'[s] = Append(seen, x)
      /\ \A u \in DOMAIN profilesPerFP : u # s => profilesPerFP'[u] = profilesPerFP[u]
  BY <1>1, Zenon DEF Put
<1>10. s \in DOMAIN profilesPerFP => Range(seen) = Range(profilesPerFP[s])
  BY Zenon
<1> HIDE DEF seen, s
<1>11. ASSUME NEW u \in DOMAIN profilesPerFP', NEW y \in Range(profilesPerFP'[u])
       PROVE  (u \in DOMAIN profilesPerFP /\ y \in Range(profilesPerFP[u])) \/ (u = s /\ y = x)
  <2>1. CASE u = s
    <3>1. y \in Range(seen) \/ y = x
      BY <1>8, <1>9, <1>11, <2>1, Zenon
    <3> QED
      BY <1>7, <2>1, <3>1, Zenon
  <2>2. CASE u # s
    BY <1>9, <1>11, <2>2, Zenon
  <2> QED
    BY <2>1, <2>2
<1>12. x \in Indexed' /\ Indexed \subseteq Indexed' /\ \A y \in Indexed' : y \in Indexed \/ y = x
  <2>1. \A y : y \in Indexed <=> \E u \in DOMAIN profilesPerFP : y \in Range(profilesPerFP[u])
    BY DEF Indexed
  <2>2. \A y : y \in Indexed' <=> \E u \in DOMAIN profilesPerFP' : y \in Range(profilesPerFP'[u])
    BY DEF Indexed
  <2>3. \A u \in DOMAIN profilesPerFP : Range(profilesPerFP[u]) \subseteq Range(profilesPerFP'[u])
    BY <1>8, <1>9, <1>10, Zenon
  <2>4. x \in Range(profilesPerFP'[s])
    BY <1>8, <1>9, Zenon
  <2> QED
    BY ONLY <1>9, <1>11, <2>1, <2>2, <2>3, <2>4, Zenon
<1>13. LoopStep(c) /\ \A k \in Nat : k < idxType[c] => k < idxType'[c]
  <2>1. \A k \in Nat : k < idxType[c] => k < idxType'[c]
    BY <1>2, <1>5
  <2> QED
    BY <1>0, <1>1, <1>5, <1>6, <2>1, Zenon DEF LoopStep
<1>14. /\ CallsGoOn /\ RewritesAreRows' /\ FlushProgress' /\ WrittenHasBefore'
       /\ \A d \in Calls : d # c => CallProgress(d)'
  <2>1. \A y \in Indexed' : y \in Indexed \/ y.id[1] = c
    BY <1>3, <1>12, Zenon
  <2> QED
    BY <1>1, <1>6, <1>13, <2>1, LoopStepKeeps
<1>15. CallProgress(c)'
  <2>1. /\ pc'[c] \in InLoop => idxType'[c] <= Types(c)
        /\ pc'[c] # "index" /\ ingested'[c] /\ pc'[c] # "done"
    BY Zenon, <1>2, <1>5, <1>6 DEF InLoop
  <2> QED
    BY Zenon, <1>13, <2>1, LoopProgress
<1>16. TypeOK'
  <2>1. DOMAIN profilesPerFP' \subseteq Series /\ IsFiniteSet(DOMAIN profilesPerFP')
    <3>1. DOMAIN profilesPerFP \subseteq Series /\ IsFiniteSet(DOMAIN profilesPerFP)
      BY <1>0, Zenon DEF TypeOK
    <3>2. IsFiniteSet(DOMAIN profilesPerFP \cup {s})
      BY <3>1, FS_AddElement
    <3> QED
      BY <1>4, <1>9, <3>1, <3>2, Zenon
  <2>2. \A u \in DOMAIN profilesPerFP' : IsSeq(profilesPerFP'[u])
    BY <1>0, <1>8, <1>9, Zenon DEF TypeOK
  <2> QED
    BY <1>0, <1>1, <1>5, <1>6, <2>1, <2>2, Zenon DEF TypeOK, flushVars
<1>17. ProfilesHaveIndex'
  BY <1>1, Zenon DEF IInv, ProfilesHaveIndex
<1>18. \A d \in Calls : Types(d)' = Types(d) /\ Types(d) \in Nat
  BY <1>0, <1>1, TypesStay, ProfileFacts
<1>19. \A d \in Calls : \A k : Stored(d, k)' = Stored(d, k)
  BY <1>1, Zenon DEF Stored, rewriteString
<1>20. IndexedIsStored'
  <2> SUFFICES ASSUME NEW u \in DOMAIN profilesPerFP', NEW y \in Range(profilesPerFP'[u])
               PROVE  /\ y.series = u /\ y \in Range(profiles') /\ y.id \in DOMAIN seriesIndex'
                      /\ \E d \in Calls : \E k \in 1..Types(d)' :
                            /\ pc'[d] \in AfterTables /\ ingested'[d]
                            /\ y = Stored(d, k)' /\ k < idxType'[d]
    BY Zenon DEF IndexedIsStored
  <2>1. CASE u = s /\ y = x
    <3>0. PICK k \in 1..Types(c) : k = i
      BY <1>2
    <3>1. k < idxType'[c] /\ k \in 1..Types(c)'
      BY SMTT(30), <1>2, <1>5, <1>18, <3>0
    <3>3. x = Stored(c, k)'
      BY <1>19, <3>0, Zenon DEF x
    <3>2. y.series = u
      BY <2>1 DEF s
    <3> QED
      BY <1>1, <1>4, <1>5, <1>6, <2>1, <3>1, <3>2, <3>3, Zenon
  <2>2. CASE u \in DOMAIN profilesPerFP /\ y \in Range(profilesPerFP[u])
    <3>1. /\ y.series = u /\ y \in Range(profiles) /\ y.id \in DOMAIN seriesIndex
          /\ \E d \in Calls : \E k \in 1..Types(d) :
                pc[d] \in AfterTables /\ ingested[d] /\ y = Stored(d, k) /\ k < idxType[d]
      BY <2>2 DEF IInv, IndexedIsStored
    <3>2. PICK d \in Calls : \E k \in 1..Types(d) :
                pc[d] \in AfterTables /\ ingested[d] /\ y = Stored(d, k) /\ k < idxType[d]
      BY <3>1
    <3>3. PICK k \in 1..Types(d) :
                pc[d] \in AfterTables /\ ingested[d] /\ y = Stored(d, k) /\ k < idxType[d]
      BY <3>2
    <3>4. k \in Nat /\ k \in 1..Types(d)'
      BY <1>18
    <3>5. pc'[d] \in AfterTables /\ ingested'[d] /\ k < idxType'[d]
      BY <1>14, <3>3, <3>4, Zenon DEF CallsGoOn
    <3> QED
      BY <1>1, <1>19, <3>1, <3>3, <3>4, <3>5, Zenon
  <2> QED
    BY <1>11, <2>1, <2>2
<1>21. ASSUME NEW d \in Calls, NEW k \in 1..Types(d), Dropped(d, k)'
       PROVE  Dropped(d, k)
  <2>1. k \in Nat /\ k < idxType'[d] /\ \A y \in Indexed' : y.id # <<d, k>>
    BY <1>18, <1>21 DEF Dropped
  <2>2. <<d, k>> # <<c, i>>
    BY <1>3, <1>12, <2>1, Zenon
  <2>3. k < idxType[d]
    <3>1. CASE d = c
      <4>1. k # i
        BY <2>2, <3>1
      <4> QED
        BY SMTT(30), <1>2, <1>5, <2>1, <3>1, <4>1
    <3>2. CASE d # c
      BY <1>5, <2>1, <3>2, Zenon
    <3> QED
      BY Zenon, <3>1, <3>2
  <2> QED
    BY <1>12, <2>1, <2>3, Zenon DEF Dropped
<1>22. DroppedIsHighest'
  BY <1>1, <1>18, <1>21, Zenon DEF IInv, DroppedIsHighest
<1>23. OnlyFirstIsDropped'
  <2>1. OnlyFirstIsDropped /\ profile' = profile
    BY <1>1, Zenon DEF IInv
  <2> SUFFICES ASSUME NEW d \in Calls, NEW e \in Calls, NEW k \in 1..Types(d), NEW l \in 1..Types(e),
                      Dropped(d, k)'
               PROVE  /\ profile[d].series[k] \in Cumulative
                      /\ Dropped(e, l)' /\ profile[d].series[k] = profile[e].series[l]
                           => <<d, k>> = <<e, l>>
    BY SMTT(30), <1>18, <2>1 DEF OnlyFirstIsDropped
  <2>2. Dropped(d, k) /\ (Dropped(e, l)' => Dropped(e, l))
    BY Zenon, <1>21
  <2> QED
    BY ONLY SMTT(30), <2>1, <2>2, d \in Calls, e \in Calls, k \in 1..Types(d), l \in 1..Types(e)
    DEF OnlyFirstIsDropped
<1> QED
  BY <1>14, <1>15, <1>16, <1>17, <1>20, <1>22, <1>23, Zenon DEF IInv

(* The range of meta only grows, and covers the call that updated it.      *)
LEMMA UpdateMetaIInv ==
    ASSUME IInv, NEW c \in Calls, UpdateMeta(c)
    PROVE  IInv'
<1>0. TypeOK /\ pc[c] = "meta" /\ pc[c] \in AfterTables \ {"done"}
  BY DEF IInv, UpdateMeta, AfterTables
<1>1. /\ UNCHANGED <<table, profiles, seriesIndex, highest, profilesPerFP,
                     profile, rewrites, idxType, ingested, flushVars>>
      /\ meta' = metaWith(profile[c].time) /\ totalSamples' = totalSamples + SampleSize
      /\ pc' = [pc EXCEPT ![c] = "done"]
  BY Zenon DEF UpdateMeta
<1>2. /\ pc' \in [Calls -> {AtTable(n) : n \in DOMAIN TableNames} \cup AfterTables]
      /\ pc'[c] = "done" /\ \A d \in Calls : d # c => pc'[d] = pc[d]
  BY Zenon, <1>0, <1>1 DEF TypeOK, AfterTables, InLoop
<1>3. /\ meta \in [min : 1..MaxTimestamp, max : 0..MaxTimestamp] /\ MaxTimestamp \in Nat
      /\ \A d \in Calls : profile[d].time \in 1..(MaxTimestamp - 1)
  BY Zenon, <1>0, ProfileFacts, ConstantsAssumption DEF TypeOK
<1>4. /\ meta' \in [min : 1..MaxTimestamp, max : 0..MaxTimestamp] /\ Covers(meta', profile[c].time)
      /\ \A d \in Calls : Covers(meta, profile[d].time) => Covers(meta', profile[d].time)
  BY ONLY SMTT(30), <1>1, <1>3, c \in Calls DEF metaWith, Covers
<1>5. LoopStep(c)
  BY <1>0, <1>1, <1>2, Zenon DEF LoopStep, AfterTables
<1>6. Indexed' = Indexed
  BY <1>1, Zenon DEF Indexed
<1>7. /\ CallsGoOn /\ RewritesAreRows' /\ FlushProgress' /\ WrittenHasBefore'
      /\ \A d \in Calls : d # c => CallProgress(d)'
  BY <1>1, <1>4, <1>5, <1>6, LoopStepKeeps
<1>8. CallProgress(c)'
  <2>1. pc'[c] \notin InLoop /\ pc'[c] \notin {"index", "meta"}
    BY <1>2 DEF InLoop
  <2> QED
    BY Zenon, <1>4, <1>5, <2>1, LoopProgress
<1>9. TypeOK'
  <2>1. totalSamples' \in Nat
    <3>1. totalSamples \in Nat
      BY <1>0, Zenon DEF TypeOK
    <3>2. SampleSize \in Nat /\ totalSamples' = totalSamples + SampleSize
      BY <1>1, ConstantsAssumption, Zenon
    <3> QED
      BY ONLY <3>1, <3>2
  <2> QED
    BY <1>0, <1>1, <1>2, <1>4, <2>1, Zenon DEF TypeOK, flushVars
<1>10. IndexedIsStored'
  BY <1>1, <1>7, IndexKept
<1>11. ProfilesHaveIndex'
  BY <1>1, Zenon DEF IInv, ProfilesHaveIndex
<1>12. DroppedIsHighest' /\ OnlyFirstIsDropped'
  BY <1>1, DropsKept DEF IInv
<1> QED
  BY <1>7, <1>8, <1>9, <1>10, <1>11, <1>12, Zenon DEF IInv

-----------------------------------------------------------------------------
(* Ranges and positions *)

(* A set of numbers has a least element.                                   *)
LEMMA LeastExists ==
    ASSUME NEW S \in SUBSET Nat, S # {}
    PROVE  \E m \in S : \A y \in S : m <= y
<1> DEFINE R == OpToRel(<, Nat)
<1>1. IsWellFoundedOn(R, Nat)
  BY NatLessThanWellFounded, Zenon
<1>2. \A x \in Nat, y \in Nat : y < x => <<y, x>> \in R
  BY DEF OpToRel
<1> HIDE DEF R
<1>3. PICK x \in S : \A y \in S : <<y, x>> \notin R
  BY Zenon, <1>1, WFMin
<1>4. \A y \in S : ~(y < x) /\ y \in Nat /\ x \in Nat
  BY Zenon, <1>2, <1>3
<1> QED
  BY <1>4

(* A bounded set of numbers has a greatest element.                        *)
LEMMA GreatestExists ==
    ASSUME NEW M \in Nat, NEW S \in SUBSET (1..M), S # {}
    PROVE  \E m \in S : \A y \in S : m >= y
<1> DEFINE D == {M - y : y \in S}
<1>1. D \in SUBSET Nat /\ D # {}
  <2>1. \A y \in S : M - y \in Nat
    OBVIOUS
  <2> QED
    BY <2>1, Zenon
<1>2. PICK d \in D : \A e \in D : d <= e
  <2> HIDE DEF D
  <2> QED
    BY <1>1, LeastExists
<1>3. PICK m \in S : d = M - m
  OBVIOUS
<1>4. \A y \in S : d <= M - y
  BY <1>2
<1> QED
  BY <1>3, <1>4

(* The range of a series covers the times of its profiles.                 *)
LEMMA RangeCovers ==
    ASSUME NEW ps, NEW M \in Nat, \A p \in Range(ps) : p.time \in 1..M, NEW x \in Range(ps)
    PROVE  Covers(minmax(ps), x.time)
<1> DEFINE S == {p.time : p \in Range(ps)}
<1>1. S \in SUBSET (1..M) /\ S \in SUBSET Nat /\ x.time \in S
  OBVIOUS
<1>2. minmax(ps) = [min |-> Minimum(S), max |-> Maximum(S)]
  BY Zenon DEF minmax
<1> HIDE DEF S
<1>3. \A y \in S : Minimum(S) <= y
  <2>1. \E m \in S : \A y \in S : m <= y
    BY <1>1, LeastExists
  <2> QED
    BY <2>1, Zenon DEF Minimum
<1>4. \A y \in S : Maximum(S) >= y
  <2>1. \E m \in S : \A y \in S : m >= y
    BY Zenon, <1>1, GreatestExists
  <2> QED
    BY <2>1, Zenon DEF Maximum
<1>5. Maximum(S) \in S
  <2>1. \E m \in S : \A y \in S : m >= y
    BY Zenon, <1>1, GreatestExists
  <2> QED
    BY <2>1, Zenon DEF Maximum
<1> QED
  BY <1>1, <1>2, <1>3, <1>4, <1>5 DEF Covers

(* Two series have different positions.                                    *)
LEMMA RanksDiffer ==
    ASSUME TypeOK, NEW s \in DOMAIN profilesPerFP, NEW u \in DOMAIN profilesPerFP
    PROVE  rank(s) \in Nat /\ (rank(s) = rank(u) => s = u)
<1> DEFINE D == DOMAIN profilesPerFP
           Below(x) == {y \in D : y < x}
<1>1. D \subseteq Nat /\ IsFiniteSet(D)
  BY DEF TypeOK, Series
<1>2. ASSUME NEW x \in D PROVE IsFiniteSet(Below(x)) /\ rank(x) = Cardinality(Below(x)) /\ rank(x) \in Nat
  <2>1. IsFiniteSet(Below(x))
    BY <1>1, FS_Subset
  <2>2. Cardinality(Below(x)) \in Nat
    BY <2>1, FS_CardinalityType
  <2> QED
    BY <2>1, <2>2 DEF rank
<1>3. ASSUME NEW x \in D, NEW y \in D, x < y PROVE rank(x) # rank(y)
  <2>1. Below(x) \subseteq Below(y) /\ x \in Below(y) /\ x \notin Below(x)
    BY <1>1, <1>3
  <2> HIDE DEF Below
  <2>2. Cardinality(Below(x)) # Cardinality(Below(y))
    BY <1>2, <2>1, FS_Subset
  <2> QED
    BY <1>2, <2>2
<1>4. s < u \/ u < s \/ s = u
  BY <1>1
<1> QED
  BY Zenon, <1>2, <1>3, <1>4

-----------------------------------------------------------------------------
(* The steps of Flush *)

(* Flush leaves the calls, the tables and the index as they are.           *)
LEMMA FlushStepKeeps ==
    ASSUME IInv, UNCHANGED <<table, profiles, highest, profilesPerFP, meta, totalSamples, callVars>>,
           DOMAIN seriesIndex' = DOMAIN seriesIndex
    PROVE  /\ \A c \in Calls : CallProgress(c)'
           /\ RewritesAreRows' /\ IndexedIsStored' /\ ProfilesHaveIndex'
           /\ DroppedIsHighest' /\ OnlyFirstIsDropped'
<1>1. UNCHANGED <<pc, profile, rewrites, idxType, ingested>>
  BY Zenon DEF callVars
<1>2. \A c \in Calls : CallProgress(c)'
  BY <1>1, CallKept DEF IInv
<1>3. RewritesAreRows'
  <2>1. RewritesAreRows
    BY DEF IInv
  <2> QED
    BY ONLY <1>1, <2>1, table' = table, Zenon DEF RewritesAreRows
<1>4. CallsGoOn
  BY <1>1, Zenon DEF CallsGoOn
<1>5. IndexedIsStored'
  BY <1>4, IndexKept
<1>6. ProfilesHaveIndex'
  BY Zenon DEF IInv, ProfilesHaveIndex
<1>7. DroppedIsHighest' /\ OnlyFirstIsDropped'
  BY <1>1, DropsKept DEF IInv
<1> QED
  BY Zenon, <1>2, <1>3, <1>5, <1>6, <1>7

(* The types after a step of Flush.                                        *)
LEMMA FlushStepTypes ==
    ASSUME TypeOK, UNCHANGED <<table, profiles, highest, profilesPerFP, meta, totalSamples, callVars>>,
           \A id \in DOMAIN seriesIndex' : seriesIndex'[id] \in Nat,
           flushPc' \in Tables \cup {"idle", "removed", "index", "profiles", "meta",
                                     "rename", "failed", "done"},
           before' \subseteq Calls, DOMAIN block' \subseteq Tables \cup {"index", "profiles", "meta"}
    PROVE  TypeOK'
<1>1. UNCHANGED <<pc, profile, rewrites, idxType, ingested>>
  BY Zenon DEF callVars
<1> QED
  BY <1>1, Zenon DEF TypeOK

(* What a flush wrote has the returned calls after it wrote another file   *)
(* that has them.                                                          *)
LEMMA FileWritten ==
    ASSUME IInv, UNCHANGED <<headVars, callVars, before>>, NEW f, NEW v,
           block' = Put(block, f, v), f # "index",
           f \in Tables => \A c \in before : HasRows(v, profile[c], rewrites[c], f),
           f = "profiles" => \A x \in FromBefore :
               [profile |-> x, seriesIndex |-> seriesIndex[x.id]] \in v,
           f = "meta" => \A x \in FromBefore : Covers(v.range, x.time)
    PROVE  WrittenHasBefore'
<1>1. /\ profile' = profile /\ rewrites' = rewrites /\ seriesIndex' = seriesIndex
      /\ profilesPerFP' = profilesPerFP /\ before' = before
  BY Zenon DEF headVars, callVars
<1>2. FromBefore' = FromBefore
  BY <1>1, Zenon DEF FromBefore, Indexed
<1>3. /\ DOMAIN block' = DOMAIN block \cup {f} /\ block'[f] = v
      /\ \A g \in DOMAIN block : g # f => block'[g] = block[g]
  BY Zenon DEF Put
<1>4. \A t \in DOMAIN block \cap Tables : \A d \in before :
         HasRows(block[t], profile[d], rewrites[d], t)
  BY Zenon DEF IInv, WrittenHasBefore
<1>5. ASSUME NEW t \in DOMAIN block' \cap Tables, NEW d \in before'
      PROVE  HasRows(block'[t], profile'[d], rewrites'[d], t)
  <2>1. CASE t = f
    BY <1>1, <1>3, <1>5, <2>1, Zenon
  <2>2. CASE t # f
    BY <1>1, <1>3, <1>4, <1>5, <2>2, Zenon
  <2> QED
    BY <2>1, <2>2
<1>6. /\ "index" \in DOMAIN block =>
            /\ \A s, u \in DOMAIN block["index"] :
                  block["index"][s].pos = block["index"][u].pos => s = u
            /\ \A x \in FromBefore :
                  /\ x.series \in DOMAIN block["index"]
                  /\ block["index"][x.series].pos = seriesIndex[x.id]
                  /\ Covers(block["index"][x.series].range, x.time)
      /\ "profiles" \in DOMAIN block => \A x \in FromBefore :
            [profile |-> x, seriesIndex |-> seriesIndex[x.id]] \in block["profiles"]
      /\ "meta" \in DOMAIN block => \A x \in FromBefore : Covers(block["meta"].range, x.time)
  BY Zenon DEF IInv, WrittenHasBefore
<1>7. "index" \in DOMAIN block' =>
            /\ \A s, u \in DOMAIN block'["index"] :
                  block'["index"][s].pos = block'["index"][u].pos => s = u
            /\ \A x \in FromBefore' :
                  /\ x.series \in DOMAIN block'["index"]
                  /\ block'["index"][x.series].pos = seriesIndex'[x.id]
                  /\ Covers(block'["index"][x.series].range, x.time)
  <2> HAVE "index" \in DOMAIN block'
  <2>1. "index" \in DOMAIN block /\ block'["index"] = block["index"]
    BY <1>3, Zenon
  <2> QED
    BY ONLY <1>1, <1>2, <1>6, <2>1, Zenon
<1>8. "profiles" \in DOMAIN block' => \A x \in FromBefore' :
            [profile |-> x, seriesIndex |-> seriesIndex'[x.id]] \in block'["profiles"]
  <2>1. CASE f = "profiles"
    BY <1>1, <1>2, <1>3, <2>1, Zenon
  <2>2. CASE f # "profiles"
    BY <1>1, <1>2, <1>3, <1>6, <2>2, Zenon
  <2> QED
    BY Zenon, <2>1, <2>2
<1>9. "meta" \in DOMAIN block' => \A x \in FromBefore' : Covers(block'["meta"].range, x.time)
  <2>1. CASE f = "meta"
    BY <1>2, <1>3, <2>1, Zenon
  <2>2. CASE f # "meta"
    BY <1>2, <1>3, <1>6, <2>2, Zenon
  <2> QED
    BY <2>1, <2>2
<1>10. \A t \in DOMAIN block' \cap Tables : \A d \in before' :
         HasRows(block'[t], profile'[d], rewrites'[d], t)
  BY <1>5
<1> QED
  BY ONLY <1>7, <1>8, <1>9, <1>10, Zenon DEF WrittenHasBefore

(* A flush that has written nothing, or given up what it wrote.            *)
LEMMA NothingWritten ==
    ASSUME DOMAIN block' = {}
    PROVE  WrittenHasBefore'
BY Zenon DEF WrittenHasBefore

(* A flush begins: nothing is written, and the calls that have returned    *)
(* take no more steps.                                                     *)
LEMMA FlushBeginIInv ==
    ASSUME IInv, FlushEmpty \/ FlushBegin
    PROVE  IInv'
<1>1. /\ UNCHANGED <<table, profiles, seriesIndex, highest, profilesPerFP, meta, totalSamples, callVars>>
      /\ flushPc = "idle" /\ flushPc' \in {"removed", "index"} /\ block' = block
      /\ before' = {c \in Calls : pc[c] = "done"}
  BY Zenon DEF FlushEmpty, FlushBegin, headVars
<1>2. TypeOK /\ FlushProgress /\ pc' = pc
  BY <1>1, Zenon DEF IInv, callVars
<1>3. DOMAIN block' = {}
  BY <1>1, <1>2, Zenon DEF FlushProgress
<1>4. TypeOK'
  <2>1. \A id \in DOMAIN seriesIndex' : seriesIndex'[id] \in Nat
    BY <1>1, <1>2, Zenon DEF TypeOK
  <2>2. before' \subseteq Calls
    BY <1>1, Zenon
  <2> QED
    BY <1>1, <1>2, <1>3, <2>1, <2>2, FlushStepTypes
<1>5. FlushProgress'
  <2>1. \A n \in DOMAIN TableNames : flushPc' # TableNames[n]
    BY <1>1, NamesDiffer, Zenon
  <2>2. \A c \in before' : pc'[c] = "done"
    BY <1>1, <1>2, Zenon
  <2>3. flushPc' \notin {"idle", "profiles", "meta", "rename", "done"}
    BY <1>1
  <2> QED
    BY <1>3, <2>1, <2>2, <2>3, Zenon DEF FlushProgress
<1> QED
  BY <1>1, <1>3, <1>4, <1>5, FlushStepKeeps, NothingWritten, Zenon DEF IInv

(* The index that is written has the series of the profiles of the calls   *)
(* that have returned, each at its position.                               *)
LEMMA WriteToIInv ==
    ASSUME IInv, WriteTo
    PROVE  IInv'
<1> DEFINE ix == [s \in DOMAIN profilesPerFP |->
                    [pos |-> rank(s), range |-> minmax(profilesPerFP[s])]]
           IsIndexed(id) == \E s \in DOMAIN profilesPerFP :
                               \E p \in Range(profilesPerFP[s]) : p.id = id
<1>1. /\ UNCHANGED <<table, profiles, highest, profilesPerFP, meta, totalSamples, callVars>>
      /\ flushPc = "index" /\ flushPc' = TableNames[1] /\ before' = before
      /\ block' = Put(block, "index", ix)
      /\ seriesIndex' = [id \in DOMAIN seriesIndex |->
                           IF IsIndexed(id) THEN rank(profile[id[1]].series[id[2]])
                           ELSE seriesIndex[id]]
  BY Zenon DEF WriteTo
<1>2. /\ TypeOK /\ FlushProgress /\ IndexedIsStored /\ pc' = pc
      /\ profile' = profile /\ rewrites' = rewrites
  BY <1>1, Zenon DEF IInv, callVars
<1>3. DOMAIN block' = {"index"} /\ block'["index"] = ix
  <2>1. DOMAIN block = {}
    BY <1>1, <1>2, Zenon DEF FlushProgress
  <2> QED
    BY <1>1, <2>1, Zenon DEF Put
<1>4. ASSUME NEW s \in DOMAIN profilesPerFP, NEW x \in Range(profilesPerFP[s])
      PROVE  /\ x.series = s /\ x.id \in DOMAIN seriesIndex /\ x.time \in 1..(MaxTimestamp - 1)
             /\ profile[x.id[1]].series[x.id[2]] = s
  <2>1. /\ x.series = s /\ x.id \in DOMAIN seriesIndex
        /\ \E c \in Calls : \E k \in 1..Types(c) : x = Stored(c, k)
    BY <1>2 DEF IndexedIsStored
  <2>2. PICK c \in Calls : \E k \in 1..Types(c) : x = Stored(c, k)
    BY <2>1
  <2>3. PICK k \in 1..Types(c) : x = Stored(c, k)
    BY Zenon, <2>2
  <2>4. x.id[1] = c /\ x.id[2] = k /\ x.series = profile[c].series[k] /\ x.time = profile[c].time
    BY ONLY <2>3 DEF Stored
  <2> QED
    BY Zenon, <1>2, <2>1, <2>4, ProfileFacts
<1>5. \A id \in DOMAIN seriesIndex : IsIndexed(id) => profile[id[1]].series[id[2]] \in DOMAIN profilesPerFP
  BY <1>4, Zenon
<1>6. DOMAIN seriesIndex' = DOMAIN seriesIndex
  BY <1>1, Zenon
<1>7. TypeOK'
  <2>1. ASSUME NEW id \in DOMAIN seriesIndex' PROVE seriesIndex'[id] \in Nat
    <3>1. CASE IsIndexed(id)
      <4>1. seriesIndex'[id] = rank(profile[id[1]].series[id[2]])
        BY <1>1, <1>6, <2>1, <3>1, Zenon
      <4> QED
        BY <1>2, <1>5, <1>6, <2>1, <3>1, <4>1, RanksDiffer
    <3>2. CASE ~IsIndexed(id)
      <4>1. seriesIndex'[id] = seriesIndex[id]
        BY <1>1, <1>6, <2>1, <3>2, Zenon
      <4> QED
        BY <1>2, <1>6, <2>1, <4>1, Zenon DEF TypeOK
    <3> QED
      BY Zenon, <3>1, <3>2
  <2>2. flushPc' \in Tables
    BY <1>1, Names
  <2>3. before' \subseteq Calls
    BY <1>1, <1>2, Zenon DEF TypeOK
  <2>4. DOMAIN block' \subseteq Tables \cup {"index", "profiles", "meta"}
    BY <1>3
  <2> QED
    BY Zenon, <1>1, <1>2, <2>1, <2>2, <2>3, <2>4, FlushStepTypes
<1>8. FlushProgress'
  <2>1. \A n \in DOMAIN TableNames : flushPc' = TableNames[n] => n = 1
    BY SMTT(30), <1>1, Names, NamesDiffer
  <2>2. DOMAIN block' = {"index"} \cup Earlier(1)
    BY <1>3, EarlierTables, Zenon
  <2>3. flushPc' \notin {"idle", "removed", "index", "failed", "profiles", "meta", "rename", "done"}
    BY <1>1, Names
  <2>4. \A c \in before' : pc'[c] = "done"
    BY <1>1, <1>2, Zenon DEF FlushProgress
  <2> QED
    BY <2>1, <2>2, <2>3, <2>4, Zenon DEF FlushProgress
<1>9. FromBefore' = FromBefore
  BY <1>1, Zenon DEF FromBefore, Indexed
<1>10. \A s, u \in DOMAIN block'["index"] : block'["index"][s].pos = block'["index"][u].pos => s = u
  <2> SUFFICES ASSUME NEW s \in DOMAIN profilesPerFP, NEW u \in DOMAIN profilesPerFP, ix[s].pos = ix[u].pos
               PROVE  s = u
    BY <1>3, Zenon
  <2>1. rank(s) = rank(u)
    OBVIOUS
  <2> QED
    BY <1>2, <2>1, RanksDiffer
<1>11. ASSUME NEW x \in FromBefore
       PROVE  /\ x.series \in DOMAIN block'["index"]
              /\ block'["index"][x.series].pos = seriesIndex'[x.id]
              /\ Covers(block'["index"][x.series].range, x.time)
  <2>1. PICK s \in DOMAIN profilesPerFP : x \in Range(profilesPerFP[s])
    BY <1>11 DEF FromBefore, Indexed
  <2>2. /\ x.series = s /\ x.id \in DOMAIN seriesIndex /\ profile[x.id[1]].series[x.id[2]] = s
    BY <1>4, <2>1
  <2>3. seriesIndex'[x.id] = rank(s)
    <3>1. IsIndexed(x.id)
      BY <2>1, Zenon
    <3> QED
      BY <1>1, <2>2, <3>1, Zenon
  <2>4. ix[s].pos = rank(s) /\ ix[s].range = minmax(profilesPerFP[s])
    BY <2>1
  <2>5. Covers(minmax(profilesPerFP[s]), x.time)
    <3>1. \A y \in Range(profilesPerFP[s]) : y.time \in 1..(MaxTimestamp - 1)
      BY <1>4, <2>1
    <3>2. MaxTimestamp \in Nat
      BY ConstantsAssumption
    <3>3. \A y \in Range(profilesPerFP[s]) : y.time \in 1..MaxTimestamp
      BY <3>1, <3>2
    <3> QED
      BY <2>1, <3>2, <3>3, RangeCovers
  <2> QED
    BY <1>3, <2>1, <2>2, <2>3, <2>4, <2>5, Zenon
<1>12. WrittenHasBefore'
  <2>1. DOMAIN block' \cap Tables = {} /\ "profiles" \notin DOMAIN block' /\ "meta" \notin DOMAIN block'
    BY <1>3, Names
  <2>2. \A x \in FromBefore' :
              /\ x.series \in DOMAIN block'["index"]
              /\ block'["index"][x.series].pos = seriesIndex'[x.id]
              /\ Covers(block'["index"][x.series].range, x.time)
    BY <1>9, <1>11
  <2> QED
    BY ONLY <1>10, <2>1, <2>2, Zenon DEF WrittenHasBefore
<1> QED
  BY <1>1, <1>6, <1>7, <1>8, <1>12, FlushStepKeeps, Zenon DEF IInv

(* A table that is written has the elements of the calls that had          *)
(* returned.                                                               *)
LEMMA FlushTableIInv ==
    ASSUME IInv, FlushTable
    PROVE  IInv'
<1>1. PICK n \in DOMAIN TableNames :
        /\ flushPc = TableNames[n]
        /\ block' = Put(block, TableNames[n], table[TableNames[n]])
        /\ flushPc' = IF n < Len(TableNames) THEN TableNames[n + 1] ELSE "profiles"
        /\ UNCHANGED <<headVars, callVars, before>>
  BY Zenon DEF FlushTable
<1> DEFINE t == TableNames[n]
<1>2. /\ UNCHANGED <<table, profiles, seriesIndex, highest, profilesPerFP, meta, totalSamples, callVars>>
      /\ before' = before /\ pc' = pc
  BY <1>1, Zenon DEF headVars, callVars
<1>3. TypeOK /\ FlushProgress /\ RewritesAreRows
  BY Zenon DEF IInv
<1>4. /\ t \in Tables /\ Earlier(n) \subseteq Tables
      /\ n < Len(TableNames) => n + 1 \in DOMAIN TableNames /\ Earlier(n + 1) = Earlier(n) \cup {t}
      /\ ~(n < Len(TableNames)) => Tables = Earlier(n) \cup {t}
  BY NextTable
<1>5. DOMAIN block' = {"index"} \cup Earlier(n) \cup {t}
  <2>1. DOMAIN block = {"index"} \cup Earlier(n)
    BY <1>1, <1>3, Zenon DEF FlushProgress
  <2> QED
    BY <1>1, <2>1, Zenon DEF Put
<1>6. flushPc' \in Tables \cup {"profiles"}
  BY <1>1, <1>4, NextTable, Zenon
<1>7. TypeOK'
  <2>1. \A id \in DOMAIN seriesIndex' : seriesIndex'[id] \in Nat
    BY <1>2, <1>3, Zenon DEF TypeOK
  <2>2. before' \subseteq Calls
    BY <1>2, <1>3, Zenon DEF TypeOK
  <2>3. DOMAIN block' \subseteq Tables \cup {"index", "profiles", "meta"}
    BY <1>4, <1>5, Zenon
  <2> QED
    BY <1>2, <1>3, <1>6, <2>1, <2>2, <2>3, FlushStepTypes
<1>8. FlushProgress'
  <2>1. \A c \in before' : pc'[c] = "done"
    BY <1>2, <1>3, Zenon DEF FlushProgress
  <2>2. CASE n < Len(TableNames)
    <3>1. flushPc' = TableNames[n + 1] /\ n + 1 \in DOMAIN TableNames
      BY <1>1, <1>4, <2>2, Zenon
    <3>2. \A m \in DOMAIN TableNames : flushPc' = TableNames[m] => m = n + 1
      BY <3>1, NamesDiffer, Zenon
    <3>3. flushPc' \notin {"idle", "removed", "index", "failed", "profiles", "meta", "rename", "done"}
      BY <3>1, NamesDiffer, Zenon
    <3>4. DOMAIN block' = {"index"} \cup Earlier(n + 1)
      BY <1>4, <1>5, <2>2, Zenon
    <3> QED
      BY <2>1, <3>2, <3>3, <3>4, Zenon DEF FlushProgress
  <2>3. CASE ~(n < Len(TableNames))
    <3>1. flushPc' = "profiles" /\ DOMAIN block' = {"index"} \cup Tables
      BY <1>1, <1>4, <1>5, <2>3, Zenon
    <3>2. \A m \in DOMAIN TableNames : flushPc' # TableNames[m]
      BY <3>1, NamesDiffer, Zenon
    <3>3. flushPc' \notin {"idle", "removed", "index", "failed", "meta", "rename", "done"}
      BY Zenon, <3>1
    <3> QED
      BY <2>1, <3>1, <3>2, <3>3, Zenon DEF FlushProgress
  <2> QED
    BY <2>2, <2>3
<1>9. WrittenHasBefore'
  <2>1. ASSUME NEW c \in before PROVE HasRows(table[t], profile[c], rewrites[c], t)
    <3>1. c \in Calls /\ pc[c] = "done"
      BY <1>3, Zenon DEF FlushProgress, TypeOK
    <3>2. DOMAIN rewrites[c] = Tables
      BY <3>1, Zenon DEF IInv, CallProgress, AfterTables
    <3> QED
      BY <1>3, <1>4, <3>1, <3>2, Zenon DEF RewritesAreRows
  <2>2. t # "index" /\ t # "profiles" /\ t # "meta"
    BY NamesDiffer
  <2> QED
    BY <1>1, <2>1, <2>2, FileWritten
<1> QED
  BY <1>2, <1>7, <1>8, <1>9, FlushStepKeeps, Zenon DEF IInv

(* The profiles that are written have the position they were given.        *)
LEMMA FlushProfilesIInv ==
    ASSUME IInv, FlushProfiles
    PROVE  IInv'
<1> DEFINE v == {[profile |-> p, seriesIndex |-> seriesIndex[p.id]] : p \in Range(profiles)}
<1>1. /\ flushPc = "profiles" /\ flushPc' = "meta" /\ block' = Put(block, "profiles", v)
      /\ UNCHANGED <<headVars, callVars, before>>
  BY Zenon DEF FlushProfiles
<1>2. /\ UNCHANGED <<table, profiles, seriesIndex, highest, profilesPerFP, meta, totalSamples, callVars>>
      /\ before' = before /\ pc' = pc
  BY <1>1, Zenon DEF headVars, callVars
<1>3. TypeOK /\ FlushProgress /\ IndexedIsStored
  BY Zenon DEF IInv
<1>4. DOMAIN block' = {"index", "profiles"} \cup Tables
  <2>1. DOMAIN block = {"index"} \cup Tables
    BY <1>1, <1>3, Zenon DEF FlushProgress
  <2> QED
    BY <1>1, <2>1, Zenon DEF Put
<1>5. TypeOK'
  <2>1. \A id \in DOMAIN seriesIndex' : seriesIndex'[id] \in Nat
    BY <1>2, <1>3, Zenon DEF TypeOK
  <2>2. before' \subseteq Calls
    BY <1>2, <1>3, Zenon DEF TypeOK
  <2>3. DOMAIN block' \subseteq Tables \cup {"index", "profiles", "meta"}
    BY <1>4, Zenon
  <2> QED
    BY <1>1, <1>2, <1>3, <2>1, <2>2, <2>3, FlushStepTypes
<1>6. FlushProgress'
  <2>1. \A c \in before' : pc'[c] = "done"
    BY <1>2, <1>3, Zenon DEF FlushProgress
  <2>2. \A m \in DOMAIN TableNames : flushPc' # TableNames[m]
    BY <1>1, NamesDiffer, Zenon
  <2>3. flushPc' \notin {"idle", "removed", "index", "failed", "profiles", "rename", "done"}
    BY <1>1
  <2> QED
    BY <1>1, <1>4, <2>1, <2>2, <2>3, Zenon DEF FlushProgress
<1>7. \A x \in FromBefore : [profile |-> x, seriesIndex |-> seriesIndex[x.id]] \in v
  <2>1. \A x \in FromBefore : x \in Range(profiles)
    BY Zenon, <1>3, IndexedFacts DEF FromBefore
  <2> QED
    BY <2>1, Zenon
<1>8. WrittenHasBefore'
  <2>1. "profiles" \notin Tables
    BY Names
  <2> HIDE DEF v
  <2> QED
    BY <1>1, <1>7, <2>1, FileWritten
<1> QED
  BY <1>2, <1>5, <1>6, <1>8, FlushStepKeeps, Zenon DEF IInv

(* The range that meta.json gives covers the calls that had returned.      *)
LEMMA WriteMetaIInv ==
    ASSUME IInv, WriteMeta
    PROVE  IInv'
<1> DEFINE v == [range |-> meta, numSamples |-> totalSamples]
<1>1. /\ flushPc = "meta" /\ flushPc' = "rename" /\ block' = Put(block, "meta", v)
      /\ UNCHANGED <<headVars, callVars, before>>
  BY Zenon DEF WriteMeta
<1>2. /\ UNCHANGED <<table, profiles, seriesIndex, highest, profilesPerFP, meta, totalSamples, callVars>>
      /\ before' = before /\ pc' = pc
  BY <1>1, Zenon DEF headVars, callVars
<1>3. TypeOK /\ FlushProgress /\ IndexedIsStored
  BY Zenon DEF IInv
<1>4. DOMAIN block' = {"index", "profiles", "meta"} \cup Tables
  <2>1. DOMAIN block = {"index", "profiles"} \cup Tables
    BY <1>1, <1>3, Zenon DEF FlushProgress
  <2> QED
    BY <1>1, <2>1, Zenon DEF Put
<1>5. TypeOK'
  <2>1. \A id \in DOMAIN seriesIndex' : seriesIndex'[id] \in Nat
    BY <1>2, <1>3, Zenon DEF TypeOK
  <2>2. before' \subseteq Calls
    BY <1>2, <1>3, Zenon DEF TypeOK
  <2>3. DOMAIN block' \subseteq Tables \cup {"index", "profiles", "meta"}
    BY <1>4, Zenon
  <2> QED
    BY Zenon, <1>1, <1>2, <1>3, <2>1, <2>2, <2>3, FlushStepTypes
<1>6. FlushProgress'
  <2>1. \A c \in before' : pc'[c] = "done"
    BY <1>2, <1>3, Zenon DEF FlushProgress
  <2>2. \A m \in DOMAIN TableNames : flushPc' # TableNames[m]
    BY <1>1, NamesDiffer, Zenon
  <2>3. flushPc' \notin {"idle", "removed", "index", "failed", "profiles", "meta"}
    BY <1>1
  <2> QED
    BY <1>1, <1>4, <2>1, <2>2, <2>3, Zenon DEF FlushProgress
<1>7. ASSUME NEW x \in FromBefore PROVE Covers(v.range, x.time)
  <2>1. x \in Indexed /\ x.id[1] \in before
    BY <1>7, Zenon DEF FromBefore
  <2>2. PICK c \in Calls : \E k \in 1..Types(c) : ingested[c] /\ x = Stored(c, k)
    BY Zenon, <1>3, <2>1, IndexedFacts
  <2>3. ingested[c] /\ x.id[1] = c /\ x.time = profile[c].time
    BY SMTT(30), <2>2 DEF Stored
  <2>4. pc[c] = "done"
    BY <1>3, <2>1, <2>3, Zenon DEF FlushProgress
  <2>5. Covers(meta, profile[c].time)
    BY <2>3, <2>4, Zenon DEF IInv, CallProgress
  <2> QED
    BY <2>3, <2>5, Zenon
<1>8. WrittenHasBefore'
  <2>1. "meta" \notin Tables
    BY Names
  <2> HIDE DEF v
  <2> QED
    BY <1>1, <1>7, <2>1, FileWritten
<1> QED
  BY <1>2, <1>5, <1>6, <1>8, FlushStepKeeps, Zenon DEF IInv

(* The rename changes no file.                                             *)
LEMMA RenameIInv ==
    ASSUME IInv, Rename
    PROVE  IInv'
<1>1. /\ flushPc = "rename" /\ flushPc' = "done" /\ block' = block
      /\ UNCHANGED <<table, profiles, seriesIndex, highest, profilesPerFP, meta, totalSamples, callVars>>
      /\ before' = before /\ pc' = pc /\ profile' = profile /\ rewrites' = rewrites
  BY Zenon DEF Rename, headVars, callVars
<1>2. TypeOK /\ FlushProgress /\ WrittenHasBefore
  BY Zenon DEF IInv
<1>3. TypeOK'
  <2>1. \A id \in DOMAIN seriesIndex' : seriesIndex'[id] \in Nat
    BY <1>1, <1>2, Zenon DEF TypeOK
  <2>2. before' \subseteq Calls /\ DOMAIN block' \subseteq Tables \cup {"index", "profiles", "meta"}
    BY <1>1, <1>2, Zenon DEF TypeOK
  <2> QED
    BY <1>1, <1>2, <2>1, <2>2, FlushStepTypes
<1>4. FlushProgress'
  <2>1. \A c \in before' : pc'[c] = "done"
    BY <1>1, <1>2, Zenon DEF FlushProgress
  <2>2. \A m \in DOMAIN TableNames : flushPc' # TableNames[m]
    BY <1>1, NamesDiffer, Zenon
  <2>3. flushPc' \notin {"idle", "removed", "index", "failed", "profiles", "meta"}
    BY <1>1
  <2>4. DOMAIN block' = {"index", "profiles", "meta"} \cup Tables
    BY <1>1, <1>2, Zenon DEF FlushProgress
  <2> QED
    BY <1>1, <2>1, <2>2, <2>3, <2>4, Zenon DEF FlushProgress
<1>5. WrittenHasBefore'
  <2>1. FromBefore' = FromBefore
    BY <1>1, Zenon DEF FromBefore, Indexed
  <2> QED
    BY ONLY <1>1, <1>2, <2>1, Zenon DEF WrittenHasBefore
<1> QED
  BY <1>1, <1>3, <1>4, <1>5, FlushStepKeeps, Zenon DEF IInv

(* A flush that fails gives up what it has written.                        *)
LEMMA FlushErrorIInv ==
    ASSUME IInv, FlushError
    PROVE  IInv'
<1>1. /\ flushPc' = "failed" /\ block' = NoMap /\ before' = before /\ pc' = pc
      /\ UNCHANGED <<table, profiles, seriesIndex, highest, profilesPerFP, meta, totalSamples, callVars>>
  BY Zenon DEF FlushError, headVars, callVars
<1>2. TypeOK /\ FlushProgress
  BY Zenon DEF IInv
<1>3. DOMAIN block' = {}
  BY <1>1, Zenon DEF NoMap
<1>4. TypeOK'
  <2>1. \A id \in DOMAIN seriesIndex' : seriesIndex'[id] \in Nat
    BY <1>1, <1>2, Zenon DEF TypeOK
  <2>2. before' \subseteq Calls /\ DOMAIN block' \subseteq Tables \cup {"index", "profiles", "meta"}
    BY <1>1, <1>2, <1>3, Zenon DEF TypeOK
  <2> QED
    BY <1>1, <1>2, <2>1, <2>2, FlushStepTypes
<1>5. FlushProgress'
  <2>1. \A c \in before' : pc'[c] = "done"
    BY <1>1, <1>2, Zenon DEF FlushProgress
  <2>2. \A m \in DOMAIN TableNames : flushPc' # TableNames[m]
    BY <1>1, NamesDiffer, Zenon
  <2>3. flushPc' \notin {"idle", "profiles", "meta", "rename", "done"}
    BY <1>1
  <2> QED
    BY <1>3, <2>1, <2>2, <2>3, Zenon DEF FlushProgress
<1> QED
  BY <1>1, <1>3, <1>4, <1>5, FlushStepKeeps, NothingWritten, Zenon DEF IInv

-----------------------------------------------------------------------------
(* The invariant *)

(* The invariant holds of an empty head.                                   *)
LEMMA InitIInv ==
    ASSUME Init
    PROVE  IInv
<1>1. Range(<<>>) = {} /\ IsSeq(<<>>) /\ DOMAIN NoMap = {}
  <2>1. Range(<<>>) = {}
    BY DEF Range
  <2> QED
    BY <2>1 DEF IsSeq, NoMap
<1>2. Indexed = {}
  BY <1>1, Zenon DEF Init, Indexed
<1>3. AtTable(1) = "start" /\ 1 \in DOMAIN TableNames /\ Earlier(1) = {}
  BY Names, EarlierTables DEF AtTable
<1>4. TypeOK
  <2>1. DOMAIN table = Tables /\ \A t \in Tables : IsSeq(table[t])
    BY <1>1, Zenon DEF Init
  <2>2. meta \in [min : 1..MaxTimestamp, max : 0..MaxTimestamp]
    <3>1. MaxTimestamp \in Nat \ {0}
      BY ConstantsAssumption
    <3> QED
      BY <3>1 DEF Init
  <2>3. pc \in [Calls -> {AtTable(n) : n \in DOMAIN TableNames} \cup AfterTables]
    BY <1>3, Zenon DEF Init
  <2>4. IsFiniteSet(DOMAIN profilesPerFP)
    BY <1>1, FS_EmptySet, Zenon DEF Init
  <2>5. idxType \in [Calls -> Nat \ {0}] /\ totalSamples \in Nat
    BY DEF Init
  <2> QED
    BY <1>1, <2>1, <2>2, <2>3, <2>4, <2>5, Zenon DEF Init, TypeOK
<1>5. ASSUME NEW c \in Calls PROVE CallProgress(c)
  <2>1. pc[c] = AtTable(1) /\ DOMAIN rewrites[c] = {} /\ idxType[c] = 1 /\ ~ingested[c]
    BY <1>1, <1>3, Zenon DEF Init
  <2>2. \A n \in DOMAIN TableNames : pc[c] = AtTable(n) => n = 1
    BY <1>3, <2>1, NamesDiffer, Zenon
  <2>3. pc[c] \notin AfterTables /\ pc[c] \notin InLoop /\ pc[c] \notin {"index", "meta", "done"}
    BY <1>3, <2>1 DEF AfterTables, InLoop
  <2> QED
    BY <1>3, <2>1, <2>2, <2>3, Zenon DEF CallProgress
<1>6. RewritesAreRows
  BY <1>1, Zenon DEF Init, RewritesAreRows
<1>7. IndexedIsStored /\ ProfilesHaveIndex
  BY <1>1, Zenon DEF Init, IndexedIsStored, ProfilesHaveIndex
<1>8. \A c \in Calls : \A k \in 1..Types(c) : ~Dropped(c, k)
  <2> SUFFICES ASSUME NEW c \in Calls, NEW k \in 1..Types(c), k < 1 PROVE FALSE
    BY Zenon DEF Dropped, Init
  <2>1. Types(c) \in Nat
    BY <1>4, ProfileFacts
  <2> QED
    BY <2>1
<1>9. DroppedIsHighest /\ OnlyFirstIsDropped
  BY <1>8, Zenon DEF DroppedIsHighest, OnlyFirstIsDropped
<1>10. FlushProgress
  <2>1. flushPc = "idle" /\ before = {} /\ DOMAIN block = {}
    BY <1>1, Zenon DEF Init
  <2>2. \A m \in DOMAIN TableNames : flushPc # TableNames[m]
    BY <2>1, NamesDiffer, Zenon
  <2>3. flushPc \notin {"profiles", "meta", "rename", "done"}
    BY <2>1
  <2> QED
    BY <2>1, <2>2, <2>3, Zenon DEF FlushProgress
<1>11. WrittenHasBefore
  BY <1>1, Zenon DEF Init, WrittenHasBefore
<1> QED
  BY <1>4, <1>5, <1>6, <1>7, <1>9, <1>10, <1>11, Zenon DEF IInv

(* Every step keeps the invariant.                                         *)
LEMMA NextIInv ==
    ASSUME IInv, [Next]_vars
    PROVE  IInv'
<1>1. ASSUME NEW c \in Calls, Ingest(c) PROVE IInv'
  BY <1>1, IngestTableIInv, ComputeDeltaIInv, IngestProfileIInv, IndexAddIInv, UpdateMetaIInv, Zenon DEF Ingest
<1>2. ASSUME Flush PROVE IInv'
  BY <1>2, FlushBeginIInv, WriteToIInv, FlushTableIInv, FlushProfilesIInv, WriteMetaIInv, RenameIInv,
     FlushErrorIInv, Zenon DEF Flush
<1>3. ASSUME UNCHANGED vars PROVE IInv'
  <2>1. /\ UNCHANGED <<table, profiles, seriesIndex, highest, profilesPerFP, meta, totalSamples, callVars>>
        /\ UNCHANGED <<flushPc, before, block, pc, profile, rewrites>>
    BY <1>3, Zenon DEF vars, headVars, callVars, flushVars
  <2>2. TypeOK /\ FlushProgress /\ WrittenHasBefore
    BY Zenon DEF IInv
  <2>3. TypeOK'
    <3>1. \A id \in DOMAIN seriesIndex' : seriesIndex'[id] \in Nat
      BY <2>1, <2>2, Zenon DEF TypeOK
    <3>2. /\ before' \subseteq Calls /\ DOMAIN block' \subseteq Tables \cup {"index", "profiles", "meta"}
          /\ flushPc' \in Tables \cup {"idle", "removed", "index", "profiles", "meta",
                                       "rename", "failed", "done"}
      BY <2>1, <2>2, Zenon DEF TypeOK
    <3> QED
      BY <2>1, <2>2, <3>1, <3>2, FlushStepTypes
  <2>4. FlushProgress'
    BY <2>1, <2>2, Zenon DEF FlushProgress
  <2>5. FromBefore' = FromBefore
    BY <2>1, Zenon DEF FromBefore, Indexed
  <2>6. WrittenHasBefore'
    BY ONLY <2>1, <2>2, <2>5, Zenon DEF WrittenHasBefore
  <2> QED
    BY <2>1, <2>3, <2>4, <2>6, FlushStepKeeps, Zenon DEF IInv
<1> QED
  BY <1>1, <1>2, <1>3, Zenon DEF Next, Finished

(* The rows of a call that is past its tables, and the stacks of what is   *)
(* indexed.                                                                *)
LEMMA StacksFromIInv ==
    ASSUME IInv
    PROVE  StacksResolve
<1> SUFFICES ASSUME NEW x \in Indexed PROVE SameStacktraces(x, InRows(table))
  BY DEF StacksResolve
<1>1. TypeOK /\ IndexedIsStored /\ RewritesAreRows
  BY Zenon DEF IInv
<1>2. PICK c \in Calls : \E k \in 1..Types(c) : pc[c] \in AfterTables /\ x = Stored(c, k)
  BY <1>1, IndexedFacts
<1>3. PICK k \in 1..Types(c) : pc[c] \in AfterTables /\ x = Stored(c, k)
  BY <1>2
<1>4. DOMAIN rewrites[c] = Tables
  BY <1>3, Zenon DEF IInv, CallProgress
<1>5. \A t \in Tables : HasRows(table[t], profile[c], rewrites[c], t)
  BY <1>1, <1>4, Zenon DEF RewritesAreRows
<1>6. SameStacktraces(Stored(c, k), InRows(table))
  BY <1>1, <1>5, StacksFound
<1> QED
  BY <1>3, <1>6, Zenon

(* A published block has what had been ingested when its flush began.      *)
LEMMA BlockFromIInv ==
    ASSUME IInv
    PROVE  BlockHoldsWhatWasIngested
<1> SUFFICES ASSUME flushPc = "done", NEW x \in Indexed, x.id[1] \in before
             PROVE  \E row \in block["profiles"] :
                       /\ row.profile = x
                       /\ Attributed(row)
                       /\ Covers(block["index"][x.series].range, x.time)
                       /\ Covers(block["meta"].range, x.time)
                       /\ SameStacktraces(x, InRows(block))
  BY Zenon DEF BlockHoldsWhatWasIngested
<1>1. TypeOK /\ IndexedIsStored /\ FlushProgress /\ WrittenHasBefore
  BY Zenon DEF IInv
<1>2. DOMAIN block = {"index", "profiles", "meta"} \cup Tables
  BY <1>1, Zenon DEF FlushProgress
<1>3. x \in FromBefore
  BY Zenon DEF FromBefore
<1> DEFINE row == [profile |-> x, seriesIndex |-> seriesIndex[x.id]]
           ix == block["index"]
<1>4. row \in block["profiles"] /\ Covers(block["meta"].range, x.time)
  BY <1>1, <1>2, <1>3, Zenon DEF WrittenHasBefore
<1>5. /\ x.series \in DOMAIN ix /\ ix[x.series].pos = seriesIndex[x.id]
      /\ Covers(ix[x.series].range, x.time)
      /\ \A s, u \in DOMAIN ix : ix[s].pos = ix[u].pos => s = u
  BY <1>1, <1>2, <1>3, Zenon DEF WrittenHasBefore
<1>6. row.profile = x /\ row.seriesIndex = seriesIndex[x.id]
  OBVIOUS
<1> HIDE DEF row
<1>7. Attributed(row)
  BY <1>5, <1>6, Zenon DEF Attributed
<1>8. SameStacktraces(x, InRows(block))
  <2>1. PICK c \in Calls : \E k \in 1..Types(c) : x = Stored(c, k)
    BY <1>1, IndexedFacts
  <2>2. PICK k \in 1..Types(c) : x = Stored(c, k)
    BY <2>1
  <2>3. c \in before
    <3>1. x.id[1] = c
      BY <2>2 DEF Stored
    <3> QED
      BY Zenon, <3>1
  <2>4. \A t \in Tables : HasRows(block[t], profile[c], rewrites[c], t)
    BY <1>1, <1>2, <2>3, Zenon DEF WrittenHasBefore
  <2>5. SameStacktraces(Stored(c, k), InRows(block))
    BY <1>1, <2>4, StacksFound
  <2> QED
    BY <2>2, <2>5, Zenon
<1> QED
  BY <1>4, <1>5, <1>6, <1>7, <1>8, Zenon

(* The inductive invariant of the calls of Ingest and of Flush.            *)
THEOREM HeadInvariant == Spec => []IInv
<1>1. Init => IInv
  BY InitIInv
<1>2. IInv /\ [Next]_vars => IInv'
  BY NextIInv
<1> QED
  BY <1>1, <1>2, PTL DEF Spec

(* Whatever calls run besides it, a profile that a query can find has the  *)
(* stacks it was sent with.                                                *)
THEOREM StacksAlwaysResolve == Spec => []StacksResolve
<1>1. IInv => StacksResolve
  BY StacksFromIInv
<1> QED
  BY <1>1, HeadInvariant, PTL

(* Ingest drops nothing but the first profile of each cumulative series.   *)
THEOREM OnlyFirstEverDropped == Spec => []OnlyFirstIsDropped
<1>1. IInv => OnlyFirstIsDropped
  BY DEF IInv
<1> QED
  BY <1>1, HeadInvariant, PTL

(* A block that Flush publishes holds what had been ingested when the      *)
(* flush began, with its series, its ranges and its stacks, whatever is    *)
(* ingested in the meantime.                                               *)
THEOREM BlockHoldsIngested == Spec => []BlockHoldsWhatWasIngested
<1>1. IInv => BlockHoldsWhatWasIngested
  BY BlockFromIInv
<1> QED
  BY <1>1, HeadInvariant, PTL
=============================================================================

----------------------------- MODULE DeltaProofs -----------------------------
(***************************************************************************)
(* Proofs about Delta: for any stacktraces, values and number of profiles, *)
(* the profile that computeDelta has just returned holds the deltas to     *)
(* what was sent before it.                                                *)
(*                                                                         *)
(* What the loop of deltaSamples leaves is found by induction over the     *)
(* samples of the profile.  That is enough only together with an invariant *)
(* of the highest samples: one for every stacktrace sent, with the value   *)
(* last sent.                                                              *)
(***************************************************************************)
EXTENDS Delta, TLAPS, FiniteSetTheorems, SequenceTheorems

-----------------------------------------------------------------------------
(* Induction over a range of numbers, from the well-foundedness of Nat.    *)
LEMMA RangeInduction ==
    ASSUME NEW m \in Nat, NEW T, 0 \in T, \A n \in 0..m : n \in T /\ n < m => n + 1 \in T
    PROVE  \A n \in 0..m : n \in T
<1> DEFINE R == OpToRel(<, Nat)
           U == {n \in 0..m : n \notin T}
<1>1. IsWellFoundedOn(R, Nat)
  BY NatLessThanWellFounded, Zenon
<1>2. \A x \in Nat, y \in Nat : y < x => <<y, x>> \in R
  BY DEF OpToRel
<1> HIDE DEF R
<1> SUFFICES ASSUME U # {} PROVE FALSE
  OBVIOUS
<1>3. PICK x \in U : \A y \in U : <<y, x>> \notin R
  <2>1. U \subseteq Nat
    OBVIOUS
  <2> HIDE DEF U
  <2> QED
    BY Zenon, <1>1, <2>1, WFMin
<1>4. x \in Nat /\ x # 0 /\ x - 1 \in 0..m /\ x - 1 \in Nat /\ x - 1 < x
  OBVIOUS
<1>5. x - 1 \notin U
  BY Zenon, <1>2, <1>3, <1>4
<1> QED
  BY <1>4, <1>5

-----------------------------------------------------------------------------
(* What deltaSamples does *)

(* Heap and highest samples before the first turn of the loop of           *)
(* deltaSamples.                                                           *)
NoTurn(h, highest) == [heap |-> h, highest |-> highest]

(* The highest samples hs, in the heap h, with one sample for each of      *)
(* their stacktraces.                                                      *)
OncePerStacktrace(h, hs) ==
    \A i, j \in DOMAIN hs : h[hs[i]].stacktrace = h[hs[j]].stacktrace => i = j

(* What the loop has done after k of the samples ps, which were put after  *)
(* the l samples that the heap h had before: those of a stacktrace in hs   *)
(* are deltas and have left their value there, the others are now highest  *)
(* samples themselves, and nothing else has changed.                       *)
LoopDid(r, k, h, hs, l, ps) ==
    /\ r.heap \in Seq(Sample)
    /\ Len(r.heap) = Len(h)
    /\ \A x \in 1..Len(h) : r.heap[x].stacktrace = h[x].stacktrace
    /\ \A j \in 1..Len(ps) : j > k => r.heap[l + j].value = ps[j].value
    /\ r.highest \in Seq(1..Len(h))
    /\ OncePerStacktrace(h, r.highest)
    /\ Len(hs) <= Len(r.highest)
    /\ \A i \in DOMAIN hs : r.highest[i] = hs[i]
    /\ \A i \in DOMAIN r.highest :
          (\E m \in DOMAIN hs : r.highest[i] = hs[m]) \/ (\E j \in 1..k : r.highest[i] = l + j)
    /\ \A i \in DOMAIN hs :
          (\A j \in 1..k : ps[j].stacktrace # h[hs[i]].stacktrace)
             => r.heap[hs[i]].value = h[hs[i]].value
    /\ \A i \in DOMAIN hs, j \in 1..k : ps[j].stacktrace = h[hs[i]].stacktrace
          => /\ r.heap[hs[i]].value = ps[j].value
             /\ r.heap[l + j].value = deltaValue(h[hs[i]].value, ps[j].value)
    /\ \A j \in 1..k : (\A i \in DOMAIN hs : h[hs[i]].stacktrace # ps[j].stacktrace)
          => /\ r.heap[l + j].value = ps[j].value
             /\ \E i \in DOMAIN r.highest : r.highest[i] = l + j

(* A profile has samples, and each stacktrace once.                        *)
LEMMA Profiles ==
    ASSUME NEW ps \in SampleSeqs
    PROVE  /\ ps \in Seq(Sample) /\ Len(ps) \in Nat /\ Len(ps) > 0
           /\ \A j \in 1..Len(ps) : ps[j] \in Sample
           /\ \A i, j \in 1..Len(ps) : ps[i].stacktrace = ps[j].stacktrace => i = j
<1>1. Cardinality(Stacktraces) \in Nat
  BY DeltaAssumption, FS_CardinalityType
<1>2. PICK m \in 0..Cardinality(Stacktraces) : ps \in [1..m -> Sample]
  BY <1>1 DEF SampleSeqs, BoundedSeq, SeqOf
<1>3. ps \in Seq(Sample) /\ Len(ps) = m
  BY <1>1, <1>2
<1>4. ps # <<>> /\ \A i, j \in DOMAIN ps : ps[i].stacktrace = ps[j].stacktrace => i = j
  BY DEF SampleSeqs
<1> QED
  BY <1>3, <1>4

(* A value set in the heap.                                                *)
LEMMA SetValue ==
    ASSUME NEW h \in Seq(Sample), NEW a \in 1..Len(h), NEW v \in 0..MaxValue
    PROVE  /\ setValue(h, a, v) \in Seq(Sample)
           /\ Len(setValue(h, a, v)) = Len(h)
           /\ \A x \in 1..Len(h) : /\ setValue(h, a, v)[x].stacktrace = h[x].stacktrace
                                   /\ x # a => setValue(h, a, v)[x].value = h[x].value
           /\ setValue(h, a, v)[a].value = v
<1> DEFINE s == [stacktrace |-> h[a].stacktrace, value |-> v]
           g == [h EXCEPT ![a] = s]
<1>0. h[a] \in Sample
  OBVIOUS
<1>1. s \in Sample /\ s.stacktrace = h[a].stacktrace /\ s.value = v
  BY ONLY <1>0, v \in 0..MaxValue DEF Sample
<1> HIDE DEF s
<1>2. g \in Seq(Sample) /\ Len(g) = Len(h) /\ g[a] = s /\ \A x \in 1..Len(h) : x # a => g[x] = h[x]
  BY <1>0, <1>1
<1>3. setValue(h, a, v) = g
  BY DEF setValue, s
<1> HIDE DEF g
<1> QED
  BY <1>0, <1>1, <1>2, <1>3

(* A delta is a value.                                                     *)
LEMMA DeltaIsValue ==
    ASSUME NEW x \in 0..MaxValue, NEW y \in 0..MaxValue
    PROVE  deltaValue(x, y) \in 0..MaxValue
BY DeltaAssumption DEF deltaValue

(* One turn of the loop.                                                   *)
LEMMA OneTurn ==
    ASSUME NEW h \in Seq(Sample), NEW l \in Nat, NEW ps \in SampleSeqs, Len(h) = l + Len(ps),
           \A j \in 1..Len(ps) : h[l + j] = ps[j],
           NEW hs \in Seq(1..l), OncePerStacktrace(h, hs),
           NEW k \in Nat, k < Len(ps), NEW r, LoopDid(r, k, h, hs, l, ps)
    PROVE  LoopDid(deltaSample(h, hs, r, l + (k + 1)), k + 1, h, hs, l, ps)
<1> DEFINE n == k + 1
           a == l + n
           q == deltaSample(h, hs, r, a)
           st == r.heap[a].stacktrace
           at == {i \in DOMAIN hs : h[hs[i]].stacktrace = st}
           G == r.heap
<1>1. /\ Len(ps) \in Nat /\ \A j \in 1..Len(ps) : ps[j] \in Sample
      /\ \A i, j \in 1..Len(ps) : ps[i].stacktrace = ps[j].stacktrace => i = j
  BY Profiles
<1>2. n \in 1..Len(ps) /\ a \in 1..Len(h) /\ 1..n = (1..k) \cup {n} /\ k \in Nat /\ n \notin 1..k
  BY <1>1
<1>3. /\ G \in Seq(Sample) /\ Len(G) = Len(h)
      /\ \A x \in 1..Len(h) : G[x].stacktrace = h[x].stacktrace
      /\ G[a].value = ps[n].value
  BY <1>1, <1>2 DEF LoopDid
<1>4. st = ps[n].stacktrace /\ G[a] \in Sample /\ G[a].value \in 0..MaxValue
  <2>0. h[a] = ps[n]
    BY <1>2
  <2> HIDE DEF G, a
  <2>1. G[a].stacktrace = ps[n].stacktrace /\ G[a] \in Sample
    BY ONLY <2>0, <1>2, <1>3
  <2> USE DEF G
  <2> QED
    BY ONLY <2>1 DEF Sample
<1>5. \A i \in DOMAIN hs : hs[i] \in 1..l /\ hs[i] \in 1..Len(h) /\ hs[i] # a
  BY <1>1, <1>2
<1>6. \A i, j \in DOMAIN hs : hs[i] = hs[j] => i = j
  BY Zenon DEF OncePerStacktrace
<1>7. CASE at = {}
  <2>1. q = [heap |-> G, highest |-> Append(r.highest, a)]
    BY <1>7 DEF deltaSample
  <2> DEFINE Q == Append(r.highest, a)
  <2>2. q.heap = G /\ q.highest = Q
    BY <2>1
  <2> HIDE DEF q, G
  <2>3. r.highest \in Seq(1..Len(h)) /\ a \in 1..Len(h)
    BY <1>2 DEF LoopDid
  <2> DEFINE old == r.highest
             S == 1..Len(h)
  <2>a. old \in Seq(S) /\ a \in S
    BY <2>3
  <2> HIDE DEF S, a
  <2>4. /\ Q \in Seq(1..Len(h)) /\ Len(Q) = Len(r.highest) + 1
        /\ \A i \in DOMAIN r.highest : Q[i] = r.highest[i]
        /\ DOMAIN Q = DOMAIN r.highest \cup {Len(Q)} /\ Q[Len(Q)] = a
    <3> HIDE DEF old
    <3>1. /\ Append(old, a) \in Seq(S) /\ Len(Append(old, a)) = Len(old) + 1
          /\ \A i \in DOMAIN old : Append(old, a)[i] = old[i]
          /\ DOMAIN Append(old, a) = DOMAIN old \cup {Len(old) + 1}
          /\ Append(old, a)[Len(old) + 1] = a
      BY ONLY <2>a
    <3> QED
      BY ONLY <3>1 DEF Q, S, old
  <2> HIDE DEF Q
  <2> USE DEF a
  <2>5. \A i \in DOMAIN hs : h[hs[i]].stacktrace # ps[n].stacktrace
    BY Zenon, <1>4, <1>7
  <2>6. OncePerStacktrace(h, Q)
    <3>1. \A i \in DOMAIN r.highest : h[r.highest[i]].stacktrace # h[a].stacktrace
      <4> SUFFICES ASSUME NEW i \in DOMAIN r.highest
                   PROVE  h[r.highest[i]].stacktrace # h[a].stacktrace
        OBVIOUS
      <4>1. CASE \E m \in DOMAIN hs : r.highest[i] = hs[m]
        BY Zenon, <4>1, <2>5, <1>2
      <4>2. CASE \E j \in 1..k : r.highest[i] = l + j
        <5>1. PICK j \in 1..k : r.highest[i] = l + j
          BY <4>2
        <5>2. j \in 1..Len(ps) /\ j # n
          BY <1>1, <1>2
        <5> QED
          BY Zenon, <5>1, <5>2, <1>1, <1>2
      <4> QED
        BY Zenon, <4>1, <4>2 DEF LoopDid
    <3>2. OncePerStacktrace(h, r.highest)
      BY DEF LoopDid
    <3> QED
      BY ONLY Zenon, <2>4, <3>1, <3>2 DEF OncePerStacktrace
  <2>7. Len(hs) <= Len(Q) /\ \A i \in DOMAIN hs : Q[i] = hs[i]
    <3>1. Len(hs) <= Len(r.highest) /\ Len(hs) \in Nat /\ Len(r.highest) \in Nat
          /\ \A i \in DOMAIN hs : r.highest[i] = hs[i]
      BY <2>3 DEF LoopDid
    <3>2. DOMAIN hs \subseteq DOMAIN r.highest
      BY <2>3, <3>1
    <3> QED
      BY ONLY <2>4, <3>1, <3>2
  <2>8. \A i \in DOMAIN Q :
          (\E m \in DOMAIN hs : Q[i] = hs[m]) \/ (\E j \in 1..n : Q[i] = l + j)
    <3>1. \A i \in DOMAIN r.highest :
            (\E m \in DOMAIN hs : r.highest[i] = hs[m]) \/ (\E j \in 1..k : r.highest[i] = l + j)
      BY Zenon DEF LoopDid
    <3> QED
      BY <2>4, <3>1, <1>2, Zenon
  <2>9. \A j \in 1..n : (\A i \in DOMAIN hs : h[hs[i]].stacktrace # ps[j].stacktrace)
          => /\ G[l + j].value = ps[j].value
             /\ \E i \in DOMAIN Q : Q[i] = l + j
    <3>1. \A j \in 1..k : (\A i \in DOMAIN hs : h[hs[i]].stacktrace # ps[j].stacktrace)
            => /\ G[l + j].value = ps[j].value
               /\ \E i \in DOMAIN r.highest : r.highest[i] = l + j
      BY Zenon DEF LoopDid, G
    <3>2. \A j \in 1..k : (\E i \in DOMAIN r.highest : r.highest[i] = l + j)
             => \E i \in DOMAIN Q : Q[i] = l + j
      BY <2>4
    <3>3. \E i \in DOMAIN Q : Q[i] = l + n
      BY <2>4, Zenon
    <3> QED
      BY Zenon, <3>1, <3>2, <3>3, <1>2, <1>3
  <2>10. /\ \A i \in DOMAIN hs :
              (\A j \in 1..n : ps[j].stacktrace # h[hs[i]].stacktrace)
                 => G[hs[i]].value = h[hs[i]].value
         /\ \A i \in DOMAIN hs, j \in 1..n : ps[j].stacktrace = h[hs[i]].stacktrace
              => /\ G[hs[i]].value = ps[j].value
                 /\ G[l + j].value = deltaValue(h[hs[i]].value, ps[j].value)
    BY <1>2, <2>5, ZenonT(40) DEF LoopDid, G
  <2>11. \A j \in 1..Len(ps) : j > n => G[l + j].value = ps[j].value
    BY DEF LoopDid, G
  <2>12. LoopDid(q, n, h, hs, l, ps)
    BY ONLY <1>3, <2>2, <2>4, <2>6, <2>7, <2>8, <2>9, <2>10, <2>11, Zenon DEF LoopDid
  <2> QED
    BY <2>12 DEF q
<1>8. CASE at # {}
  <2>1. PICK m \in at : TRUE
    BY <1>8
  <2>2. at = {m}
    BY Zenon, <2>1 DEF OncePerStacktrace
  <2>3. (CHOOSE i \in at : \A j \in at : j <= i) = m
    BY <2>2
  <2> DEFINE s == hs[m]
             x == G[s].value
             y == G[a].value
             G1 == setValue(G, a, deltaValue(x, y))
             G2 == setValue(G1, s, highestValue(x, y))
  <2>4. q = [heap |-> G2, highest |-> r.highest]
    BY Zenon, <1>8, <2>3 DEF deltaSample
  <2>5. m \in DOMAIN hs /\ s \in 1..Len(h) /\ s # a /\ h[s].stacktrace = ps[n].stacktrace
    BY <1>4, <1>5, <2>1
  <2>6. G[s] \in Sample /\ x \in 0..MaxValue /\ y \in 0..MaxValue
    <3>1. G[s] \in Sample
      BY <1>3, <2>5
    <3> QED
      BY ONLY <3>1, <1>4 DEF Sample
  <2>7. deltaValue(x, y) \in 0..MaxValue /\ highestValue(x, y) = y
    BY Zenon, <2>6, DeltaIsValue DEF highestValue
  <2>8. x = h[s].value
    <3>0. \A j \in 1..k : j \in 1..Len(ps) /\ j # n
      BY SMTT(30), <1>1, <1>2
    <3>1. \A j \in 1..k : ps[j].stacktrace # h[s].stacktrace
      BY ONLY <3>0, <1>1, <1>2, <2>5
    <3> QED
      BY Zenon, <3>1, <2>5 DEF LoopDid
  <2>9. y = ps[n].value
    BY <1>3
  <2> HIDE DEF q, G, x, y, s
  <2>10. /\ G1 \in Seq(Sample) /\ Len(G1) = Len(h)
         /\ \A z \in 1..Len(h) : /\ G1[z].stacktrace = G[z].stacktrace
                                 /\ z # a => G1[z].value = G[z].value
         /\ G1[a].value = deltaValue(x, y)
    <3> DEFINE d == deltaValue(x, y)
    <3>1. d \in 0..MaxValue
      BY <2>7
    <3> HIDE DEF a, st, at, d
    <3>2. G1 = setValue(G, a, d)
      BY DEF G1, d
    <3>3. /\ setValue(G, a, d) \in Seq(Sample)
          /\ Len(setValue(G, a, d)) = Len(G)
          /\ \A z \in 1..Len(G) : /\ setValue(G, a, d)[z].stacktrace = G[z].stacktrace
                                  /\ z # a => setValue(G, a, d)[z].value = G[z].value
          /\ setValue(G, a, d)[a].value = d
      <4>1. G \in Seq(Sample) /\ a \in 1..Len(G)
        BY <1>2, <1>3
      <4> QED
        BY ONLY <4>1, <3>1, SetValue
    <3> QED
      BY ONLY <3>2, <3>3, <1>3 DEF d
  <2> HIDE DEF G1
  <2>11. /\ G2 \in Seq(Sample) /\ Len(G2) = Len(h)
         /\ \A z \in 1..Len(h) : /\ G2[z].stacktrace = G1[z].stacktrace
                                 /\ z # s => G2[z].value = G1[z].value
         /\ G2[s].value = y
    <3> HIDE DEF a, st, at
    <3>2. G2 = setValue(G1, s, y)
      BY <2>7 DEF G2
    <3>3. /\ setValue(G1, s, y) \in Seq(Sample)
          /\ Len(setValue(G1, s, y)) = Len(G1)
          /\ \A z \in 1..Len(G1) : /\ setValue(G1, s, y)[z].stacktrace = G1[z].stacktrace
                                   /\ z # s => setValue(G1, s, y)[z].value = G1[z].value
          /\ setValue(G1, s, y)[s].value = y
      <4>1. G1 \in Seq(Sample) /\ s \in 1..Len(G1)
        BY <2>5, <2>10
      <4> QED
        BY ONLY <4>1, <2>6, SetValue
    <3> QED
      BY ONLY <3>2, <3>3, <2>10
  <2> HIDE DEF G2
  <2>12. /\ \A z \in 1..Len(h) : z # a /\ z # s => G2[z].value = G[z].value
         /\ G2[a].value = deltaValue(x, y)
         /\ \A z \in 1..Len(h) : G2[z].stacktrace = h[z].stacktrace
    BY Zenon, <1>2, <1>3, <2>5, <2>10, <2>11
  <2>13. q.heap = G2 /\ q.highest = r.highest
    BY <2>4
  <2>14. \A j \in 1..Len(ps) : j # n => l + j \in 1..Len(h) /\ l + j # a /\ l + j # s
    BY <1>1, <1>5, <2>5 DEF s
  <2>15. \A i \in DOMAIN hs : i # m => hs[i] \in 1..Len(h) /\ hs[i] # a /\ hs[i] # s
    BY Zenon, <1>5, <1>6, <2>5 DEF s
  <2>16. \A j \in 1..k : j \in 1..Len(ps) /\ j # n
    BY SMTT(30), <1>1, <1>2
  <2>17. \A j \in 1..Len(ps) : j > n => G2[l + j].value = ps[j].value
    <3>1. \A j \in 1..Len(ps) : j > n => j # n /\ j > k
      BY <1>1
    <3> QED
      BY <2>12, <2>14, <3>1 DEF LoopDid, G
  <2>18. \A i \in DOMAIN hs : (\A j \in 1..n : ps[j].stacktrace # h[hs[i]].stacktrace)
              => G2[hs[i]].value = h[hs[i]].value
    <3>1. \A i \in DOMAIN hs : (\A j \in 1..k : ps[j].stacktrace # h[hs[i]].stacktrace)
              => G[hs[i]].value = h[hs[i]].value
      BY DEF LoopDid, G
    <3> QED
      BY <1>2, <2>5, <2>12, <2>15, <3>1, Zenon DEF s
  <2>19. \A i \in DOMAIN hs, j \in 1..n : ps[j].stacktrace = h[hs[i]].stacktrace
              => /\ G2[hs[i]].value = ps[j].value
                 /\ G2[l + j].value = deltaValue(h[hs[i]].value, ps[j].value)
    <3> SUFFICES ASSUME NEW i \in DOMAIN hs, NEW j \in 1..n,
                        ps[j].stacktrace = h[hs[i]].stacktrace
                 PROVE  /\ G2[hs[i]].value = ps[j].value
                        /\ G2[l + j].value = deltaValue(h[hs[i]].value, ps[j].value)
      BY Zenon
    <3>1. CASE j = n
      <4>1. i = m
        BY <3>1, <2>5 DEF OncePerStacktrace, s
      <4> QED
        BY Zenon, <3>1, <4>1, <2>8, <2>9, <2>11, <2>12 DEF s
    <3>2. CASE j # n
      <4>1. j \in 1..k
        BY <3>2, <1>2
      <4>2. i # m
        <5>1. h[hs[m]].stacktrace = ps[n].stacktrace
          BY <2>5, Zenon DEF s
        <5>2. \A b \in 1..k : ps[b].stacktrace # ps[n].stacktrace
          BY ONLY Zenon, <2>16, <1>1, <1>2
        <5> QED
          BY <4>1, <5>1, <5>2, Zenon
      <4>3. /\ G[hs[i]].value = ps[j].value
            /\ G[l + j].value = deltaValue(h[hs[i]].value, ps[j].value)
        BY Zenon, <4>1 DEF LoopDid, G
      <4> QED
        BY Zenon, <4>1, <4>2, <4>3, <2>12, <2>14, <2>15, <2>16
    <3> QED
      BY <3>1, <3>2
  <2>20. \A j \in 1..n : (\A i \in DOMAIN hs : h[hs[i]].stacktrace # ps[j].stacktrace)
          => /\ G2[l + j].value = ps[j].value
             /\ \E i \in DOMAIN r.highest : r.highest[i] = l + j
    <3>1. \A j \in 1..k : (\A i \in DOMAIN hs : h[hs[i]].stacktrace # ps[j].stacktrace)
            => /\ G[l + j].value = ps[j].value
               /\ \E i \in DOMAIN r.highest : r.highest[i] = l + j
      BY Zenon DEF LoopDid, G
    <3>2. ~ \A i \in DOMAIN hs : h[hs[i]].stacktrace # ps[n].stacktrace
      BY <2>5 DEF s
    <3>3. \A j \in 1..k : G2[l + j].value = G[l + j].value
      BY Zenon, <2>12, <2>14, <2>16
    <3> QED
      BY <3>1, <3>2, <3>3, <1>2, Zenon
  <2>21. /\ r.highest \in Seq(1..Len(h)) /\ OncePerStacktrace(h, r.highest)
         /\ Len(hs) <= Len(r.highest) /\ \A i \in DOMAIN hs : r.highest[i] = hs[i]
         /\ \A i \in DOMAIN r.highest :
              (\E v \in DOMAIN hs : r.highest[i] = hs[v]) \/ (\E j \in 1..n : r.highest[i] = l + j)
    <3>1. \A i \in DOMAIN r.highest :
             (\E v \in DOMAIN hs : r.highest[i] = hs[v]) \/ (\E j \in 1..k : r.highest[i] = l + j)
      BY Zenon DEF LoopDid
    <3>2. /\ r.highest \in Seq(1..Len(h)) /\ OncePerStacktrace(h, r.highest)
          /\ Len(hs) <= Len(r.highest) /\ \A i \in DOMAIN hs : r.highest[i] = hs[i]
      BY DEF LoopDid
    <3> QED
      BY ONLY Zenon, <3>1, <3>2, <1>2
  <2>22. LoopDid(q, n, h, hs, l, ps)
    <3> HIDE DEF n, a, st, at
    <3>1. /\ q.heap \in Seq(Sample)
          /\ Len(q.heap) = Len(h)
          /\ \A z \in 1..Len(h) : q.heap[z].stacktrace = h[z].stacktrace
          /\ \A j \in 1..Len(ps) : j > n => q.heap[l + j].value = ps[j].value
      BY ONLY <2>11, <2>12, <2>13, <2>17, Zenon
    <3>2. /\ \A i \in DOMAIN hs :
                (\A j \in 1..n : ps[j].stacktrace # h[hs[i]].stacktrace)
                   => q.heap[hs[i]].value = h[hs[i]].value
          /\ \A i \in DOMAIN hs, j \in 1..n : ps[j].stacktrace = h[hs[i]].stacktrace
                => /\ q.heap[hs[i]].value = ps[j].value
                   /\ q.heap[l + j].value = deltaValue(h[hs[i]].value, ps[j].value)
      BY ONLY <2>13, <2>18, <2>19, Zenon
    <3>3. \A j \in 1..n : (\A i \in DOMAIN hs : h[hs[i]].stacktrace # ps[j].stacktrace)
                => /\ q.heap[l + j].value = ps[j].value
                   /\ \E i \in DOMAIN q.highest : q.highest[i] = l + j
      BY ONLY <2>13, <2>20, Zenon
    <3>4. /\ q.highest \in Seq(1..Len(h)) /\ OncePerStacktrace(h, q.highest)
          /\ Len(hs) <= Len(q.highest) /\ \A i \in DOMAIN hs : q.highest[i] = hs[i]
          /\ \A i \in DOMAIN q.highest :
               (\E v \in DOMAIN hs : q.highest[i] = hs[v]) \/ (\E j \in 1..n : q.highest[i] = l + j)
      BY ONLY <2>13, <2>21, Zenon
    <3> QED
      BY ONLY <3>1, <3>2, <3>3, <3>4, Zenon DEF LoopDid
  <2> QED
    BY <2>22 DEF q
<1> QED
  BY <1>7, <1>8

(* The whole loop.                                                         *)
LEMMA TheLoop ==
    ASSUME NEW h \in Seq(Sample), NEW l \in Nat, NEW ps \in SampleSeqs, Len(h) = l + Len(ps),
           \A j \in 1..Len(ps) : h[l + j] = ps[j],
           NEW hs \in Seq(1..l), OncePerStacktrace(h, hs),
           NEW as \in Seq(Nat), Len(as) = Len(ps), \A j \in 1..Len(ps) : as[j] = l + j
    PROVE  LoopDid(deltaSamples(h, hs, as), Len(ps), h, hs, l, ps)
<1> DEFINE loop == CHOOSE g : g = [n \in 0..Len(as) |->
                                 IF n = 0 THEN [heap |-> h, highest |-> hs]
                                 ELSE deltaSample(h, hs, g[n - 1], as[n])]
           T == {n \in 0..Len(ps) : LoopDid(loop[n], n, h, hs, l, ps)}
<1>1. Len(ps) \in Nat
  BY Profiles
<1>2. deltaSamples(h, hs, as) = loop[Len(as)]
  BY DEF deltaSamples
<1>3. loop = [n \in 0..Len(as) |-> IF n = 0 THEN NoTurn(h, hs)
                                 ELSE deltaSample(h, hs, loop[n - 1], as[n])]
  <2>1. \E g : g = [n \in 0..Len(as) |->
                      IF n = 0 THEN NoTurn(h, hs)
                      ELSE deltaSample(h, hs, g[n - 1], as[n])]
    <3> DEFINE r0 == NoTurn(h, hs)
               Turn(r, n) == deltaSample(h, hs, r, as[n])
    <3> HIDE DEF r0, Turn
    <3> DEFINE Pre(m, g) == g = [n \in 0..m |-> IF n = 0 THEN r0 ELSE Turn(g[n - 1], n)]
               P == {m \in Nat : \E g : Pre(m, g)}
    <3>1. 0 \in P
      <4> DEFINE g == [n \in 0..0 |-> r0]
      <4>1. g = [n \in 0..0 |-> IF n = 0 THEN r0 ELSE Turn(g[n - 1], n)]
        OBVIOUS
      <4> QED
        BY Zenon, <4>1
    <3>2. ASSUME NEW m \in Nat, NEW g, Pre(m, g)
          PROVE  \E f : Pre(m + 1, f)
      <4> DEFINE f == [n \in 0..(m + 1) |-> IF n = m + 1 THEN Turn(g[m], m + 1) ELSE g[n]]
      <4>1. \A n \in 0..m : f[n] = g[n]
        OBVIOUS
      <4>2. f[m + 1] = Turn(g[m], m + 1)
        OBVIOUS
      <4>3. \A n \in 0..m : g[n] = IF n = 0 THEN r0 ELSE Turn(g[n - 1], n)
        BY <3>2
      <4>4. \A n \in 0..(m + 1) : f[n] = IF n = 0 THEN r0 ELSE Turn(f[n - 1], n)
        <5> TAKE n \in 0..(m + 1)
        <5>1. CASE n = m + 1
          <6>1. n # 0 /\ n - 1 = m /\ m \in 0..m
            BY <5>1
          <6> HIDE DEF f
          <6> QED
            BY <5>1, <6>1, <4>1, <4>2
        <5>2. CASE n # m + 1
          <6>1. n \in 0..m /\ (n # 0 => n - 1 \in 0..m)
            BY <5>2
          <6> HIDE DEF f
          <6> QED
            BY <6>1, <4>1, <4>3
        <5> QED
          BY <5>1, <5>2
      <4>5. f = [n \in 0..(m + 1) |-> f[n]]
        OBVIOUS
      <4> HIDE DEF f
      <4>6. Pre(m + 1, f)
        BY <4>4, <4>5, Zenon
      <4> QED
        BY Zenon, <4>6
    <3>0. Len(as) \in Nat
      OBVIOUS
    <3>3. \A n \in 0..Len(as) : n \in P /\ n < Len(as) => n + 1 \in P
      <4> SUFFICES ASSUME NEW n \in 0..Len(as), n \in P PROVE n + 1 \in P
        BY Zenon
      <4>1. n \in Nat /\ n + 1 \in Nat
        BY <3>0
      <4>2. PICK g : Pre(n, g)
        OBVIOUS
      <4>3. \E f : Pre(n + 1, f)
        BY Zenon, <3>2, <4>1, <4>2
      <4> QED
        BY Zenon, <4>1, <4>3
    <3>4. Len(as) \in P
      <4>1. Len(as) \in 0..Len(as)
        BY <3>0
      <4> HIDE DEF P
      <4> QED
        BY Zenon, <3>0, <3>1, <3>3, <4>1, RangeInduction
    <3>5. \E g : Pre(Len(as), g)
      BY <3>4
    <3> QED
      BY Zenon, <3>5 DEF r0, Turn
  <2> QED
    BY <2>1, Zenon DEF NoTurn
<1> HIDE DEF loop
<1> DEFINE r0 == NoTurn(h, hs)
<1>0. r0.heap = h /\ r0.highest = hs
  BY DEF NoTurn
<1>a. loop = [n \in 0..Len(as) |-> IF n = 0 THEN r0
                                 ELSE deltaSample(h, hs, loop[n - 1], as[n])]
  BY <1>3, Zenon
<1> HIDE DEF r0
<1>4. \A n \in 0..Len(as) : loop[n] = IF n = 0 THEN r0
                                    ELSE deltaSample(h, hs, loop[n - 1], as[n])
  BY ONLY Zenon, <1>a
<1>5. 0 \in T
  <2>1. loop[0].heap = h /\ loop[0].highest = hs
    <3>0. 0 \in 0..Len(as)
      BY <1>1
    <3>1. loop[0] = r0
      BY ONLY Zenon, <3>0, <1>4
    <3> QED
      BY <1>0, <3>1
  <2>2. 1..0 = {} /\ 0 \in 0..Len(ps)
    BY <1>1
  <2>3. hs \in Seq(1..Len(h)) /\ Len(hs) <= Len(hs)
    <3>1. 1..l \subseteq 1..Len(h)
      BY <1>1
    <3> QED
      BY <3>1
  <2>4. LoopDid(loop[0], 0, h, hs, l, ps)
    BY Zenon, <2>1, <2>2, <2>3 DEF LoopDid
  <2> QED
    BY <2>2, <2>4
<1>6. ASSUME NEW n \in 0..Len(ps), n \in T, n < Len(ps)
      PROVE  n + 1 \in T
  <2>1. n \in Nat /\ n + 1 \in 0..Len(ps) /\ n + 1 # 0 /\ (n + 1) - 1 = n /\ n + 1 \in 1..Len(ps)
    BY <1>1, <1>6
  <2>2. loop[n + 1] = deltaSample(h, hs, loop[n], l + (n + 1))
    BY Zenon, <1>4, <2>1
  <2>3. LoopDid(loop[n], n, h, hs, l, ps)
    BY <1>6
  <2>4. LoopDid(deltaSample(h, hs, loop[n], l + (n + 1)), n + 1, h, hs, l, ps)
    BY Zenon, <1>6, <2>1, <2>3, OneTurn
  <2> QED
    BY <2>1, <2>2, <2>4
<1>7. Len(ps) \in T
  <2>1. Len(ps) \in 0..Len(ps)
    BY <1>1
  <2> HIDE DEF T
  <2> QED
    BY Zenon, <1>1, <1>5, <1>6, <2>1, RangeInduction
<1> QED
  BY <1>2, <1>7

-----------------------------------------------------------------------------
(* What was sent *)

(* The value of a stacktrace in a profile is that of its one sample.       *)
LEMMA ValueOfSample ==
    ASSUME NEW ps \in SampleSeqs
    PROVE  /\ \A j \in 1..Len(ps) : ValueIn(ps, ps[j].stacktrace) = ps[j].value
           /\ \A st : (\E s \in Range(ps) : s.stacktrace = st)
                 <=> \E j \in 1..Len(ps) : ps[j].stacktrace = st
<1>1. Range(ps) = {ps[j] : j \in 1..Len(ps)}
  BY Profiles DEF Range
<1>2. \A s, t \in Range(ps) : s.stacktrace = t.stacktrace => s = t
  BY <1>1, Profiles
<1>3. ASSUME NEW j \in 1..Len(ps)
      PROVE  ValueIn(ps, ps[j].stacktrace) = ps[j].value
  <2> DEFINE c == CHOOSE s \in Range(ps) : s.stacktrace = ps[j].stacktrace
  <2>1. ps[j] \in Range(ps)
    BY <1>1
  <2>2. c \in Range(ps) /\ c.stacktrace = ps[j].stacktrace
    BY <2>1
  <2>3. c = ps[j]
    BY <1>2, <2>1, <2>2
  <2> QED
    BY Zenon, <2>1, <2>3 DEF ValueIn
<1> QED
  BY <1>1, <1>3

(* A set of profile numbers has a greatest one.                            *)
LEMMA GreatestExists ==
    ASSUME NEW n \in Nat, NEW S \in SUBSET (1..n), S # {}
    PROVE  \E m \in S : \A k \in S : k <= m
<1> DEFINE T == {m \in 0..n : \A U \in SUBSET (1..m) : U # {} => \E x \in U : \A y \in U : y <= x}
<1>1. 0 \in T
  <2>1. 1..0 = {}
    OBVIOUS
  <2>2. \A U \in SUBSET (1..0) : U = {}
    BY <2>1
  <2>3. \A U \in SUBSET (1..0) : U # {} => \E x \in U : \A y \in U : y <= x
    BY ONLY Zenon, <2>2
  <2>4. 0 \in 0..n
    OBVIOUS
  <2> QED
    BY ONLY <2>3, <2>4
<1>2. ASSUME NEW m \in 0..n, m \in T, m < n
      PROVE  m + 1 \in T
  <2>1. m + 1 \in 0..n /\ 1..(m + 1) = (1..m) \cup {m + 1}
    BY <1>2
  <2> SUFFICES ASSUME NEW U \in SUBSET (1..(m + 1)), U # {}
               PROVE  \E x \in U : \A y \in U : y <= x
    BY <2>1
  <2>2. CASE m + 1 \in U
    <3>1. \A y \in U : y <= m + 1
      OBVIOUS
    <3> QED
      BY <2>2, <3>1
  <2>3. CASE m + 1 \notin U
    <3>1. U \in SUBSET (1..m)
      BY <2>1, <2>3
    <3> QED
      BY <1>2, <3>1
  <2> QED
    BY <2>2, <2>3
<1>3. n \in T
  <2>1. n \in 0..n
    OBVIOUS
  <2> HIDE DEF T
  <2> QED
    BY <1>1, <1>2, <2>1, RangeInduction
<1> QED
  BY <1>3

(* One more profile sent.                                                  *)
LEMMA SentMore ==
    ASSUME NEW old \in Seq(SampleSeqs), NEW ps \in SampleSeqs, NEW st
    PROVE  /\ LastSent(Append(old, ps), Len(old), st) = LastSent(old, Len(old), st)
           /\ LastSent(Append(old, ps), Len(old) + 1, st) =
                IF \E s \in Range(ps) : s.stacktrace = st THEN ValueIn(ps, st)
                ELSE LastSent(old, Len(old), st)
<1> DEFINE n == Len(old)
           new == Append(old, ps)
           Has(q) == \E s \in Range(q) : s.stacktrace = st
           with == {m \in 1..n : Has(old[m])}
           withNew == {m \in 1..(n + 1) : Has(new[m])}
           same == {m \in 1..n : Has(new[m])}
           Greatest(w) == CHOOSE m \in w : \A k \in w : k <= m
<1>1. n \in Nat /\ (\A m \in 1..n : new[m] = old[m]) /\ new[n + 1] = ps
  OBVIOUS
<1> HIDE DEF n, new, Has
<1>2. same = with
  BY <1>1
<1>3. LastSent(old, n, st) = IF with = {} THEN 0 ELSE ValueIn(old[Greatest(with)], st)
  BY DEF LastSent, Has
<1>4. LastSent(new, n, st) = IF same = {} THEN 0 ELSE ValueIn(new[Greatest(same)], st)
  BY DEF LastSent, Has
<1>5. LastSent(new, n + 1, st) = IF withNew = {} THEN 0 ELSE ValueIn(new[Greatest(withNew)], st)
  BY DEF LastSent, Has
<1>a. with # {} => Greatest(with) \in 1..n
  <2>1. with \in SUBSET (1..n)
    OBVIOUS
  <2> HIDE DEF with
  <2>2. with # {} => \E m \in with : \A k \in with : k <= m
    BY Zenon, <1>1, <2>1, GreatestExists
  <2> QED
    BY Zenon, <2>1, <2>2
<1>b. with # {} => new[Greatest(with)] = old[Greatest(with)]
  BY <1>1, <1>a
<1> HIDE DEF with, same
<1>6. LastSent(new, n, st) = LastSent(old, n, st)
  BY <1>2, <1>3, <1>4, <1>b
<1>7. CASE Has(ps)
  <2>1. n + 1 \in withNew /\ \A m \in withNew : m <= n + 1 /\ m \in Nat
    <3>1. n + 1 \in 1..(n + 1) /\ \A m \in 1..(n + 1) : m <= n + 1 /\ m \in Nat
      BY <1>1
    <3> QED
      BY <1>1, <1>7, <3>1
  <2> HIDE DEF withNew
  <2>2. Greatest(withNew) = n + 1
    BY <1>1, <2>1
  <2> QED
    BY Zenon, <1>1, <1>5, <1>6, <1>7, <2>1, <2>2 DEF n, new, Has
<1>8. CASE ~Has(ps)
  <2>1. withNew = with
    <3>1. 1..(n + 1) = (1..n) \cup {n + 1}
      BY <1>1
    <3> QED
      BY <1>1, <1>8, <3>1 DEF with
  <2> HIDE DEF withNew
  <2>2. LastSent(new, n + 1, st) = LastSent(old, n, st)
    BY <1>3, <1>5, <1>b, <2>1
  <2> QED
    BY <1>6, <1>8, <2>2 DEF n, new, Has
<1> QED
  BY <1>7, <1>8

-----------------------------------------------------------------------------
(* computeDelta *)

(* Where the samples of a profile are put.                                 *)
LEMMA Placed ==
    ASSUME NEW g \in Seq(Sample), NEW ps \in SampleSeqs
    PROVE  /\ g \o ps \in Seq(Sample)
           /\ Len(g \o ps) = Len(g) + Len(ps)
           /\ \A x \in 1..Len(g) : (g \o ps)[x] = g[x]
           /\ \A j \in 1..Len(ps) : (g \o ps)[Len(g) + j] = ps[j]
           /\ Addresses(g \o ps, Len(ps)) \in Seq(1..Len(g \o ps))
           /\ Addresses(g \o ps, Len(ps)) \in Seq(Nat)
           /\ Len(Addresses(g \o ps, Len(ps))) = Len(ps)
           /\ \A j \in 1..Len(ps) : Addresses(g \o ps, Len(ps))[j] = Len(g) + j
<1> DEFINE h == g \o ps
           as == Addresses(h, Len(ps))
<1>1. ps \in Seq(Sample) /\ Len(ps) \in Nat /\ Len(g) \in Nat
  BY Profiles
<1>2. h \in Seq(Sample) /\ Len(h) = Len(g) + Len(ps)
  BY <1>1
<1>3. \A x \in 1..Len(g) : h[x] = g[x]
  BY <1>1
<1>4. \A j \in 1..Len(ps) : h[Len(g) + j] = ps[j]
  BY <1>1
<1>5. as = [i \in 1..Len(ps) |-> Len(g) + i]
  <2> HIDE DEF h
  <2>1. \A i \in 1..Len(ps) : Len(h) - Len(ps) + i = Len(g) + i
    BY <1>1, <1>2
  <2> QED
    BY <2>1 DEF Addresses
<1> HIDE DEF as, h
<1>6. as \in [1..Len(ps) -> 1..Len(h)] /\ 1..Len(h) \subseteq Nat
  BY <1>1, <1>2, <1>5
<1>7. as \in Seq(1..Len(h)) /\ as \in Seq(Nat) /\ Len(as) = Len(ps)
  <2> DEFINE D == 1..Len(h)
             n == Len(ps)
  <2>1. as \in [1..n -> D] /\ n \in Nat /\ D \subseteq Nat
    BY Zenon, <1>1, <1>6
  <2> HIDE DEF D, n
  <2>2. as \in Seq(D) /\ as \in Seq(Nat)
    <3>1. as \in [1..n -> D] /\ as \in [1..n -> Nat]
      BY ONLY Zenon, <2>1
    <3>2. Seq(D) = UNION {[1..k -> D] : k \in Nat} /\ Seq(Nat) = UNION {[1..k -> Nat] : k \in Nat}
      BY ONLY SeqDef, Zenon
    <3> QED
      BY ONLY <2>1, <3>1, <3>2, Zenon
  <2>3. Len(as) = n
    BY ONLY <2>1, <2>2
  <2> QED
    BY Zenon, <2>2, <2>3 DEF D, n
<1> QED
  BY <1>2, <1>3, <1>4, <1>5, <1>7 DEF as, h

(* The first profile is kept as it is.                                     *)
LEMMA FirstIInv ==
    ASSUME IInv, NEW ps \in SampleSeqs, ~known, sent' = Append(sent, ps), known' = TRUE,
           highestSamples' = Addresses(heap \o ps, Len(ps)), heap' = heap \o ps, stored' = stored
    PROVE  IInv'
<1> DEFINE l == Len(heap)
           N == Len(ps)
<1>1. heap \in Seq(Sample) /\ sent \in Seq(SampleSeqs) /\ sent = <<>> /\ stored = <<>>
  BY DEF IInv, TypeOK, AllButFirstStored
<1>2. /\ heap' \in Seq(Sample) /\ Len(heap') = l + N
      /\ \A j \in 1..N : heap'[l + j] = ps[j]
      /\ highestSamples' \in Seq(1..Len(heap')) /\ Len(highestSamples') = N
      /\ \A j \in 1..N : highestSamples'[j] = l + j
  BY <1>1, Placed
<1>3. /\ N \in Nat /\ l \in Nat /\ \A j \in 1..N : ps[j] \in Sample
      /\ \A i, j \in 1..N : ps[i].stacktrace = ps[j].stacktrace => i = j
  BY <1>1, Profiles
<1>4. DOMAIN heap' = 1..Len(heap') /\ DOMAIN highestSamples' = 1..N
  BY <1>2
<1>5. Len(sent) = 0 /\ Len(sent') = 1 /\ sent' \in Seq(SampleSeqs) /\ sent'[1] = ps /\ DOMAIN sent' = 1..1
  BY <1>1
<1>6. TypeOK'
  <2>1. stored' \in Seq(SUBSET DOMAIN heap')
    BY <1>1
  <2> QED
    BY Zenon, <1>2, <1>4, <1>5, <2>1 DEF TypeOK
<1>7. AllButFirstStored'
  BY <1>1, <1>5 DEF AllButFirstStored
<1>8. StoredAsDelta'
  BY <1>1 DEF StoredAsDelta
<1>9. HighestAreLast'
  <2>1. \A j \in 1..N : heap'[highestSamples'[j]] = ps[j]
    BY Zenon, <1>2
  <2>2. \A st : LastSent(sent', 1, st) =
                  IF \E s \in Range(ps) : s.stacktrace = st THEN ValueIn(ps, st)
                  ELSE LastSent(sent, 0, st)
    <3> TAKE st
    <3>1. 0 = Len(sent) /\ 0 + 1 = 1
      BY <1>5
    <3>2. LastSent(Append(sent, ps), Len(sent) + 1, st) =
             IF \E s \in Range(ps) : s.stacktrace = st THEN ValueIn(ps, st)
             ELSE LastSent(sent, Len(sent), st)
      BY ONLY Zenon, <1>1, ps \in SampleSeqs, SentMore
    <3> QED
      BY ONLY <3>1, <3>2, sent' = Append(sent, ps)
  <2>3. \A j \in 1..N : LastSent(sent', 1, ps[j].stacktrace) = ps[j].value
    BY Zenon, <2>2, ValueOfSample
  <2>4. Range(ps) = {ps[j] : j \in 1..N}
    BY Profiles DEF Range
  <2> HIDE DEF N, l
  <2>5. \A i, j \in DOMAIN highestSamples' :
          heap'[highestSamples'[i]].stacktrace = heap'[highestSamples'[j]].stacktrace => i = j
    BY ONLY <1>3, <1>4, <2>1
  <2>6. \A i \in DOMAIN highestSamples' :
          heap'[highestSamples'[i]].value
             = LastSent(sent', 1, heap'[highestSamples'[i]].stacktrace)
    BY ONLY <1>4, <2>1, <2>3
  <2>7. \A m \in DOMAIN sent' : \A s \in Range(sent'[m]) :
          \E i \in DOMAIN highestSamples' : heap'[highestSamples'[i]].stacktrace = s.stacktrace
    <3>1. \A m \in DOMAIN sent' : sent'[m] = ps
      BY <1>5
    <3> QED
      BY ONLY <1>4, <2>1, <2>4, <3>1
  <2> QED
    BY ONLY Zenon, <1>5, <2>5, <2>6, <2>7 DEF HighestAreLast
<1> QED
  BY <1>6, <1>7, <1>8, <1>9 DEF IInv

(* The highest samples before a profile, in the heap with its samples.     *)
LEMMA HighestInHeap ==
    ASSUME IInv, NEW ps \in SampleSeqs, NEW h, h = heap \o ps
    PROVE  /\ highestSamples \in Seq(1..Len(heap))
           /\ OncePerStacktrace(h, highestSamples)
           /\ \A i \in DOMAIN highestSamples :
                /\ h[highestSamples[i]] \in Sample
                /\ h[highestSamples[i]].value
                     = LastSent(sent, Len(sent), h[highestSamples[i]].stacktrace)
           /\ \A st : (\A i \in DOMAIN highestSamples : h[highestSamples[i]].stacktrace # st)
                 => LastSent(sent, Len(sent), st) = 0
<1> DEFINE hs == highestSamples
           l == Len(heap)
<1>1. heap \in Seq(Sample) /\ DOMAIN heap = 1..l /\ hs \in Seq(1..l) /\ sent \in Seq(SampleSeqs)
  BY DEF IInv, TypeOK
<1>2. \A x \in 1..l : h[x] = heap[x] /\ heap[x] \in Sample
  BY <1>1, Placed
<1>3. \A i \in DOMAIN hs : hs[i] \in 1..l
  BY <1>1
<1>4. \A i \in DOMAIN hs : h[hs[i]] = heap[hs[i]] /\ h[hs[i]] \in Sample
  BY ONLY <1>2, <1>3
<1> HIDE DEF l
<1>5. /\ \A i, j \in DOMAIN hs : heap[hs[i]].stacktrace = heap[hs[j]].stacktrace => i = j
      /\ \A i \in DOMAIN hs : heap[hs[i]].value = LastSent(sent, Len(sent), heap[hs[i]].stacktrace)
      /\ \A m \in DOMAIN sent : \A s \in Range(sent[m]) :
            \E i \in DOMAIN hs : heap[hs[i]].stacktrace = s.stacktrace
  BY DEF IInv, HighestAreLast
<1>6. OncePerStacktrace(h, hs)
  BY ONLY <1>4, <1>5 DEF OncePerStacktrace
<1>7. ASSUME NEW st, \A i \in DOMAIN hs : h[hs[i]].stacktrace # st
      PROVE  LastSent(sent, Len(sent), st) = 0
  <2>1. DOMAIN sent = 1..Len(sent)
    BY <1>1
  <2>2. \A m \in 1..Len(sent) : ~ \E s \in Range(sent[m]) : s.stacktrace = st
    BY ONLY <2>1, <1>4, <1>5, <1>7
  <2>3. {m \in 1..Len(sent) : \E s \in Range(sent[m]) : s.stacktrace = st} = {}
    BY ONLY <2>2
  <2> QED
    BY ONLY <2>3 DEF LastSent
<1> QED
  BY Zenon, <1>1, <1>4, <1>5, <1>6, <1>7 DEF l

(* What a profile that is not the first leaves: each of its samples is the *)
(* delta, and the highest samples have the values last sent.               *)
Left(ps, r, new) ==
    /\ r.heap \in Seq(Sample) /\ Len(r.heap) = Len(heap) + Len(ps)
    /\ r.highest \in Seq(1..Len(r.heap))
    /\ \A j \in 1..Len(ps) :
         /\ r.heap[Len(heap) + j].stacktrace = ps[j].stacktrace
         /\ r.heap[Len(heap) + j].value
              = deltaValue(LastSent(sent, Len(sent), r.heap[Len(heap) + j].stacktrace), ps[j].value)
    /\ \A i, j \in DOMAIN r.highest :
         r.heap[r.highest[i]].stacktrace = r.heap[r.highest[j]].stacktrace => i = j
    /\ \A i \in DOMAIN r.highest :
         r.heap[r.highest[i]].value
            = LastSent(new, Len(sent) + 1, r.heap[r.highest[i]].stacktrace)
    /\ \A m \in DOMAIN new : \A s \in Range(new[m]) :
         \E i \in DOMAIN r.highest : r.heap[r.highest[i]].stacktrace = s.stacktrace

(* What deltaSamples leaves in a state that satisfies the invariant.       *)
LEMMA KnownDoes ==
    ASSUME IInv, NEW ps \in SampleSeqs
    PROVE  Left(ps, deltaSamples(heap \o ps, highestSamples, Addresses(heap \o ps, Len(ps))),
                Append(sent, ps))
<1> DEFINE h == heap \o ps
           as == Addresses(h, Len(ps))
           r == deltaSamples(h, highestSamples, as)
           new == Append(sent, ps)
<1>0. /\ h = heap \o ps /\ as = Addresses(h, Len(ps)) /\ r = deltaSamples(h, highestSamples, as)
      /\ new = Append(sent, ps)
  OBVIOUS
<1> HIDE DEF h, as, r, new
<1> DEFINE hs == highestSamples
           l == Len(heap)
           N == Len(ps)
           G == r.heap
           n == Len(sent)
           Before(st) == LastSent(sent, n, st)
<1>1. heap \in Seq(Sample) /\ l \in Nat /\ sent \in Seq(SampleSeqs) /\ n \in Nat
  BY DEF IInv, TypeOK
<1>2. /\ N \in Nat /\ \A j \in 1..N : ps[j] \in Sample
      /\ \A i, j \in 1..N : ps[i].stacktrace = ps[j].stacktrace => i = j
  BY Profiles
<1>3. /\ h \in Seq(Sample) /\ Len(h) = l + N
      /\ \A x \in 1..l : h[x] = heap[x]
      /\ \A j \in 1..N : h[l + j] = ps[j]
      /\ as \in Seq(Nat) /\ Len(as) = N
      /\ \A j \in 1..N : as[j] = l + j
  BY <1>0, <1>1, Placed
<1>4. /\ hs \in Seq(1..l) /\ OncePerStacktrace(h, hs)
      /\ \A i \in DOMAIN hs : h[hs[i]] \in Sample /\ h[hs[i]].value = Before(h[hs[i]].stacktrace)
      /\ \A st : (\A i \in DOMAIN hs : h[hs[i]].stacktrace # st) => Before(st) = 0
  <2>1. hs \in Seq(1..l) /\ OncePerStacktrace(h, hs)
    BY <1>0, HighestInHeap, Zenon
  <2>2. \A i \in DOMAIN hs : h[hs[i]] \in Sample /\ h[hs[i]].value = Before(h[hs[i]].stacktrace)
    BY <1>0, HighestInHeap, Zenon
  <2>3. ASSUME NEW st, \A i \in DOMAIN hs : h[hs[i]].stacktrace # st PROVE Before(st) = 0
    BY <1>0, <2>3, HighestInHeap, ZenonT(60)
  <2> QED
    BY <2>1, <2>2, <2>3, Zenon
<1>5. LoopDid(r, N, h, hs, l, ps)
  BY <1>0, <1>1, <1>3, <1>4, TheLoop, Zenon
<1> HIDE DEF hs, l, N, n, Before
<1>6. G \in Seq(Sample) /\ Len(G) = l + N /\ r.highest \in Seq(1..(l + N))
  BY <1>3, <1>5 DEF LoopDid
<1>7. \A x \in 1..(l + N) : G[x].stacktrace = h[x].stacktrace
  BY <1>3, <1>5 DEF LoopDid
<1>8. \A j \in 1..N : l + j \in 1..(l + N) /\ G[l + j].stacktrace = ps[j].stacktrace
  <2>1. \A j \in 1..N : l + j \in 1..(l + N)
    BY <1>1, <1>2
  <2> QED
    BY ONLY <2>1, <1>3, <1>7
<1>9. \A i \in DOMAIN hs : hs[i] \in 1..l /\ hs[i] \in 1..(l + N) /\ i \in DOMAIN r.highest
                           /\ r.highest[i] = hs[i] /\ G[hs[i]].stacktrace = h[hs[i]].stacktrace
  <2>1. \A i \in DOMAIN hs : hs[i] \in 1..l /\ hs[i] \in 1..(l + N)
    BY <1>1, <1>2, <1>4
  <2>2. Len(hs) <= Len(r.highest) /\ \A i \in DOMAIN hs : r.highest[i] = hs[i]
    BY <1>5 DEF LoopDid
  <2>3. DOMAIN hs \subseteq DOMAIN r.highest
    BY <1>4, <1>6, <2>2
  <2> QED
    BY ONLY Zenon, <2>1, <2>2, <2>3, <1>7
<1>10. \A i \in DOMAIN r.highest : r.highest[i] \in 1..(l + N)
  BY <1>6
<1>11. \A i, j \in DOMAIN r.highest :
         G[r.highest[i]].stacktrace = G[r.highest[j]].stacktrace => i = j
  <2>1. OncePerStacktrace(h, r.highest)
    BY <1>5 DEF LoopDid
  <2> QED
    BY ONLY Zenon, <2>1, <1>7, <1>10 DEF OncePerStacktrace
<1>12. ASSUME NEW j \in 1..N
       PROVE  G[l + j].value = deltaValue(Before(ps[j].stacktrace), ps[j].value)
  <2>1. ps[j].value \in Nat
    BY <1>2 DEF Sample
  <2>2. CASE \E i \in DOMAIN hs : h[hs[i]].stacktrace = ps[j].stacktrace
    <3>1. PICK i \in DOMAIN hs : h[hs[i]].stacktrace = ps[j].stacktrace
      BY <2>2
    <3>2. G[l + j].value = deltaValue(h[hs[i]].value, ps[j].value)
      BY <1>5, <3>1 DEF LoopDid
    <3> QED
      BY <3>1, <3>2, <1>4
  <2>3. CASE \A i \in DOMAIN hs : h[hs[i]].stacktrace # ps[j].stacktrace
    <3>1. G[l + j].value = ps[j].value
      BY <1>5, <2>3 DEF LoopDid
    <3>2. Before(ps[j].stacktrace) = 0
      BY <1>4, <2>3
    <3> QED
      BY <2>1, <3>1, <3>2 DEF deltaValue
  <2> QED
    BY <2>2, <2>3
<1>13. ASSUME NEW st
       PROVE  LastSent(new, n + 1, st) = IF \E s \in Range(ps) : s.stacktrace = st
                                         THEN ValueIn(ps, st) ELSE Before(st)
  BY <1>0, <1>1, SentMore DEF n, Before
<1>a. /\ \A j \in 1..N : ValueIn(ps, ps[j].stacktrace) = ps[j].value
      /\ \A st : (\E s \in Range(ps) : s.stacktrace = st)
            <=> \E j \in 1..N : ps[j].stacktrace = st
  BY ONLY Zenon, ps \in SampleSeqs, ValueOfSample DEF N
<1>14. \A j \in 1..N : LastSent(new, n + 1, ps[j].stacktrace) = ps[j].value
  BY ONLY <1>13, <1>a
<1>15. \A st : (\A j \in 1..N : ps[j].stacktrace # st) => LastSent(new, n + 1, st) = Before(st)
  BY ONLY Zenon, <1>13, <1>a
<1>16. ASSUME NEW i \in DOMAIN r.highest
       PROVE  G[r.highest[i]].value = LastSent(new, n + 1, G[r.highest[i]].stacktrace)
  <2>1. CASE \E m \in DOMAIN hs : r.highest[i] = hs[m]
    <3>1. PICK m \in DOMAIN hs : r.highest[i] = hs[m]
      BY <2>1
    <3>2. G[hs[m]].stacktrace = h[hs[m]].stacktrace
      BY <1>9
    <3>3. CASE \E j \in 1..N : ps[j].stacktrace = h[hs[m]].stacktrace
      <4>1. PICK j \in 1..N : ps[j].stacktrace = h[hs[m]].stacktrace
        BY Zenon, <3>3
      <4>2. G[hs[m]].value = ps[j].value
        BY <1>5, <4>1 DEF LoopDid
      <4> QED
        BY ONLY Zenon, <3>1, <3>2, <4>1, <4>2, <1>14
    <3>4. CASE \A j \in 1..N : ps[j].stacktrace # h[hs[m]].stacktrace
      <4>1. G[hs[m]].value = h[hs[m]].value
        BY <1>5, <3>4 DEF LoopDid
      <4> QED
        BY ONLY <3>1, <3>2, <3>4, <4>1, <1>4, <1>15
    <3> QED
      BY <3>3, <3>4
  <2>2. CASE \A m \in DOMAIN hs : r.highest[i] # hs[m]
    <3>1. PICK j \in 1..N : r.highest[i] = l + j
      BY <1>5, <2>2 DEF LoopDid
    <3>2. \A m \in DOMAIN hs : h[hs[m]].stacktrace # ps[j].stacktrace
      BY ONLY <2>2, <3>1, <1>8, <1>9, <1>11
    <3>3. G[l + j].value = ps[j].value
      BY <1>5, <3>2 DEF LoopDid
    <3> QED
      BY ONLY Zenon, <3>1, <3>3, <1>8, <1>14
  <2> QED
    BY Zenon, <2>1, <2>2
<1>17. ASSUME NEW m \in DOMAIN new, NEW s \in Range(new[m])
       PROVE  \E i \in DOMAIN r.highest : G[r.highest[i]].stacktrace = s.stacktrace
  <2>1. DOMAIN new = (DOMAIN sent) \cup {n + 1} /\ (\A k \in DOMAIN sent : new[k] = sent[k])
        /\ new[n + 1] = ps
    BY <1>0, <1>1 DEF n
  <2>2. \A i \in DOMAIN hs : h[hs[i]] = heap[hs[i]]
    BY ONLY <1>3, <1>9
  <2>3. CASE m \in DOMAIN sent
    <3>1. PICK i \in DOMAIN hs : heap[hs[i]].stacktrace = s.stacktrace
      BY <2>1, <2>3 DEF IInv, HighestAreLast, hs
    <3> QED
      BY ONLY <3>1, <2>2, <1>9
  <2>4. CASE m = n + 1
    <3>1. PICK j \in 1..N : ps[j].stacktrace = s.stacktrace
      BY Zenon, <2>1, <2>4, ValueOfSample DEF N
    <3>2. CASE \E i \in DOMAIN hs : h[hs[i]].stacktrace = ps[j].stacktrace
      BY ONLY Zenon, <3>1, <3>2, <1>9
    <3>3. CASE \A i \in DOMAIN hs : h[hs[i]].stacktrace # ps[j].stacktrace
      <4>1. \E i \in DOMAIN r.highest : r.highest[i] = l + j
        BY <1>5, <3>3 DEF LoopDid
      <4> QED
        BY ONLY Zenon, <3>1, <4>1, <1>8
    <3> QED
      BY <3>2, <3>3
  <2> QED
    BY <2>1, <2>3, <2>4
<1>18. \A j \in 1..N : /\ G[l + j].stacktrace = ps[j].stacktrace
                        /\ G[l + j].value = deltaValue(Before(G[l + j].stacktrace), ps[j].value)
  BY ONLY <1>8, <1>12
<1>19. r.heap \in Seq(Sample) /\ Len(r.heap) = l + N /\ r.highest \in Seq(1..Len(r.heap))
  BY ONLY <1>6
<1> QED
  BY ONLY <1>18, <1>19, <1>11, <1>16, <1>17, Zenon DEF l, N, n, Before, Left, h, as, r, new

(* The samples ps of a profile, at addresses as after the first l of the   *)
(* heap G, are the values D of their stacktraces.                          *)
HasValues(G, l, ps, D, as) ==
    /\ G \in Seq(Sample) /\ l \in Nat /\ Len(G) = l + Len(ps)
    /\ DOMAIN as = 1..Len(ps)
    /\ \A j \in 1..Len(ps) : /\ as[j] = l + j
                             /\ G[l + j].stacktrace = ps[j].stacktrace
                             /\ G[l + j].value = D[ps[j].stacktrace]

(* The samples at addresses S in G are those values, without zeros.        *)
AreValues(G, ps, D, S) ==
    /\ S \subseteq 1..Len(G)
    /\ Cardinality({G[a].stacktrace : a \in S}) = Cardinality(S)
    /\ \A st \in Stacktraces :
         LET at == {a \in S : G[a].stacktrace = st} IN
         IF at = {} THEN D[st] = 0 \/ \A s \in Range(ps) : s.stacktrace # st
         ELSE \A a \in at : G[a].value = D[st] /\ G[a].value # 0

(* What is left of a profile without its zeros.                            *)
LEMMA StoredIsDelta ==
    ASSUME NEW ps \in SampleSeqs, NEW G, NEW l, NEW D, NEW as, HasValues(G, l, ps, D, as)
    PROVE  AreValues(G, ps, D, withoutZeros(G, as))
<1> DEFINE S == withoutZeros(G, as)
<1> HIDE DEF S
<1>0. /\ G \in Seq(Sample) /\ l \in Nat /\ Len(G) = l + Len(ps)
      /\ DOMAIN as = 1..Len(ps)
      /\ \A j \in 1..Len(ps) : /\ as[j] = l + j
                               /\ G[l + j].stacktrace = ps[j].stacktrace
                               /\ G[l + j].value = D[ps[j].stacktrace]
  BY Zenon DEF HasValues
<1> DEFINE N == Len(ps)
           f == [a \in S |-> G[a].stacktrace]
           T == {G[a].stacktrace : a \in S}
<1>1. /\ N \in Nat /\ \A i, j \in 1..N : ps[i].stacktrace = ps[j].stacktrace => i = j
      /\ Range(ps) = {ps[j] : j \in 1..N}
  BY Profiles DEF Range
<1>2. Range(as) = {l + j : j \in 1..N}
  <2>1. DOMAIN as = 1..N /\ \A j \in 1..N : as[j] = l + j
    BY Zenon, <1>0
  <2> HIDE DEF N
  <2> QED
    BY ONLY Zenon, <2>1 DEF Range
<1>3. S = {a \in {l + j : j \in 1..N} : G[a].value # 0}
  BY <1>2 DEF withoutZeros, S
<1>4. \A a \in S : \E j \in 1..N : a = l + j /\ G[a].stacktrace = ps[j].stacktrace
                                   /\ G[a].value = D[ps[j].stacktrace] /\ G[a].value # 0
  <2> TAKE a \in S
  <2>1. PICK j \in 1..N : a = l + j
    BY ONLY <1>3, a \in S
  <2>2. G[a].value # 0
    BY ONLY <1>3, a \in S
  <2> QED
    BY Zenon, <1>0, <2>1, <2>2
<1>5. \A j \in 1..N : G[l + j].value # 0 => l + j \in S
  BY <1>3
<1>6. S \subseteq 1..Len(G)
  <2>1. \A j \in 1..N : l + j \in 1..Len(G)
    BY <1>0, <1>1
  <2> QED
    BY ONLY <1>4, <2>1
<1> HIDE DEF N
<1>7. Cardinality(T) = Cardinality(S)
  <2>1. \A a, b \in S : G[a].stacktrace = G[b].stacktrace => a = b
    BY ONLY <1>1, <1>4
  <2>2. f \in Bijection(S, T)
    <3>1. f \in [S -> T] /\ \A a \in S : f[a] = G[a].stacktrace
      OBVIOUS
    <3>2. \A t \in T : \E a \in S : f[a] = t
      BY <3>1
    <3> HIDE DEF f, T
    <3>3. f \in Injection(S, T)
      BY ONLY Zenon, <2>1, <3>1 DEF Injection, IsInjective
    <3>4. f \in Surjection(S, T)
      BY ONLY <3>1, <3>2 DEF Surjection
    <3> QED
      BY ONLY <3>3, <3>4 DEF Bijection
  <2>3. IsFiniteSet(S)
    <3>1. l + Len(ps) \in Nat
      BY <1>0, <1>1 DEF N
    <3>2. IsFiniteSet(1..(l + Len(ps)))
      BY ONLY <3>1, FS_Interval
    <3> QED
      BY Zenon, <1>0, <1>6, <3>2, FS_Subset
  <2> HIDE DEF f, T
  <2> QED
    BY Zenon, <2>2, <2>3, FS_Bijection DEF ExistsBijection
<1>8. ASSUME NEW st \in Stacktraces
      PROVE  LET at == {a \in S : G[a].stacktrace = st} IN
             IF at = {} THEN D[st] = 0 \/ \A s \in Range(ps) : s.stacktrace # st
             ELSE \A a \in at : G[a].value = D[st] /\ G[a].value # 0
  <2> DEFINE at == {a \in S : G[a].stacktrace = st}
  <2>1. \A a \in at : G[a].value = D[st] /\ G[a].value # 0
    BY ONLY <1>4
  <2>2. ASSUME at = {}, NEW s \in Range(ps), s.stacktrace = st
        PROVE  D[st] = 0
    <3>1. PICK j \in 1..N : s = ps[j]
      BY <1>1
    <3>2. l + j \notin at
      BY <2>2
    <3>3. G[l + j].stacktrace = st /\ G[l + j].value = D[st]
      BY Zenon, <1>0, <2>2, <3>1 DEF N
    <3> QED
      BY ONLY Zenon, <3>2, <3>3, <1>5
  <2> QED
    BY <2>1, <2>2
<1> QED
  BY ONLY <1>6, <1>7, <1>8, Zenon DEF AreValues, S

(* The other profiles are stored as deltas.                                *)
LEMMA KnownIInv ==
    ASSUME IInv, NEW ps \in SampleSeqs, known, sent' = Append(sent, ps), known' = known,
           NEW h, h = heap \o ps, NEW as, as = Addresses(h, Len(ps)),
           NEW r, r = deltaSamples(h, highestSamples, as),
           highestSamples' = r.highest, heap' = r.heap,
           stored' = Append(stored, withoutZeros(r.heap, as))
    PROVE  IInv'
<1> DEFINE l == Len(heap)
           N == Len(ps)
           n == Len(sent)
           D == [st \in Stacktraces |-> deltaValue(LastSent(sent, n, st), ValueIn(ps, st))]
           S == withoutZeros(r.heap, as)
<1>1. /\ heap \in Seq(Sample) /\ l \in Nat /\ DOMAIN heap = 1..l /\ sent \in Seq(SampleSeqs)
      /\ n \in Nat /\ stored \in Seq(SUBSET (1..l)) /\ n = Len(stored) + 1 /\ known' = TRUE
  <2>1. heap \in Seq(Sample) /\ sent \in Seq(SampleSeqs) /\ stored \in Seq(SUBSET DOMAIN heap)
        /\ known \in BOOLEAN
    BY DEF IInv, TypeOK
  <2>2. n = Len(stored) + 1
    BY DEF IInv, AllButFirstStored
  <2>3. DOMAIN heap = 1..l /\ l \in Nat /\ n \in Nat
    BY <2>1
  <2>4. known' = TRUE
    BY <2>1, Zenon
  <2> QED
    BY ONLY <2>1, <2>2, <2>3, <2>4
<1>2. N \in Nat /\ \A j \in 1..N : ps[j] \in Sample
  BY Profiles
<1>3. /\ heap' \in Seq(Sample) /\ Len(heap') = l + N
      /\ highestSamples' \in Seq(1..Len(heap'))
      /\ \A j \in 1..N : /\ heap'[l + j].stacktrace = ps[j].stacktrace
                         /\ heap'[l + j].value
                              = deltaValue(LastSent(sent, n, heap'[l + j].stacktrace), ps[j].value)
      /\ \A i, j \in DOMAIN highestSamples' :
           heap'[highestSamples'[i]].stacktrace = heap'[highestSamples'[j]].stacktrace => i = j
      /\ \A i \in DOMAIN highestSamples' :
           heap'[highestSamples'[i]].value
              = LastSent(sent', n + 1, heap'[highestSamples'[i]].stacktrace)
      /\ \A m \in DOMAIN sent' : \A s \in Range(sent'[m]) :
           \E i \in DOMAIN highestSamples' : heap'[highestSamples'[i]].stacktrace = s.stacktrace
  <2>1. Left(ps, r, sent')
    BY KnownDoes
  <2> QED
    BY ONLY Zenon, <2>1, highestSamples' = r.highest, heap' = r.heap DEF Left
<1>4. /\ sent' \in Seq(SampleSeqs) /\ Len(sent') = n + 1 /\ sent'[n + 1] = ps
      /\ \A st : LastSent(sent', n, st) = LastSent(sent, n, st)
  <2>1. \A st : LastSent(Append(sent, ps), n, st) = LastSent(sent, n, st)
    BY ONLY Zenon, <1>1, ps \in SampleSeqs, SentMore
  <2> QED
    BY <1>1, <2>1
<1>5. DOMAIN as = 1..N /\ \A j \in 1..N : as[j] = l + j
  BY <1>1, <1>2, Placed
<1>6. \A j \in 1..N : heap'[l + j].value = D[ps[j].stacktrace]
  <2>1. \A j \in 1..N : ps[j].stacktrace \in Stacktraces
    BY ONLY <1>2 DEF Sample
  <2>2. \A j \in 1..N : ValueIn(ps, ps[j].stacktrace) = ps[j].value
    BY ValueOfSample
  <2> QED
    BY ONLY <1>3, <2>1, <2>2
<1> HIDE DEF D
<1>7. AreValues(heap', ps, D, S)
  <2>1. HasValues(heap', l, ps, D, as)
    BY ONLY Zenon, <1>1, <1>3, <1>5, <1>6 DEF HasValues
  <2> QED
    BY <2>1, StoredIsDelta
<1> HIDE DEF S
<1>8. /\ stored' = Append(stored, S) /\ Len(stored') = n /\ stored'[n] = S /\ stored' # <<>>
      /\ stored' \in Seq(SUBSET (1..Len(heap')))
  <2>1. stored' = Append(stored, S)
    BY DEF S
  <2>2. Len(stored') = n /\ stored'[n] = S
    BY <1>1, <2>1
  <2>3. SUBSET (1..l) \subseteq SUBSET (1..Len(heap'))
    <3> HIDE DEF l, N
    <3>1. 1..l \subseteq 1..Len(heap')
      BY ONLY <1>1, <1>2, <1>3
    <3> QED
      BY ONLY <3>1
  <2> DEFINE U == SUBSET (1..Len(heap'))
  <2>4. S \in U /\ SUBSET (1..l) \subseteq U
    BY <1>7, <2>3 DEF AreValues
  <2> HIDE DEF U, l
  <2>5. stored \in Seq(U)
    BY ONLY <1>1, <2>4
  <2>6. Append(stored, S) \in Seq(U) /\ Append(stored, S) # <<>>
    BY ONLY <2>4, <2>5
  <2> QED
    BY ONLY <2>1, <2>2, <2>6 DEF U
<1>9. TypeOK'
  <2>1. DOMAIN heap' = 1..Len(heap')
    BY ONLY <1>3
  <2>2. known' \in BOOLEAN
    BY ONLY <1>1, Zenon
  <2> QED
    BY ONLY Zenon, <1>3, <1>4, <1>8, <2>1, <2>2 DEF TypeOK
<1>10. AllButFirstStored'
  BY Zenon, <1>1, <1>4, <1>8 DEF AllButFirstStored
<1>11. HighestAreLast'
  BY ONLY <1>3, <1>4 DEF HighestAreLast
<1>12. StoredAsDelta'
  <2>1. Len(stored') + 1 = n + 1 /\ (Len(stored') + 1) - 1 = n
    BY <1>1, <1>8
  <2>2. ASSUME NEW st \in Stacktraces
        PROVE  D[st] = LET last == LastSent(sent', (Len(stored') + 1) - 1, st)
                           new  == ValueIn(sent'[Len(stored') + 1], st)
                       IN  IF last <= new THEN new - last ELSE new
    <3>1. LastSent(sent', (Len(stored') + 1) - 1, st) = LastSent(sent, n, st)
      BY ONLY <1>4, <2>1
    <3>2. ValueIn(sent'[Len(stored') + 1], st) = ValueIn(ps, st)
      BY ONLY <1>4, <2>1
    <3> QED
      BY ONLY Zenon, <3>1, <3>2, st \in Stacktraces DEF D, deltaValue
  <2>3. stored'[Len(stored')] = S /\ sent'[Len(stored') + 1] = ps
    BY ONLY Zenon, <1>4, <1>8, <2>1
  <2> HIDE DEF n, l, N
  <2> QED
    BY ONLY Zenon, <1>7, <2>2, <2>3 DEF AreValues, StoredAsDelta, IsDeltaOf, Delta
<1> QED
  BY <1>9, <1>10, <1>11, <1>12 DEF IInv

-----------------------------------------------------------------------------
(* The initial state has no profiles.                                      *)
LEMMA InitIInv == Init => IInv
<1> SUFFICES ASSUME Init PROVE IInv
  OBVIOUS
<1>1. /\ heap = <<>> /\ known = FALSE /\ highestSamples = <<>> /\ stored = <<>> /\ sent = <<>>
  BY DEF Init
<1>2. DOMAIN highestSamples = {} /\ DOMAIN sent = {}
  BY <1>1
<1>3. TypeOK
  <2>1. \A T : <<>> \in Seq(T)
    OBVIOUS
  <2>2. known \in BOOLEAN
    BY <1>1, Zenon
  <2> QED
    BY ONLY <1>1, <2>1, <2>2, Zenon DEF TypeOK
<1> QED
  BY <1>1, <1>2, <1>3 DEF IInv, AllButFirstStored, HighestAreLast, StoredAsDelta

(* Each step of the specification keeps the invariant.                     *)
LEMMA NextIInv == IInv /\ [Next]_vars => IInv'
<1> SUFFICES ASSUME IInv, [Next]_vars PROVE IInv'
  OBVIOUS
<1>1. ASSUME NEW ps \in SampleSeqs, computeDelta(ps) PROVE IInv'
  <2>1. CASE ~known
    BY Zenon, <1>1, <2>1, FirstIInv DEF computeDelta
  <2>2. CASE known
    <3> DEFINE h == heap \o ps
               as == Addresses(h, Len(ps))
               r == deltaSamples(h, highestSamples, as)
    <3>1. /\ sent' = Append(sent, ps) /\ known' = known
          /\ highestSamples' = r.highest /\ heap' = r.heap
          /\ stored' = Append(stored, withoutZeros(r.heap, as))
      BY Zenon, <1>1, <2>2 DEF computeDelta
    <3> QED
      BY Zenon, <2>2, <3>1, KnownIInv
  <2> QED
    BY <2>1, <2>2
<1>2. CASE UNCHANGED vars
  BY SMTT(30), <1>2 DEF vars, IInv, TypeOK, AllButFirstStored, HighestAreLast, StoredAsDelta,
     IsDeltaOf, Delta
<1> QED
  BY <1>1, <1>2 DEF Next

(* The invariant that carries the others: the highest samples of a series  *)
(* are those of the stacktraces sent so far, once each, with the values    *)
(* last sent for them.                                                     *)
THEOREM DeltaInvariant == Spec => []IInv
  BY InitIInv, NextIInv, PTL DEF Spec

(* computeDelta: what is stored of a profile are the differences to the    *)
(* values last sent for its stacktraces, or the values themselves after a  *)
(* reset or for a stacktrace that was not sent before, without zeros.      *)
THEOREM DeltasAreStored == Spec => []StoredAsDelta
<1>1. IInv => StoredAsDelta
  BY DEF IInv
<1> QED
  BY <1>1, DeltaInvariant, PTL
=============================================================================

-------------------------- MODULE MergeStreamProofs --------------------------
(***************************************************************************)
(* Proofs about MergeStream: a query that succeeds has merged every        *)
(* profile of every ingester, and with streams that are in order each of   *)
(* them once.  All of it for any ingesters, profiles, batch size and       *)
(* number of streams that break.                                           *)
(*                                                                         *)
(* The first part is about data: a finite set of profiles can be sorted,   *)
(* and the batches of a store have its profiles in that order.  The second *)
(* is an invariant of the protocol: where the two ends of a stream can be  *)
(* at the same time, and that what the iterators have behind them has been *)
(* chosen at some ingester.                                                *)
(***************************************************************************)
EXTENDS MergeStream, TLAPS, FiniteSetTheorems

-----------------------------------------------------------------------------
(* Induction over a range of numbers, from the well-foundedness of Nat.    *)
LEMMA RangeInduction ==
    ASSUME NEW m \in Nat, NEW T, 0 \in T, \A n \in 0..m : n \in T /\ n < m => n + 1 \in T
    PROVE  \A n \in 0..m : n \in T
<1> DEFINE R == OpToRel(<, Nat)
           U == {n \in 0..m : n \notin T}
<1>1. IsWellFoundedOn(R, Nat)
  BY NatLessThanWellFounded, Zenon
<1>2. \A x \in Nat, y \in Nat : y < x => <<y, x>> \in R
  BY DEF OpToRel
<1> HIDE DEF R
<1> SUFFICES ASSUME U # {} PROVE FALSE
  OBVIOUS
<1>3. PICK x \in U : \A y \in U : <<y, x>> \notin R
  <2>1. U \subseteq Nat
    OBVIOUS
  <2> HIDE DEF U
  <2> QED
    BY Zenon, <1>1, <2>1, WFMin
<1>4. x \in Nat /\ x # 0 /\ x - 1 \in 0..m /\ x - 1 \in Nat /\ x - 1 < x
  OBVIOUS
<1>5. x - 1 \notin U
  BY Zenon, <1>2, <1>3, <1>4
<1> QED
  BY <1>4, <1>5

-----------------------------------------------------------------------------
(* The profiles of a store in order *)

(* A finite set of numbers is bounded.                                     *)
LEMMA Bounded ==
    ASSUME NEW P, IsFiniteSet(P), P \subseteq Nat
    PROVE  \E n \in Nat : \A x \in P : x < n
<1> DEFINE Bound(S) == \E n \in Nat : \A x \in S : x < n
           T == {c \in Nat : \A S \in SUBSET P : Cardinality(S) = c => Bound(S)}
<1>1. \A S \in SUBSET P : IsFiniteSet(S) /\ Cardinality(S) \in Nat
  BY Zenon, FS_Subset, FS_CardinalityType
<1>2. 0 \in T
  <2>1. \A S \in SUBSET P : Cardinality(S) = 0 => S = {}
    BY <1>1, FS_EmptySet
  <2> QED
    BY <2>1
<1>3. ASSUME NEW c \in Nat, c \in T
      PROVE  c + 1 \in T
  <2> SUFFICES ASSUME NEW S \in SUBSET P, Cardinality(S) = c + 1
               PROVE  Bound(S)
    OBVIOUS
  <2>1. S # {}
    <3>1. Cardinality({}) = 0 /\ c + 1 # 0
      BY FS_EmptySet
    <3> QED
      BY <3>1
  <2>2. PICK x \in S : TRUE
    BY Zenon, <2>1
  <2>3. Cardinality(S \ {x}) = c
    <3>1. Cardinality(S \ {x}) = Cardinality(S) - 1
      BY ONLY <1>1, <2>2, S \in SUBSET P, FS_RemoveElement
    <3> QED
      BY <3>1
  <2>4. Bound(S \ {x})
    BY <1>3, <2>3
  <2>5. PICK n \in Nat : \A y \in S \ {x} : y < n
    BY <2>4
  <2> DEFINE N == IF x < n THEN n ELSE x + 1
  <2>6. N \in Nat /\ \A y \in S : y < N
    BY <2>5
  <2> QED
    BY Zenon, <2>6
<1> HIDE DEF T
<1>4. Cardinality(P) \in 0..Cardinality(P) /\ Cardinality(P) \in Nat
  BY FS_CardinalityType
<1>5. Cardinality(P) \in T
  <2>1. \A n \in 0..Cardinality(P) : n \in T /\ n < Cardinality(P) => n + 1 \in T
    BY <1>3, <1>4
  <2> QED
    BY <1>2, <1>4, <2>1, RangeInduction
<1> QED
  BY <1>5 DEF T

(* A finite set of numbers can be put in ascending order.                  *)
LEMMA CanBeSorted ==
    ASSUME NEW P, IsFiniteSet(P), P \subseteq Nat
    PROVE  \E s \in [1..Cardinality(P) -> P] : Ascending(s)
<1> DEFINE Below(n) == {S \in SUBSET Nat : \A x \in S : x < n}
           Can(S) == \E s \in [1..Cardinality(S) -> S] : Ascending(s)
           T == {n \in Nat : \A S \in Below(n) : Can(S)}
<1>1. ASSUME NEW n \in Nat, NEW S \in Below(n)
      PROVE  IsFiniteSet(S) /\ Cardinality(S) \in Nat
  <2>1. S \in SUBSET Nat /\ \A x \in S : x <= n
    OBVIOUS
  <2>2. IsFiniteSet(S)
    BY ONLY <2>1, n \in Nat, FS_BoundedSetOfNaturals
  <2> QED
    BY <2>2, FS_CardinalityType
<1>2. 0 \in T
  <2>1. \A S \in Below(0) : S = {}
    OBVIOUS
  <2>2. Can({})
    <3>1. 1..Cardinality({}) = {}
      BY FS_EmptySet
    <3> DEFINE e == [k \in {} |-> 0]
    <3>2. e \in [1..Cardinality({}) -> {}] /\ Ascending(e)
      BY <3>1 DEF Ascending
    <3> QED
      BY Zenon, <3>2
  <2> QED
    BY Zenon, <2>1, <2>2
<1>3. ASSUME NEW n \in Nat, n \in T
      PROVE  n + 1 \in T
  <2> SUFFICES ASSUME NEW S \in Below(n + 1)
               PROVE  Can(S)
    OBVIOUS
  <2>1. CASE n \notin S
    <3>1. S \in Below(n)
      BY <2>1
    <3> QED
      BY Zenon, <1>3, <3>1
  <2>2. CASE n \in S
    <3> DEFINE S0 == S \ {n}
               c == Cardinality(S0)
    <3>1. S0 \in Below(n)
      OBVIOUS
    <3>2. PICK s \in [1..c -> S0] : Ascending(s)
      BY Zenon, <1>3, <3>1
    <3>3. c \in Nat /\ Cardinality(S) = c + 1
      <4>1. IsFiniteSet(S0) /\ c \in Nat
        BY <1>1, <3>1
      <4>2. S0 \cup {n} = S /\ n \notin S0
        BY <2>2
      <4> QED
        BY Zenon, <4>1, <4>2, FS_AddElement
    <3>4. s \in [1..c -> S0]
      BY Zenon, <3>2
    <3>5. \A j, k \in 1..c : j < k => s[j] < s[k]
      BY Zenon, <3>2, <3>4 DEF Ascending
    <3>6. \A k \in 1..c : s[k] \in S /\ s[k] < n
      BY Zenon, <3>1, <3>4
    <3> HIDE DEF c, S0
    <3> DEFINE t == [k \in 1..(c + 1) |-> IF k = c + 1 THEN n ELSE s[k]]
    <3>7. t \in [1..(c + 1) -> S]
      BY <2>2, <3>3, <3>6
    <3>8. \A j, k \in 1..(c + 1) : j < k => t[j] < t[k]
      BY <3>3, <3>5, <3>6
    <3>9. t \in [1..Cardinality(S) -> S] /\ Ascending(t)
      <4> HIDE DEF t
      <4> QED
        BY <3>3, <3>7, <3>8 DEF Ascending
    <3> QED
      BY Zenon, <3>9
  <2> QED
    BY <2>1, <2>2
<1>4. PICK n \in Nat : \A x \in P : x < n
  BY Zenon, Bounded
<1> HIDE DEF T
<1>5. n \in T
  <2>1. \A k \in 0..n : k \in T /\ k < n => k + 1 \in T
    BY <1>3
  <2> QED
    BY <1>2, <2>1, RangeInduction
<1> QED
  BY Zenon, <1>4, <1>5 DEF T

(* Sorted has all profiles of a store, in order.                           *)
LEMMA SortedHasAll ==
    ASSUME NEW S \in SUBSET Profiles
    PROVE  /\ Sorted(S) \in Seq(Profiles)
           /\ Ascending(Sorted(S))
           /\ \A k \in 1..Len(Sorted(S)) : Sorted(S)[k] \in S
           /\ \A p \in S : \E k \in 1..Len(Sorted(S)) : Sorted(S)[k] = p
<1> DEFINE s == Sorted(S)
           c == Cardinality(S)
<1>1. IsFiniteSet(S) /\ c \in Nat /\ S \subseteq Nat
  BY Zenon, FS_Subset, FS_CardinalityType, MergeStreamAssumption
<1>2. s \in [1..c -> S] /\ Ascending(s)
  BY Zenon, <1>1, CanBeSorted DEF Sorted
<1> HIDE DEF s
<1>3. s \in [1..c -> S] /\ \A j, k \in 1..c : j # k => s[j] # s[k]
  <2>1. \A j, k \in 1..c : j < k => s[j] < s[k]
    BY <1>2 DEF Ascending
  <2>2. \A j, k \in 1..c : j # k => j < k \/ k < j
    BY <1>1
  <2>3. \A j \in 1..c : s[j] \in Nat
    BY Zenon, <1>1, <1>2
  <2> QED
    BY <1>2, <2>1, <2>2, <2>3
<1>4. s \in Injection(1..c, S)
  BY <1>3 DEF Injection, IsInjective
<1>5. Cardinality(1..c) = c
  BY <1>1, FS_Interval
<1>6. s \in Surjection(1..c, S)
  BY <1>1, <1>4, <1>5, FS_Injection
<1>7. Len(s) = c /\ s \in Seq(Profiles)
  <2>1. s \in [1..c -> Profiles]
    BY <1>3
  <2> QED
    BY ONLY <1>1, <2>1
<1>8. \A p \in S : \E k \in 1..c : s[k] = p
  BY <1>6 DEF Surjection
<1> QED
  BY <1>2, <1>3, <1>7, <1>8 DEF s

-----------------------------------------------------------------------------
(* The batches of a store *)

(* The batches are as many as it takes.                                    *)
LEMMA EnoughBatches ==
    ASSUME NEW n \in Nat
    PROVE  LET q == (n + BatchSize - 1) \div BatchSize
           IN  q \in Nat /\ n <= q * BatchSize /\ q * BatchSize < n + BatchSize
  BY MergeStreamAssumption

(* A position is in one batch.                                             *)
LEMMA BatchOfPosition ==
    ASSUME NEW j \in Nat \ {0}
    PROVE  \E m \in Nat \ {0}, k \in 1..BatchSize : j = (m - 1) * BatchSize + k
<1> DEFINE m == (j - 1) \div BatchSize
<1>1. m \in Nat /\ m * BatchSize <= j - 1 /\ j - 1 < m * BatchSize + BatchSize
  BY MergeStreamAssumption
<1> HIDE DEF m
<1> DEFINE w == m * BatchSize
<1>2. w \in Nat
  BY <1>1, MergeStreamAssumption
<1>3. j - w \in 1..BatchSize /\ j = w + (j - w)
  BY <1>1, <1>2, MergeStreamAssumption
<1>4. m + 1 \in Nat \ {0} /\ ((m + 1) - 1) * BatchSize = w
  BY <1>1
<1> QED
  BY <1>3, <1>4

(* A batch ends before the later ones begin.                               *)
LEMMA BatchesInOrder ==
    ASSUME NEW m \in Nat, NEW k \in Nat, m < k
    PROVE  m * BatchSize + BatchSize <= k * BatchSize /\ m * BatchSize \in Nat /\ k * BatchSize \in Nat
  BY MergeStreamAssumption

(* ReadBatch has the profiles of the store in their order, in batches that *)
(* are not empty.                                                          *)
LEMMA ReadBatchKeepsOrder ==
    ASSUME NEW s \in Seq(Profiles)
    PROVE  /\ ReadBatch(s) \in Seq(Seq(Profiles))
           /\ \A m \in 1..Len(ReadBatch(s)) :
                /\ Len(ReadBatch(s)[m]) \in 1..BatchSize
                /\ \A k \in 1..Len(ReadBatch(s)[m]) :
                     /\ (m - 1) * BatchSize + k \in 1..Len(s)
                     /\ ReadBatch(s)[m][k] = s[(m - 1) * BatchSize + k]
           /\ \A j \in 1..Len(s) : \E m \in 1..Len(ReadBatch(s)) : \E k \in 1..Len(ReadBatch(s)[m]) :
                j = (m - 1) * BatchSize + k
<1> DEFINE n == Len(s)
           q == (n + BatchSize - 1) \div BatchSize
           R == ReadBatch(s)
           Start(m) == (m - 1) * BatchSize
           End(m) == IF m * BatchSize < n THEN m * BatchSize ELSE n
<1>1. n \in Nat /\ BatchSize \in Nat \ {0}
  BY MergeStreamAssumption
<1>2. q \in Nat /\ n <= q * BatchSize /\ q * BatchSize < n + BatchSize
  BY Zenon, <1>1, EnoughBatches
<1>3. R = [m \in 1..q |-> SubSeq(s, Start(m) + 1, End(m))]
  BY DEF ReadBatch
<1> HIDE DEF q, R
<1>4. ASSUME NEW m \in 1..q
      PROVE  /\ Start(m) \in Nat /\ End(m) \in Nat
             /\ Start(m) + 1 <= End(m) /\ End(m) <= n
             /\ End(m) - Start(m) <= BatchSize
             /\ End(m) = n \/ End(m) - Start(m) = BatchSize
  <2>1. /\ Start(m) + BatchSize <= q * BatchSize /\ Start(m) \in Nat /\ q * BatchSize \in Nat
    BY <1>2, BatchesInOrder
  <2>2. m * BatchSize = Start(m) + BatchSize
    BY <1>1
  <2> HIDE DEF Start
  <2> QED
    BY <1>1, <1>2, <2>1, <2>2
<1>5. ASSUME NEW m \in 1..q
      PROVE  /\ R[m] \in Seq(Profiles)
             /\ Len(R[m]) = End(m) - Start(m)
             /\ \A k \in 1..Len(R[m]) : R[m][k] = s[Start(m) + k]
  <2> DEFINE lo == Start(m) + 1
             hi == End(m)
  <2>1. R[m] = SubSeq(s, lo, hi)
    BY Zenon, <1>3
  <2>2. lo \in Int /\ hi \in Int /\ lo <= hi /\ lo >= 1 /\ hi <= n
    BY <1>4
  <2>3. lo = Start(m) + 1 /\ Start(m) \in Int
    BY <1>4
  <2> HIDE DEF lo, hi, Start
  <2>4. \A k \in lo..hi : s[k] \in Profiles
    BY <2>2
  <2>5. /\ R[m] \in Seq(Profiles)
        /\ Len(R[m]) = hi - lo + 1
        /\ \A k \in 1..(hi - lo + 1) : R[m][k] = s[lo + k - 1]
    BY ONLY <2>1, <2>2, <2>4
  <2>6. hi - lo + 1 = hi - Start(m) /\ \A k \in Int : lo + k - 1 = Start(m) + k
    BY <2>2, <2>3
  <2>7. \A k \in 1..(hi - lo + 1) : R[m][k] = s[Start(m) + k]
    <3> TAKE k \in 1..(hi - lo + 1)
    <3>1. lo + k - 1 = Start(m) + k
      BY <2>6
    <3> QED
      BY <2>5, <3>1
  <2> QED
    BY <2>5, <2>6, <2>7, Zenon DEF hi
<1>6. R \in Seq(Seq(Profiles)) /\ Len(R) = q
  <2>1. \A m \in 1..q : R[m] \in Seq(Profiles)
    BY <1>5
  <2>2. R \in [1..q -> Seq(Profiles)]
    BY <1>3, <2>1, Zenon
  <2> QED
    BY ONLY <1>2, <2>2
<1>7. ASSUME NEW j \in 1..n
      PROVE  \E m \in 1..q : \E k \in 1..Len(R[m]) : j = Start(m) + k
  <2>1. PICK m \in Nat \ {0}, k \in 1..BatchSize : j = Start(m) + k
    <3>1. j \in Nat \ {0}
      BY <1>1
    <3> QED
      BY <3>1, BatchOfPosition, Zenon
  <2>2. Start(m) \in Nat
    BY <1>1
  <2>3. m \in 1..q
    <3> SUFFICES ASSUME q < m PROVE FALSE
      BY <1>2
    <3>1. q * BatchSize <= Start(m)
      <4>1. CASE q = m - 1
        BY <1>1, <2>2, <4>1
      <4>2. CASE q < m - 1
        <5>1. q * BatchSize + BatchSize <= (m - 1) * BatchSize /\ q * BatchSize \in Nat
          BY <1>2, <4>2, BatchesInOrder
        <5> QED
          BY <1>1, <2>2, <5>1
      <4> QED
        BY <1>2, <4>1, <4>2
    <3>2. q * BatchSize \in Nat
      BY <1>1, <1>2
    <3> HIDE DEF Start
    <3> QED
      BY <1>1, <1>2, <2>1, <2>2, <3>1, <3>2
  <2>4. k \in 1..Len(R[m])
    <3>1. Len(R[m]) = End(m) - Start(m) /\ End(m) \in Nat
      BY <1>4, <1>5, <2>3
    <3>2. End(m) = n \/ End(m) - Start(m) = BatchSize
      BY <1>4, <2>3
    <3> HIDE DEF Start, End
    <3> QED
      BY <1>1, <2>1, <2>2, <3>1, <3>2
  <2> QED
    BY <2>1, <2>3, <2>4
<1>8. ASSUME NEW m \in 1..q
      PROVE  Len(R[m]) \in 1..BatchSize /\ \A k \in 1..Len(R[m]) : Start(m) + k \in 1..n
  <2> HIDE DEF Start, End
  <2> QED
    BY <1>1, <1>4, <1>5
<1> HIDE DEF Start
<1>9. /\ R \in Seq(Seq(Profiles))
      /\ \A m \in 1..Len(R) : /\ Len(R[m]) \in 1..BatchSize
                              /\ \A k \in 1..Len(R[m]) : Start(m) + k \in 1..Len(s) /\ R[m][k] = s[Start(m) + k]
      /\ \A j \in 1..Len(s) : \E m \in 1..Len(R) : \E k \in 1..Len(R[m]) : j = Start(m) + k
  BY <1>5, <1>6, <1>7, <1>8, Zenon
<1> QED
  BY <1>9, Zenon DEF R, Start

(* The order of the profiles of a sorted store goes on from batch to batch. *)
LEMMA ReadBatchAscends ==
    ASSUME NEW s \in Seq(Profiles), Ascending(s),
           NEW m \in 1..Len(ReadBatch(s)), NEW k \in 1..Len(ReadBatch(s)[m]),
           NEW n \in 1..Len(ReadBatch(s)), NEW l \in 1..Len(ReadBatch(s)[n]),
           m < n \/ (m = n /\ k < l)
    PROVE  ReadBatch(s)[m][k] < ReadBatch(s)[n][l]
<1> DEFINE R == ReadBatch(s)
           x == (m - 1) * BatchSize
           y == (n - 1) * BatchSize
<1>1. /\ R \in Seq(Seq(Profiles))
      /\ Len(R[m]) \in 1..BatchSize
      /\ x + k \in 1..Len(s) /\ R[m][k] = s[x + k]
      /\ y + l \in 1..Len(s) /\ R[n][l] = s[y + l]
  BY ReadBatchKeepsOrder, Zenon
<1>2. m \in Nat /\ n \in Nat /\ k \in Nat /\ l \in Nat /\ m - 1 \in Nat /\ n - 1 \in Nat /\ l >= 1 /\ k <= Len(R[m])
  BY <1>1
<1>3. x \in Nat /\ y \in Nat /\ (m < n => x + BatchSize <= y)
  <2>1. x \in Nat /\ y \in Nat
    BY <1>2, MergeStreamAssumption
  <2> SUFFICES ASSUME m < n PROVE x + BatchSize <= y
    BY <2>1
  <2> QED
    BY <1>2, BatchesInOrder
<1>4. m = n => x = y
  OBVIOUS
<1>5. BatchSize \in Nat
  BY MergeStreamAssumption
<1> HIDE DEF R, x, y
<1>6. x + k < y + l
  BY <1>1, <1>2, <1>3, <1>4, <1>5
<1>7. s[x + k] < s[y + l]
  BY SMTT(30), <1>1, <1>6 DEF Ascending
<1> QED
  BY <1>1, <1>7 DEF R

(* Two stores, one after the other.                                        *)
LEMMA ConcatIsInOrder ==
    ASSUME NEW s \in Seq(Profiles), NEW t \in Seq(Profiles), Ascending(s \o t)
    PROVE  /\ Ascending(s) /\ Ascending(t)
           /\ \A j \in 1..Len(s) : \A k \in 1..Len(t) : s[j] < t[k]
<1> DEFINE u == s \o t
<1>1. /\ u \in Seq(Profiles) /\ Len(u) = Len(s) + Len(t)
      /\ Len(s) \in Nat /\ Len(t) \in Nat
      /\ \A j \in 1..Len(s) : u[j] = s[j]
      /\ \A j \in 1..Len(t) : u[Len(s) + j] = t[j]
  OBVIOUS
<1> HIDE DEF u
<1>2. \A j, k \in 1..(Len(s) + Len(t)) : j < k => u[j] < u[k]
  BY <1>1 DEF Ascending, u
<1>3. Ascending(s)
  BY <1>1, <1>2 DEF Ascending
<1>4. Ascending(t)
  <2> SUFFICES ASSUME NEW j \in 1..Len(t), NEW k \in 1..Len(t), j < k
               PROVE  t[j] < t[k]
    BY DEF Ascending
  <2>1. /\ Len(s) + j \in 1..(Len(s) + Len(t)) /\ Len(s) + k \in 1..(Len(s) + Len(t))
        /\ Len(s) + j < Len(s) + k
    BY <1>1
  <2> QED
    BY Zenon, <1>1, <1>2, <2>1
<1>5. ASSUME NEW j \in 1..Len(s), NEW k \in 1..Len(t)
      PROVE  s[j] < t[k]
  <2>1. /\ j \in 1..(Len(s) + Len(t)) /\ Len(s) + k \in 1..(Len(s) + Len(t)) /\ j < Len(s) + k
    BY <1>1
  <2> QED
    BY <1>1, <1>2, <2>1
<1> QED
  BY <1>3, <1>4, <1>5

(* The batches of an ingester are never empty, have all profiles it holds, *)
(* and in the order of its stream.                                         *)
LEMMA BatchesHaveAll ==
    ASSUME TypeOK, NEW i \in Ingesters
    PROVE  /\ batches(i) \in Seq(Seq(Profiles))
           /\ \A m \in 1..Len(batches(i)) : Len(batches(i)[m]) >= 1
           /\ \A p \in Held(i) : \E m \in 1..Len(batches(i)) : \E k \in 1..Len(batches(i)[m]) :
                batches(i)[m][k] = p
           /\ Ascending(Stream(i)) =>
                \A m, n \in 1..Len(batches(i)) :
                    \A k \in 1..Len(batches(i)[m]) : \A l \in 1..Len(batches(i)[n]) :
                        m < n \/ (m = n /\ k < l) => batches(i)[m][k] < batches(i)[n][l]
<1> DEFINE H == stores[i].head
           S == stores[i].blocks
           s == Sorted(H)
           t == Sorted(S)
           R == ReadBatch(s)
           Q == ReadBatch(t)
           B == R \o Q
<1>1. H \in SUBSET Profiles /\ S \in SUBSET Profiles
  BY DEF TypeOK
<1>2. batches(i) = B /\ Stream(i) = s \o t /\ Held(i) = H \cup S
  BY DEF batches, querierFor, Stream, Held
<1> HIDE DEF H, S
<1>3. /\ s \in Seq(Profiles) /\ t \in Seq(Profiles)
      /\ \A p \in H : \E k \in 1..Len(s) : s[k] = p
      /\ \A p \in S : \E k \in 1..Len(t) : t[k] = p
  BY <1>1, SortedHasAll, Zenon
<1> HIDE DEF s, t
<1>4. /\ R \in Seq(Seq(Profiles)) /\ Q \in Seq(Seq(Profiles))
      /\ \A m \in 1..Len(R) : Len(R[m]) \in 1..BatchSize
      /\ \A m \in 1..Len(Q) : Len(Q[m]) \in 1..BatchSize
  BY <1>3, ReadBatchKeepsOrder, Zenon
<1>5. \A p \in H : \E m \in 1..Len(R) : \E k \in 1..Len(R[m]) : R[m][k] = p
  <2> TAKE p \in H
  <2>1. PICK j \in 1..Len(s) : s[j] = p
    BY <1>3
  <2>2. PICK m \in 1..Len(R) : \E k \in 1..Len(R[m]) : j = (m - 1) * BatchSize + k
    BY <1>3, ReadBatchKeepsOrder, Zenon
  <2>3. PICK k \in 1..Len(R[m]) : j = (m - 1) * BatchSize + k
    BY <2>2
  <2>4. R[m][k] = s[j]
    BY <1>3, <2>3, ReadBatchKeepsOrder, Zenon
  <2> QED
    BY <2>1, <2>4
<1>6. \A p \in S : \E m \in 1..Len(Q) : \E k \in 1..Len(Q[m]) : Q[m][k] = p
  <2> TAKE p \in S
  <2>1. PICK j \in 1..Len(t) : t[j] = p
    BY <1>3
  <2>2. PICK m \in 1..Len(Q) : \E k \in 1..Len(Q[m]) : j = (m - 1) * BatchSize + k
    BY <1>3, ReadBatchKeepsOrder, Zenon
  <2>3. PICK k \in 1..Len(Q[m]) : j = (m - 1) * BatchSize + k
    BY <2>2
  <2>4. Q[m][k] = t[j]
    BY <1>3, <2>3, ReadBatchKeepsOrder, Zenon
  <2> QED
    BY <2>1, <2>4
<1>7. Ascending(Stream(i)) =>
        /\ \A m, n \in 1..Len(R) : \A k \in 1..Len(R[m]) : \A l \in 1..Len(R[n]) :
             m < n \/ (m = n /\ k < l) => R[m][k] < R[n][l]
        /\ \A m, n \in 1..Len(Q) : \A k \in 1..Len(Q[m]) : \A l \in 1..Len(Q[n]) :
             m < n \/ (m = n /\ k < l) => Q[m][k] < Q[n][l]
        /\ \A m \in 1..Len(R) : \A n \in 1..Len(Q) : \A k \in 1..Len(R[m]) : \A l \in 1..Len(Q[n]) :
             R[m][k] < Q[n][l]
  <2> SUFFICES ASSUME Ascending(s \o t)
               PROVE  /\ \A m, n \in 1..Len(R) : \A k \in 1..Len(R[m]) : \A l \in 1..Len(R[n]) :
                           m < n \/ (m = n /\ k < l) => R[m][k] < R[n][l]
                      /\ \A m, n \in 1..Len(Q) : \A k \in 1..Len(Q[m]) : \A l \in 1..Len(Q[n]) :
                           m < n \/ (m = n /\ k < l) => Q[m][k] < Q[n][l]
                      /\ \A m \in 1..Len(R) : \A n \in 1..Len(Q) : \A k \in 1..Len(R[m]) : \A l \in 1..Len(Q[n]) :
                           R[m][k] < Q[n][l]
    BY <1>2
  <2>1. Ascending(s) /\ Ascending(t) /\ \A j \in 1..Len(s) : \A k \in 1..Len(t) : s[j] < t[k]
    BY <1>3, ConcatIsInOrder
  <2>2. /\ \A m, n \in 1..Len(R) : \A k \in 1..Len(R[m]) : \A l \in 1..Len(R[n]) :
             m < n \/ (m = n /\ k < l) => R[m][k] < R[n][l]
        /\ \A m, n \in 1..Len(Q) : \A k \in 1..Len(Q[m]) : \A l \in 1..Len(Q[n]) :
             m < n \/ (m = n /\ k < l) => Q[m][k] < Q[n][l]
    BY <1>3, <2>1, ReadBatchAscends, Zenon
  <2>3. ASSUME NEW m \in 1..Len(R), NEW n \in 1..Len(Q), NEW k \in 1..Len(R[m]), NEW l \in 1..Len(Q[n])
        PROVE  R[m][k] < Q[n][l]
    <3> DEFINE x == (m - 1) * BatchSize + k
               y == (n - 1) * BatchSize + l
    <3>1. x \in 1..Len(s) /\ R[m][k] = s[x] /\ y \in 1..Len(t) /\ Q[n][l] = t[y]
      BY <1>3, ReadBatchKeepsOrder, Zenon
    <3> HIDE DEF x, y, R, Q
    <3> QED
      BY <2>1, <3>1
  <2> QED
    BY <2>2, <2>3, Zenon
<1> HIDE DEF R, Q
<1>8. /\ B \in Seq(Seq(Profiles)) /\ Len(B) = Len(R) + Len(Q) /\ Len(R) \in Nat /\ Len(Q) \in Nat
      /\ \A m \in 1..Len(R) : m \in 1..Len(B) /\ B[m] = R[m]
      /\ \A m \in 1..Len(Q) : Len(R) + m \in 1..Len(B) /\ B[Len(R) + m] = Q[m]
  BY <1>4
<1> HIDE DEF B
<1>9. \A m \in 1..Len(B) : m \in 1..Len(R) \/ (m - Len(R) \in 1..Len(Q) /\ m = Len(R) + (m - Len(R)))
  BY <1>8
<1>10. \A m \in 1..Len(B) : Len(B[m]) >= 1
  <2> TAKE m \in 1..Len(B)
  <2>1. CASE m \in 1..Len(R)
    <3>1. B[m] = R[m]
      BY <1>8, <2>1
    <3>2. Len(R[m]) \in 1..BatchSize
      BY <1>4, <2>1, Zenon
    <3> QED
      BY <3>1, <3>2, MergeStreamAssumption
  <2>2. CASE m - Len(R) \in 1..Len(Q) /\ m = Len(R) + (m - Len(R))
    <3>1. B[m] = Q[m - Len(R)]
      BY <1>8, <2>2
    <3> QED
      BY <1>4, <2>2, <3>1
  <2> QED
    BY <1>9, <2>1, <2>2
<1>11. \A p \in H \cup S : \E m \in 1..Len(B) : \E k \in 1..Len(B[m]) : B[m][k] = p
  <2> TAKE p \in H \cup S
  <2>1. CASE p \in H
    <3>1. PICK m \in 1..Len(R) : \E k \in 1..Len(R[m]) : R[m][k] = p
      BY <1>5, <2>1
    <3> QED
      BY <1>8, <3>1
  <2>2. CASE p \in S
    <3>1. PICK m \in 1..Len(Q) : \E k \in 1..Len(Q[m]) : Q[m][k] = p
      BY <1>6, <2>2
    <3>2. Len(R) + m \in 1..Len(B) /\ B[Len(R) + m] = Q[m]
      BY <1>8
    <3> QED
      BY <3>1, <3>2
  <2> QED
    BY <2>1, <2>2
<1>12. Ascending(Stream(i)) =>
        \A m, n \in 1..Len(B) : \A k \in 1..Len(B[m]) : \A l \in 1..Len(B[n]) :
            m < n \/ (m = n /\ k < l) => B[m][k] < B[n][l]
  <2> SUFFICES ASSUME Ascending(Stream(i)),
                      NEW m \in 1..Len(B), NEW n \in 1..Len(B), NEW k \in 1..Len(B[m]), NEW l \in 1..Len(B[n]),
                      m < n \/ (m = n /\ k < l)
               PROVE  B[m][k] < B[n][l]
    BY Zenon
  <2> DEFINE a == m - Len(R)
             b == n - Len(R)
  <2>1. CASE m \in 1..Len(R) /\ n \in 1..Len(R)
    BY Zenon, <1>7, <1>8, <2>1
  <2>2. CASE m \in 1..Len(R) /\ b \in 1..Len(Q) /\ n = Len(R) + b
    <3>1. B[m] = R[m] /\ B[n] = Q[b]
      BY Zenon, <1>8, <2>2
    <3> HIDE DEF b
    <3> QED
      BY Zenon, <1>7, <2>2, <3>1
  <2>3. CASE a \in 1..Len(Q) /\ m = Len(R) + a /\ b \in 1..Len(Q) /\ n = Len(R) + b
    <3>1. B[m] = Q[a] /\ B[n] = Q[b]
      BY Zenon, <1>8, <2>3
    <3>2. a < b \/ (a = b /\ k < l)
      BY <1>8, <2>3
    <3> HIDE DEF a, b
    <3> QED
      BY <1>7, <2>3, <3>1, <3>2
  <2>4. ~(a \in 1..Len(Q) /\ m = Len(R) + a /\ n \in 1..Len(R))
    BY <1>8
  <2> QED
    BY Zenon, <1>9, <2>1, <2>2, <2>3, <2>4
<1> QED
  BY <1>2, <1>8, <1>10, <1>11, <1>12, ZenonT(40)

-----------------------------------------------------------------------------
(* Steps that leave most as it is *)

(* Two sequences with the same elements are the same.                      *)
LEMMA SameSequences ==
    ASSUME NEW S, NEW s \in Seq(S), NEW t \in Seq(S),
           Len(s) = Len(t), \A k \in 1..Len(s) : s[k] = t[k]
    PROVE  s = t
<1>1. s \in [1..Len(s) -> S] /\ t \in [1..Len(s) -> S]
  OBVIOUS
<1>2. \A f, g \in [1..Len(s) -> S] : (\A k \in 1..Len(s) : f[k] = g[k]) => f = g
  OBVIOUS
<1> QED
  BY <1>1, <1>2

(* The messages on their way are at most two.                              *)
LEMMA Queues ==
    ASSUME NEW x, NEW y
    PROVE  /\ Append(<<>>, x) = <<x>> /\ Append(<<x>>, y) = <<x, y>>
           /\ Head(<<x>>) = x /\ Head(<<x, y>>) = x
           /\ Tail(<<x>>) = <<>> /\ Tail(<<x, y>>) = <<y>>
           /\ <<>> # <<x>> /\ <<>> # <<x, y>> /\ <<x>> # <<x, y>>
           /\ Len(<<>>) = 0 /\ Len(<<x>>) = 1 /\ Len(<<x, y>>) = 2
           /\ SubSeq(<<>>, 1, 0) = <<>>
           /\ SubSeq(<<x>>, 1, 0) = <<>> /\ SubSeq(<<x>>, 1, 1) = <<x>>
           /\ SubSeq(<<x, y>>, 1, 0) = <<>> /\ SubSeq(<<x, y>>, 1, 1) = <<x>>
           /\ SubSeq(<<x, y>>, 1, 2) = <<x, y>>
<1>1. /\ <<x>> \in Seq({x, y}) /\ Len(<<x>>) = 1
      /\ <<x, y>> \in Seq({x, y}) /\ Len(<<x, y>>) = 2 /\ Len(<<>>) = 0
  OBVIOUS
<1>2. Append(<<>>, x) = <<x>> /\ SubSeq(<<>>, 1, 0) = <<>>
  OBVIOUS
<1>3. Append(<<x>>, y) = <<x, y>>
  <2> DEFINE s == Append(<<x>>, y)
             t == <<x, y>>
  <2>1. s \in Seq({x, y}) /\ Len(s) = 2 /\ s[1] = x /\ s[2] = y
    BY <1>1
  <2>2. t \in Seq({x, y}) /\ Len(t) = 2 /\ t[1] = x /\ t[2] = y
    BY <1>1
  <2> HIDE DEF s, t
  <2>3. \A k \in 1..Len(s) : s[k] = t[k]
    BY <2>1, <2>2
  <2>4. s = t
    BY <2>1, <2>2, <2>3, SameSequences
  <2> QED
    BY <2>4 DEF s, t
<1>4. Head(<<x>>) = x /\ Head(<<x, y>>) = x
  OBVIOUS
<1>5. Tail(<<x>>) = <<>>
  OBVIOUS
<1>6. Tail(<<x, y>>) = <<y>>
  OBVIOUS
<1>7. <<>> # <<x>> /\ <<>> # <<x, y>> /\ <<x>> # <<x, y>>
  OBVIOUS
<1>8. SubSeq(<<x>>, 1, 0) = <<>> /\ SubSeq(<<x, y>>, 1, 0) = <<>>
  OBVIOUS
<1>9. SubSeq(<<x>>, 1, 1) = <<x>> /\ SubSeq(<<x, y>>, 1, 2) = <<x, y>>
  <2>1. ASSUME NEW s \in Seq({x, y}) PROVE SubSeq(s, 1, Len(s)) = s
    <3> DEFINE t == SubSeq(s, 1, Len(s))
    <3>1. t \in Seq({x, y}) /\ Len(t) = Len(s) /\ \A k \in 1..Len(t) : t[k] = s[k]
      OBVIOUS
    <3> HIDE DEF t
    <3>2. t = s
      BY <3>1, SameSequences
    <3> QED
      BY <3>2 DEF t
  <2>2. SubSeq(<<x>>, 1, Len(<<x>>)) = <<x>> /\ SubSeq(<<x, y>>, 1, Len(<<x, y>>)) = <<x, y>>
    BY <1>1, <2>1, Zenon
  <2> QED
    BY <1>1, <2>2, Zenon
<1>10. SubSeq(<<x, y>>, 1, 1) = <<x>>
  <2> DEFINE s == SubSeq(<<x, y>>, 1, 1)
             t == <<x>>
  <2>1. s \in Seq({x, y}) /\ Len(s) = 1 /\ s[1] = x
    OBVIOUS
  <2>2. t \in Seq({x, y}) /\ Len(t) = 1 /\ t[1] = x
    BY <1>1
  <2> HIDE DEF s, t
  <2>3. \A k \in 1..Len(s) : s[k] = t[k]
    BY <2>1, <2>2
  <2>4. s = t
    BY <2>1, <2>2, <2>3, SameSequences
  <2> QED
    BY <2>4 DEF s, t
<1> QED
  BY <1>1, <1>2, <1>3, <1>4, <1>5, <1>6, <1>7, <1>8, <1>9, <1>10, Zenon

(* The profiles an ingester has do not change during a query.              *)
LEMMA SameBatches ==
    ASSUME stores' = stores
    PROVE  /\ \A i \in Ingesters : batches(i)' = batches(i) /\ Held(i)' = Held(i) /\ Stream(i)' = Stream(i)
           /\ InOrder' <=> InOrder
<1>1. \A i \in Ingesters : batches(i)' = batches(i) /\ Held(i)' = Held(i) /\ Stream(i)' = Stream(i)
  BY Zenon DEF batches, querierFor, Held, Stream
<1> QED
  BY <1>1, Zenon DEF InOrder

(* Client and server of one stream are in step.                            *)
InStep(i) == IteratorIsAtItsBatch(i) /\ (Selecting(i) \/ Selected(i))

(* A stream whose two ends and messages do not change stays in step, also  *)
(* when it breaks.                                                         *)
LEMMA OtherStream ==
    ASSUME NEW j \in Ingesters, InStep(j), stores' = stores,
           server'[j] = server[j], iters'[j] = iters[j], toClient'[j] = toClient[j], toServer'[j] = toServer[j],
           j \in broken => j \in broken'
    PROVE  InStep(j)'
<1>1. batches(j)' = batches(j)
  BY SameBatches
<1>2. Kept(j)' = Kept(j) /\ Dealt(j)' = Dealt(j)
  BY DEF Kept, Dealt
<1>3. IteratorIsAtItsBatch(j)'
  BY <1>1, <1>2, Zenon DEF InStep, IteratorIsAtItsBatch
<1>4. ASSUME Selecting(j) PROVE Selecting(j)'
  BY <1>4, Zenon DEF Selecting
<1>5. ASSUME Selected(j) PROVE Selected(j)'
  <2>1. ResultOf(j)' = ResultOf(j) /\ BatchOf(j, server[j].next)' = BatchOf(j, server[j].next)
    BY <1>1 DEF ResultOf, BatchOf
  <2> QED
    BY <1>1, <1>2, <1>5, <2>1, Zenon DEF Selected
<1> QED
  BY <1>3, <1>4, <1>5, Zenon DEF InStep

(* What is chosen and what is behind the iterators, in a step that leaves  *)
(* both as they are.                                                       *)
LEMMA SameChoice ==
    ASSUME BehindIsChosen, ChosenOnce, stores' = stores,
           \A f \in Ingesters : Chosen(f)' = Chosen(f),
           \A i \in Ingesters : \A m \in 1..Len(batches(i)) : \A k \in 1..Len(batches(i)[m]) :
                Behind(i, m, k)' <=> Behind(i, m, k),
           \A i \in Ingesters : iters'[i].pc # "end" => iters[i].pc # "end"
    PROVE  BehindIsChosen' /\ ChosenOnce'
<1>1. /\ \A i \in Ingesters : batches(i)' = batches(i)
      /\ InOrder' <=> InOrder
  BY SameBatches, Zenon
<1>2. BehindIsChosen'
  <2> SUFFICES ASSUME NEW i \in Ingesters, NEW m \in 1..Len(batches(i)), NEW k \in 1..Len(batches(i)[m]),
                      Behind(i, m, k)'
               PROVE  \E f \in Ingesters : batches(i)[m][k] \in Chosen(f)'
    BY <1>1 DEF BehindIsChosen
  <2>1. PICK f \in Ingesters : batches(i)[m][k] \in Chosen(f)
    BY Zenon DEF BehindIsChosen
  <2> QED
    BY <2>1
<1>3. ChosenOnce'
  BY <1>1, Zenon DEF ChosenOnce
<1> QED
  BY <1>2, <1>3

(* A step of an ingester that has not sent its result leaves the client    *)
(* alone.                                                                  *)
LEMMA ServerStep ==
    ASSUME IInv, NEW i \in Ingesters, NEW x \in ServerState, server[i].pc # "done",
           server' = [server EXCEPT ![i] = x],
           DOMAIN toClient' = Ingesters, DOMAIN toServer' = Ingesters,
           \A j \in Ingesters \ {i} : toClient'[j] = toClient[j] /\ toServer'[j] = toServer[j],
           stores' = stores, broken' = broken, iters' = iters, client' = client, result' = result,
           x.selection \cup Kept(i) = Chosen(i), InStep(i)'
    PROVE  IInv'
<1>1. TypeOK'
  <2>1. server' \in [Ingesters -> ServerState]
    BY DEF IInv, TypeOK
  <2> QED
    BY <2>1, Zenon DEF IInv, TypeOK
<1>2. /\ server'[i] = x
      /\ \A j \in Ingesters \ {i} : server'[j] = server[j]
  BY DEF IInv, TypeOK
<1>3. StreamsInStep'
  <2> SUFFICES ASSUME NEW j \in Ingesters, j # i PROVE InStep(j)'
    BY Zenon DEF StreamsInStep, InStep
  <2>1. InStep(j)
    BY Zenon DEF IInv, StreamsInStep, InStep
  <2> QED
    BY <1>2, <2>1, OtherStream
<1>4. HeapIsComplete'
  BY Zenon DEF IInv, HeapIsComplete
<1>5. \A f \in Ingesters : Chosen(f)' = Chosen(f)
  <2> TAKE f \in Ingesters
  <2>1. Kept(f)' = Kept(f)
    BY DEF Kept
  <2>2. CASE f = i
    BY <1>2, <2>1, <2>2 DEF Chosen
  <2>3. CASE f # i
    BY <1>2, <2>1, <2>3 DEF Chosen
  <2> QED
    BY <2>2, <2>3
<1>6. BehindIsChosen' /\ ChosenOnce'
  <2>1. \A j \in Ingesters : \A m \in 1..Len(batches(j)) : \A k \in 1..Len(batches(j)[m]) :
          Behind(j, m, k)' <=> Behind(j, m, k)
    BY Zenon DEF Behind, Dealt
  <2> QED
    BY <1>5, <2>1, SameChoice, Zenon DEF IInv
<1>7. CollectedIsMerged'
  <2> SUFFICES ASSUME client.pc \in {"results", "done"}, ~client.failed, NEW j \in Ingesters \ client.pending
               PROVE  /\ server'[j].pc = "done" /\ ~iters[j].err
                      /\ \A p \in server'[j].selection : result[p] >= 1
    BY Zenon DEF CollectedIsMerged
  <2>1. /\ server[j].pc = "done" /\ ~iters[j].err
        /\ \A p \in server[j].selection : result[p] >= 1
    BY Zenon DEF IInv, CollectedIsMerged
  <2> QED
    BY <1>2, <2>1, Zenon
<1>8. MergedOnce'
  <2> SUFFICES ASSUME InOrder, NEW p \in Profiles
               PROVE  /\ result[p] <= 1
                      /\ result[p] = 1 =>
                          /\ client.pc \in {"results", "done", "error"}
                          /\ \E j \in Ingesters \ client.pending : server'[j].pc = "done" /\ p \in server'[j].selection
    BY SameBatches, Zenon DEF MergedOnce
  <2>1. /\ result[p] <= 1
        /\ result[p] = 1 =>
            /\ client.pc \in {"results", "done", "error"}
            /\ \E j \in Ingesters \ client.pending : server[j].pc = "done" /\ p \in server[j].selection
    BY Zenon DEF IInv, MergedOnce
  <2> QED
    BY <1>2, <2>1, Zenon
<1> QED
  BY <1>1, <1>3, <1>4, <1>6, <1>7, <1>8 DEF IInv

-----------------------------------------------------------------------------
(* The steps of an ingester *)

(* The two ends of stream i and its messages, as the invariant has them.   *)
LEMMA StreamTypes ==
    ASSUME IInv, NEW i \in Ingesters
    PROVE  /\ InStep(i)
           /\ server[i] \in ServerState /\ iters[i] \in IteratorState
           /\ batches(i) \in Seq(Seq(Profiles)) /\ Len(batches(i)) \in Nat
           /\ \A m \in 1..Len(batches(i)) : batches(i)[m] \in Seq(Profiles) /\ Len(batches(i)[m]) >= 1
<1>1. InStep(i)
  BY Zenon DEF IInv, StreamsInStep, InStep
<1>2. server[i] \in ServerState /\ iters[i] \in IteratorState
  BY Zenon DEF IInv, TypeOK
<1>3. batches(i) \in Seq(Seq(Profiles)) /\ \A m \in 1..Len(batches(i)) : Len(batches(i)[m]) >= 1
  BY BatchesHaveAll, Zenon DEF IInv
<1> QED
  BY <1>1, <1>2, <1>3

(* An ingester that is to send goes on from the selections it has.         *)
LEMMA Sending ==
    ASSUME IInv, NEW i \in Ingesters, i \notin broken, server[i].pc = "send"
    PROVE  /\ IteratorIsAtItsBatch(i) /\ Selected(i) /\ toClient[i] = <<>>
           /\ iters[i].pc # "end" /\ ~iters[i].err
<1>1. InStep(i)
  BY StreamTypes
<1>2. ~iters[i].err
  BY <1>1, Zenon DEF InStep, IteratorIsAtItsBatch
<1>3. ~Selecting(i)
  BY DEF Selecting
<1>4. Selected(i)
  BY <1>1, <1>3 DEF InStep
<1> QED
  BY <1>1, <1>2, <1>4 DEF InStep, Selected

(* The iterator at the other end does not move.                            *)
LEMMA IteratorStays ==
    ASSUME NEW i \in Ingesters, IteratorIsAtItsBatch(i), ~iters[i].err,
           stores' = stores, broken' = broken, iters' = iters
    PROVE  IteratorIsAtItsBatch(i)'
<1>1. batches(i)' = batches(i)
  BY SameBatches
<1>2. Dealt(i)' = Dealt(i)
  BY DEF Dealt
<1> QED
  BY <1>1, <1>2, Zenon DEF IteratorIsAtItsBatch

(* An ingester sends its next batch and waits for the selection.           *)
LEMMA SendBatchIInv ==
    ASSUME IInv, NEW i \in Ingesters, SendBatch(i)
    PROVE  IInv'
<1> DEFINE x == [server[i] EXCEPT !.pc = "select"]
<1>1. server[i] \in ServerState
  BY StreamTypes
<1>2. /\ x \in ServerState /\ x.pc = "select" /\ x.next = server[i].next /\ x.selection = server[i].selection
  BY <1>1 DEF ServerState
<1>3. server' = [server EXCEPT ![i] = x] /\ server'[i] = x
  BY DEF SendBatch, IInv, TypeOK
<1>4. /\ toClient'[i] = <<BatchOf(i, server[i].next)>> /\ DOMAIN toClient' = Ingesters
      /\ \A j \in Ingesters \ {i} : toClient'[j] = toClient[j]
  <2>1. toClient[i] = <<>>
    BY Sending DEF SendBatch
  <2>2. toClient' = [toClient EXCEPT ![i] = Append(@, BatchOf(i, server[i].next))] /\ DOMAIN toClient = Ingesters
    BY DEF SendBatch, ToClient, BatchOf, IInv, TypeOK
  <2> QED
    BY <2>1, <2>2, Queues
<1>5. IteratorIsAtItsBatch(i) /\ Selected(i) /\ iters[i].pc # "end" /\ ~iters[i].err
  BY Sending DEF SendBatch
<1> HIDE DEF x
<1>6. InStep(i)'
  <2>1. IteratorIsAtItsBatch(i)'
    BY <1>5, IteratorStays DEF SendBatch
  <2>2. batches(i)' = batches(i) /\ BatchOf(i, server[i].next)' = BatchOf(i, server[i].next) /\ Kept(i)' = Kept(i)
    BY <1>2, <1>3, SameBatches DEF SendBatch, BatchOf, Kept
  <2>3. Selected(i)'
    BY <1>2, <1>3, <1>4, <1>5, <2>2 DEF SendBatch, Selected
  <2> QED
    BY <2>1, <2>3 DEF InStep
<1>7. x.selection \cup Kept(i) = Chosen(i)
  BY <1>2 DEF Chosen
<1>8. DOMAIN toServer' = Ingesters /\ server[i].pc # "done"
  BY DEF SendBatch, IInv, TypeOK
<1> QED
  BY Zenon, <1>2, <1>3, <1>4, <1>6, <1>7, <1>8, ServerStep DEF SendBatch

(* After its last batch an ingester sends the empty response.              *)
LEMMA SendEndIInv ==
    ASSUME IInv, NEW i \in Ingesters, SendEnd(i)
    PROVE  IInv'
<1> DEFINE x == [server[i] EXCEPT !.pc = "merge"]
<1>1. server[i] \in ServerState /\ Len(batches(i)) \in Nat
  BY StreamTypes
<1>2. /\ x \in ServerState /\ x.pc = "merge" /\ x.next = server[i].next /\ x.selection = server[i].selection
      /\ server[i].next \in Nat \ {0}
  BY <1>1 DEF ServerState
<1>3. server' = [server EXCEPT ![i] = x] /\ server'[i] = x
  BY DEF SendEnd, IInv, TypeOK
<1>4. /\ toClient'[i] = <<EmptyResponse>> /\ DOMAIN toClient' = Ingesters
      /\ \A j \in Ingesters \ {i} : toClient'[j] = toClient[j]
  <2>1. toClient[i] = <<>>
    BY Sending DEF SendEnd
  <2>2. toClient' = [toClient EXCEPT ![i] = Append(@, EmptyResponse)] /\ DOMAIN toClient = Ingesters
    BY DEF SendEnd, ToClient, EmptyResponse, IInv, TypeOK
  <2> QED
    BY <2>1, <2>2, Queues
<1>5. IteratorIsAtItsBatch(i) /\ Selected(i) /\ iters[i].pc # "end" /\ ~iters[i].err
  BY Sending DEF SendEnd
<1>6. iters[i].read = Len(batches(i)) /\ server[i].next = Len(batches(i)) + 1
  <2>1. iters[i].read \in 0..Len(batches(i)) /\ iters[i].read = server[i].next - 1
        /\ server[i].next > Len(batches(i))
    BY <1>5 DEF SendEnd, IteratorIsAtItsBatch, Selected
  <2> QED
    BY <1>1, <1>2, <2>1
<1> HIDE DEF x
<1>7. InStep(i)'
  <2>1. IteratorIsAtItsBatch(i)'
    BY <1>5, IteratorStays DEF SendEnd
  <2>2. batches(i)' = batches(i) /\ Kept(i)' = Kept(i)
    BY SameBatches DEF SendEnd, Kept
  <2>3. Selected(i)'
    BY <1>2, <1>3, <1>4, <1>5, <1>6, <2>2 DEF SendEnd, Selected, EmptyResponse
  <2> QED
    BY <2>1, <2>3 DEF InStep
<1>8. x.selection \cup Kept(i) = Chosen(i)
  BY <1>2 DEF Chosen
<1>9. DOMAIN toServer' = Ingesters /\ server[i].pc # "done"
  BY DEF SendEnd, IInv, TypeOK
<1> QED
  BY Zenon, <1>2, <1>3, <1>4, <1>7, <1>8, <1>9, ServerStep DEF SendEnd

(* An ingester merges what was selected and sends the result.              *)
LEMMA SendResultIInv ==
    ASSUME IInv, NEW i \in Ingesters, SendResult(i)
    PROVE  IInv'
<1> DEFINE x == [server[i] EXCEPT !.pc = "done"]
<1>1. server[i] \in ServerState /\ InStep(i)
  BY StreamTypes
<1>2. /\ x \in ServerState /\ x.pc = "done" /\ x.next = server[i].next /\ x.selection = server[i].selection
  BY <1>1 DEF ServerState
<1>3. server' = [server EXCEPT ![i] = x] /\ server'[i] = x
  BY DEF SendResult, IInv, TypeOK
<1>4. ~iters[i].err /\ IteratorIsAtItsBatch(i)
  BY <1>1, Zenon DEF SendResult, InStep, IteratorIsAtItsBatch
<1>5. Selected(i) /\ toClient[i] = IF iters[i].pc = "end" THEN <<>> ELSE <<EmptyResponse>>
  <2>1. ~Selecting(i)
    BY DEF SendResult, Selecting
  <2>2. Selected(i)
    BY <1>1, <2>1 DEF InStep
  <2> QED
    BY <2>2 DEF Selected, SendResult
<1>6. /\ toClient'[i] = IF iters[i].pc = "end" THEN <<ResultOf(i)>> ELSE <<EmptyResponse, ResultOf(i)>>
      /\ DOMAIN toClient' = Ingesters
      /\ \A j \in Ingesters \ {i} : toClient'[j] = toClient[j]
  <2>1. toClient' = [toClient EXCEPT ![i] = Append(@, ResultOf(i))] /\ DOMAIN toClient = Ingesters
    BY DEF SendResult, ToClient, ResultOf, IInv, TypeOK
  <2> QED
    BY <1>5, <2>1, Queues
<1> HIDE DEF x
<1>7. InStep(i)'
  <2>1. IteratorIsAtItsBatch(i)'
    BY <1>4, IteratorStays DEF SendResult
  <2>2. batches(i)' = batches(i) /\ Kept(i)' = Kept(i) /\ ResultOf(i)' = ResultOf(i)
    BY <1>2, <1>3, SameBatches DEF SendResult, Kept, ResultOf
  <2>3. iters[i].read = Len(batches(i)) /\ iters[i].read = server[i].next - 1 /\ toServer[i] = <<>>
        /\ Kept(i) \subseteq server[i].selection /\ iters[i].pc # "at" /\ (iters[i].pc = "next" => iters[i].read = 0)
    BY <1>5 DEF Selected, SendResult
  <2>4. Selected(i)'
    BY <1>2, <1>3, <1>6, <2>2, <2>3 DEF SendResult, Selected, EmptyResponse
  <2> QED
    BY <2>1, <2>4 DEF InStep
<1>8. x.selection \cup Kept(i) = Chosen(i)
  BY <1>2 DEF Chosen
<1>9. DOMAIN toServer' = Ingesters /\ server[i].pc # "done"
  BY DEF SendResult, IInv, TypeOK
<1> QED
  BY Zenon, <1>2, <1>3, <1>6, <1>7, <1>8, <1>9, ServerStep DEF SendResult

(* What is kept are profiles of the batch.                                 *)
LEMMA KeptAreProfiles ==
    ASSUME IInv, NEW i \in Ingesters
    PROVE  /\ Kept(i) \subseteq Profiles
           /\ iters[i].keep \subseteq 1..Len(iters[i].batch)
<1> DEFINE b == iters[i].batch
           K == iters[i].keep
           n == iters[i].idx
           d == Dealt(i)
<1>1. b \in Seq(Profiles) /\ Len(b) \in Nat /\ n \in Nat /\ d = IF iters[i].pc = "at" THEN n - 1 ELSE n
  BY StreamTypes DEF IteratorState, Dealt
<1>2. n <= Len(b) /\ K \subseteq 1..d
  BY StreamTypes, Zenon DEF InStep, IteratorIsAtItsBatch
<1>3. Kept(i) = {b[k] : k \in K}
  BY DEF Kept
<1> HIDE DEF b, K, n, d
<1>4. K \subseteq 1..Len(b)
  BY <1>1, <1>2
<1> QED
  BY <1>1, <1>3, <1>4 DEF K, b

(* An ingester adds the selection of a batch to what it has to merge.      *)
LEMMA ReceiveSelectionIInv ==
    ASSUME IInv, NEW i \in Ingesters, ReceiveSelection(i)
    PROVE  IInv'
<1> DEFINE x == [server[i] EXCEPT !.pc = "send", !.next = @ + 1, !.selection = @ \cup Kept(i)]
<1>1. server[i] \in ServerState /\ iters[i] \in IteratorState /\ InStep(i)
  BY StreamTypes
<1>2. /\ x \in ServerState /\ x.pc = "send" /\ x.next = server[i].next + 1
      /\ x.selection = server[i].selection \cup Kept(i) /\ server[i].next \in Nat \ {0}
  <2> DEFINE S == server[i].selection \cup Kept(i)
  <2>1. S \in SUBSET Profiles
    BY <1>1, KeptAreProfiles DEF ServerState
  <2>2. server[i].next \in Nat \ {0}
    BY <1>1 DEF ServerState
  <2> DEFINE n == server[i].next + 1
  <2>3. n \in Nat \ {0}
    BY <2>2
  <2>4. x = [server[i] EXCEPT !.pc = "send", !.next = n, !.selection = S]
    OBVIOUS
  <2> HIDE DEF n, S, x
  <2>5. x \in ServerState /\ x.pc = "send" /\ x.next = n /\ x.selection = S
    BY Zenon, <1>1, <2>1, <2>3, <2>4 DEF ServerState
  <2> QED
    BY <2>2, <2>5, Zenon DEF S, n
<1>3. ~iters[i].err /\ IteratorIsAtItsBatch(i)
  BY <1>1, Zenon DEF ReceiveSelection, InStep, IteratorIsAtItsBatch
<1>4. /\ iters[i].read = server[i].next /\ toServer[i] = <<iters[i].keep>> /\ toClient[i] = <<>>
      /\ iters[i].pc = "receive"
  <2>1. ~Selected(i)
    BY DEF ReceiveSelection, Selected
  <2>2. Selecting(i)
    BY <1>1, <2>1 DEF InStep
  <2> QED
    BY <1>3, <2>2 DEF Selecting, ReceiveSelection
<1>5. selected(batches(i)[server[i].next], Head(toServer[i])) = Kept(i)
  <2>1. iters[i].batch = batches(i)[server[i].next]
    BY <1>2, <1>3, <1>4 DEF IteratorIsAtItsBatch
  <2>2. Head(toServer[i]) = iters[i].keep
    BY <1>4, Queues
  <2> QED
    BY <2>1, <2>2, Zenon DEF selected, Kept
<1>6. server' = [server EXCEPT ![i] = x] /\ server'[i] = x
  BY Zenon, <1>5 DEF ReceiveSelection, IInv, TypeOK
<1>7. /\ toServer'[i] = <<>> /\ DOMAIN toServer' = Ingesters
      /\ \A j \in Ingesters \ {i} : toServer'[j] = toServer[j]
  <2>1. toServer' = [toServer EXCEPT ![i] = Tail(@)] /\ DOMAIN toServer = Ingesters
    BY DEF ReceiveSelection, IInv, TypeOK
  <2> QED
    BY <1>4, <2>1, Queues
<1> HIDE DEF x
<1>8. InStep(i)'
  <2>1. IteratorIsAtItsBatch(i)'
    BY <1>3, IteratorStays DEF ReceiveSelection
  <2>2. Kept(i)' = Kept(i)
    BY DEF ReceiveSelection, Kept
  <2>3. iters[i].read = (server[i].next + 1) - 1
    BY <1>2, <1>4
  <2>4. Selected(i)'
    BY Zenon, <1>2, <1>4, <1>6, <1>7, <2>2, <2>3 DEF ReceiveSelection, Selected
  <2> QED
    BY <2>1, <2>4 DEF InStep
<1>9. x.selection \cup Kept(i) = Chosen(i)
  BY <1>2 DEF Chosen
<1>10. DOMAIN toClient' = Ingesters /\ server[i].pc # "done"
  BY DEF ReceiveSelection, IInv, TypeOK
<1> QED
  BY Zenon, <1>2, <1>6, <1>7, <1>8, <1>9, <1>10, ServerStep DEF ReceiveSelection

(* A stream that breaks loses its last messages and nothing else.          *)
LEMMA BreakIInv ==
    ASSUME IInv, NEW i \in Ingesters, Break(i)
    PROVE  IInv'
<1>1. /\ stores' = stores /\ server' = server /\ toServer' = toServer /\ iters' = iters
      /\ client' = client /\ result' = result /\ broken' = broken \cup {i}
      /\ DOMAIN toClient = Ingesters
  BY DEF Break, IInv, TypeOK
<1>2. PICK n \in 0..Len(toClient[i]) : toClient' = [toClient EXCEPT ![i] = SubSeq(@, 1, n)]
  BY Zenon DEF Break
<1>3. /\ DOMAIN toClient' = Ingesters /\ toClient'[i] = SubSeq(toClient[i], 1, n)
      /\ \A j \in Ingesters \ {i} : toClient'[j] = toClient[j]
  BY <1>1, <1>2
<1>4. InStep(i)'
  <2>1. /\ batches(i)' = batches(i) /\ Kept(i)' = Kept(i) /\ Dealt(i)' = Dealt(i) /\ ResultOf(i)' = ResultOf(i)
        /\ BatchOf(i, server[i].next)' = BatchOf(i, server[i].next)
    BY <1>1, SameBatches DEF Kept, Dealt, ResultOf, BatchOf
  <2>2. i \in broken'
    BY <1>1
  <2>3. toClient[i] = <<>> => toClient'[i] = <<>>
    BY <1>3, Queues
  <2>4. ASSUME NEW x, toClient[i] = <<x>>
        PROVE  toClient'[i] = <<>> \/ toClient'[i] = <<x>>
    <3>1. n = 0 \/ n = 1
      BY <2>4, Queues
    <3> QED
      BY Zenon, <1>3, <2>4, <3>1, Queues
  <2>5. ASSUME NEW x, NEW y, toClient[i] = <<x, y>>
        PROVE  toClient'[i] = <<>> \/ toClient'[i] = <<x>> \/ toClient'[i] = <<x, y>>
    <3>1. n = 0 \/ n = 1 \/ n = 2
      BY <2>5, Queues
    <3>2. toClient'[i] = SubSeq(<<x, y>>, 1, n)
      BY <1>3, <2>5
    <3>3. CASE n = 0
      BY <3>2, <3>3, Queues, Zenon
    <3>4. CASE n = 1
      BY <3>2, <3>4, Queues, Zenon
    <3>5. CASE n = 2
      BY <3>2, <3>5, Queues, Zenon
    <3> QED
      BY <3>1, <3>3, <3>4, <3>5
  <2>6. InStep(i)
    BY StreamTypes
  <2>7. IteratorIsAtItsBatch(i)'
    BY <1>1, <2>1, <2>2, <2>3, <2>6, Zenon DEF InStep, IteratorIsAtItsBatch
  <2>8. CASE Selecting(i)
    <3>1. Selecting(i)'
      BY <1>1, <2>3, <2>8, Zenon DEF Selecting
    <3> QED
      BY <2>7, <3>1 DEF InStep
  <2>9. CASE Selected(i)
    <3>1. toClient[i] = <<BatchOf(i, server[i].next)>> =>
             toClient'[i] = <<BatchOf(i, server[i].next)>> \/ toClient'[i] = <<>>
      BY <2>4
    <3>2. toClient[i] = <<EmptyResponse>> => toClient'[i] = <<EmptyResponse>> \/ toClient'[i] = <<>>
      BY <2>4
    <3>3. toClient[i] = <<ResultOf(i)>> => toClient'[i] = <<ResultOf(i)>> \/ toClient'[i] = <<>>
      BY <2>4
    <3>4. toClient[i] = <<EmptyResponse, ResultOf(i)>> =>
             \/ toClient'[i] = <<EmptyResponse, ResultOf(i)>> \/ toClient'[i] = <<EmptyResponse>> \/ toClient'[i] = <<>>
      BY <2>5
    <3>5. Selected(i)'
      BY <1>1, <2>1, <2>2, <2>3, <2>9, <3>1, <3>2, <3>3, <3>4, Zenon DEF Selected, EmptyResponse
    <3> QED
      BY <2>7, <3>5 DEF InStep
  <2> QED
    BY <2>6, <2>8, <2>9 DEF InStep
<1>5. TypeOK'
  BY <1>1, <1>3, Zenon DEF IInv, TypeOK
<1>6. StreamsInStep'
  <2> SUFFICES ASSUME NEW j \in Ingesters, j # i PROVE InStep(j)'
    BY <1>4, Zenon DEF StreamsInStep, InStep
  <2>1. InStep(j)
    BY StreamTypes
  <2> QED
    BY <1>1, <1>3, <2>1, OtherStream
<1>7. HeapIsComplete' /\ CollectedIsMerged'
  BY <1>1, Zenon DEF IInv, HeapIsComplete, CollectedIsMerged
<1>8. BehindIsChosen' /\ ChosenOnce'
  <2>1. /\ \A f \in Ingesters : Chosen(f)' = Chosen(f)
        /\ \A j \in Ingesters : \A m \in 1..Len(batches(j)) : \A k \in 1..Len(batches(j)[m]) :
             Behind(j, m, k)' <=> Behind(j, m, k)
    BY <1>1, Zenon DEF Chosen, Kept, Behind, Dealt
  <2> QED
    BY <1>1, <2>1, SameChoice, Zenon DEF IInv
<1>9. MergedOnce'
  BY <1>1, SameBatches, Zenon DEF IInv, MergedOnce
<1> QED
  BY <1>5, <1>6, <1>7, <1>8, <1>9 DEF IInv

-----------------------------------------------------------------------------
(* The steps of an iterator *)

(* The iterators move while skipDuplicates waits for them.                 *)
LEMMA PendingMoves ==
    ASSUME IInv, NEW i \in Ingesters, i \in client.pending, iters[i].pc # "end"
    PROVE  client.pc \in {"requeue", "single"} /\ i \notin client.heap
<1>1. client.pc \in {"requeue", "single", "pick", "results", "done", "error"}
  BY DEF IInv, TypeOK, ClientState
<1>2. client.pc \in {"requeue", "single"}
  BY <1>1, Zenon DEF IInv, HeapIsComplete
<1> QED
  BY <1>2, Zenon DEF IInv, HeapIsComplete

(* A step of an iterator that chooses nothing and passes over nothing.     *)
LEMMA IteratorStep ==
    ASSUME IInv, NEW i \in Ingesters, NEW x \in IteratorState,
           i \in client.pending, iters[i].pc # "end",
           iters' = [iters EXCEPT ![i] = x],
           DOMAIN toClient' = Ingesters, DOMAIN toServer' = Ingesters,
           \A j \in Ingesters \ {i} : toClient'[j] = toClient[j] /\ toServer'[j] = toServer[j],
           stores' = stores, server' = server, broken' = broken, client' = client, result' = result,
           Chosen(i)' = Chosen(i),
           \A m \in 1..Len(batches(i)) : \A k \in 1..Len(batches(i)[m]) : Behind(i, m, k)' <=> Behind(i, m, k),
           InStep(i)'
    PROVE  IInv'
<1>1. TypeOK'
  <2>1. iters' \in [Ingesters -> IteratorState]
    BY DEF IInv, TypeOK
  <2> QED
    BY <2>1, Zenon DEF IInv, TypeOK
<1>2. /\ iters'[i] = x
      /\ \A j \in Ingesters \ {i} : iters'[j] = iters[j]
  BY DEF IInv, TypeOK
<1>3. StreamsInStep'
  <2> SUFFICES ASSUME NEW j \in Ingesters, j # i PROVE InStep(j)'
    BY Zenon DEF StreamsInStep, InStep
  <2>1. InStep(j)
    BY StreamTypes
  <2> QED
    BY <1>2, <2>1, OtherStream
<1>4. client.pc \in {"requeue", "single"} /\ i \notin client.heap
  BY PendingMoves
<1>5. client.pc # "pick" /\ client.pc # "results" /\ client.pc # "done" /\ client.pc # "error"
  BY <1>4
<1>6. HeapIsComplete'
  <2>1. /\ client.heap \cap client.pending = {}
        /\ \A j \in client.heap : iters[j].pc = "at"
        /\ \A j \in Ingesters \ (client.heap \cup client.pending) : iters[j].pc = "end"
    BY <1>4, Zenon DEF IInv, HeapIsComplete
  <2>2. client.heap \subseteq Ingesters
    BY DEF IInv, TypeOK, ClientState
  <2>3. /\ \A j \in client.heap : iters'[j].pc = "at"
        /\ \A j \in Ingesters \ (client.heap \cup client.pending) : iters'[j].pc = "end"
    BY <1>2, <1>4, <2>1, <2>2, Zenon
  <2> QED
    BY <1>5, <2>1, <2>3, Zenon DEF HeapIsComplete
<1>7. \A f \in Ingesters : Chosen(f)' = Chosen(f)
  <2> SUFFICES ASSUME NEW f \in Ingesters, f # i PROVE Chosen(f)' = Chosen(f)
    OBVIOUS
  <2>1. iters'[f] = iters[f]
    BY <1>2
  <2> QED
    BY <2>1, ZenonT(40) DEF Chosen, Kept
<1>8. BehindIsChosen' /\ ChosenOnce'
  <2>1. \A j \in Ingesters : \A m \in 1..Len(batches(j)) : \A k \in 1..Len(batches(j)[m]) :
          Behind(j, m, k)' <=> Behind(j, m, k)
    <3> SUFFICES ASSUME NEW j \in Ingesters, j # i, NEW m, NEW k PROVE Behind(j, m, k)' <=> Behind(j, m, k)
      BY Zenon
    <3>1. iters'[j] = iters[j]
      BY <1>2
    <3> QED
      BY <3>1, Zenon DEF Behind, Dealt
  <2>2. \A j \in Ingesters : iters'[j].pc # "end" => iters[j].pc # "end"
    BY <1>2, Zenon
  <2> QED
    BY <1>7, <2>1, <2>2, SameChoice, Zenon DEF IInv
<1>9. CollectedIsMerged'
  BY <1>5, Zenon DEF CollectedIsMerged
<1>10. MergedOnce'
  BY SameBatches, Zenon DEF IInv, MergedOnce
<1> QED
  BY <1>1, <1>3, <1>6, <1>8, <1>9, <1>10 DEF IInv

(* The fields of an iterator.                                              *)
LEMMA IteratorFields ==
    ASSUME NEW c \in IteratorState
    PROVE  /\ c.idx \in Nat /\ c.read \in Nat /\ c.batch \in Seq(Profiles) /\ Len(c.batch) \in Nat
           /\ c.keep \subseteq Nat /\ c.idx + 1 \in Nat
           /\ c.pc \in {"next", "receive", "at", "end"} /\ c.keepSent \in BOOLEAN /\ c.err \in BOOLEAN
  BY DEF IteratorState

(* An iterator goes on to the next profile of its batch.                   *)
LEMMA NextInBatchIInv ==
    ASSUME IInv, NEW i \in Ingesters, Next_(i), inBatch(iters[i])
    PROVE  IInv'
<1> DEFINE x == [iters[i] EXCEPT !.pc = "at", !.idx = @ + 1]
<1>1. server[i] \in ServerState /\ iters[i] \in IteratorState /\ InStep(i)
  BY StreamTypes
<1>2. /\ x \in IteratorState /\ x.pc = "at" /\ x.idx = iters[i].idx + 1 /\ x.batch = iters[i].batch
      /\ x.keep = iters[i].keep /\ x.keepSent = iters[i].keepSent /\ x.err = iters[i].err /\ x.read = iters[i].read
      /\ iters[i].idx \in Nat /\ iters[i].batch \in Seq(Profiles) /\ Len(iters[i].batch) \in Nat /\ iters[i].read \in Nat
  <2> DEFINE c == iters[i]
             n == c.idx + 1
  <2>1. /\ c.idx \in Nat /\ c.read \in Nat /\ c.batch \in Seq(Profiles) /\ Len(c.batch) \in Nat /\ n \in Nat
    BY <1>1, IteratorFields, Zenon
  <2>2. x = [c EXCEPT !.pc = "at", !.idx = n] /\ c \in IteratorState /\ "at" \in {"next", "receive", "at", "end"}
    BY <1>1
  <2> HIDE DEF c, n, x
  <2>3. /\ x \in IteratorState /\ x.pc = "at" /\ x.idx = n /\ x.batch = c.batch
        /\ x.keep = c.keep /\ x.keepSent = c.keepSent /\ x.err = c.err /\ x.read = c.read
    <3>1. x \in IteratorState
      BY ONLY Zenon, <2>1, <2>2 DEF IteratorState
    <3>2. x.pc = "at" /\ x.idx = n /\ x.batch = c.batch /\ x.keep = c.keep /\ x.read = c.read
      BY ONLY <2>1, <2>2 DEF IteratorState
    <3>3. x.keepSent = c.keepSent /\ x.err = c.err
      BY ONLY <2>1, <2>2 DEF IteratorState
    <3> QED
      BY <3>1, <3>2, <3>3
  <2> QED
    BY <2>1, <2>3, Zenon DEF c, n
<1>3. /\ i \in client.pending /\ iters[i].pc = "next" /\ iters[i].idx < Len(iters[i].batch)
      /\ iters' = [iters EXCEPT ![i] = x] /\ iters'[i] = x
      /\ stores' = stores /\ server' = server /\ broken' = broken /\ client' = client /\ result' = result
      /\ toClient' = toClient /\ toServer' = toServer
  BY Zenon DEF Next_, inBatch, IInv, TypeOK
<1> HIDE DEF x
<1>4. Kept(i)' = Kept(i) /\ Dealt(i)' = Dealt(i) /\ Dealt(i) = iters[i].idx
  BY <1>2, <1>3 DEF Kept, Dealt
<1>5. iters[i].read # 0
  <2>1. iters[i].batch = IF iters[i].read = 0 THEN <<>> ELSE batches(i)[iters[i].read]
    BY <1>1, Zenon DEF InStep, IteratorIsAtItsBatch
  <2> QED
    BY <1>2, <1>3, <2>1
<1>6. InStep(i)'
  <2>1. Selecting(i)
    BY <1>1, <1>3, <1>5 DEF InStep, Selected
  <2>2. Selecting(i)'
    BY <1>2, <1>3, <2>1 DEF Selecting
  <2>3. batches(i)' = batches(i)
    BY <1>3, SameBatches
  <2>4. iters[i].idx + 1 <= Len(iters[i].batch) /\ iters[i].idx + 1 >= 1
    BY <1>2, <1>3
  <2>5. IteratorIsAtItsBatch(i)'
    BY <1>1, <1>2, <1>3, <1>4, <2>3, <2>4, Zenon DEF InStep, IteratorIsAtItsBatch
  <2> QED
    BY Zenon, <2>2, <2>5 DEF InStep
<1>7. Chosen(i)' = Chosen(i)
  BY <1>3, <1>4 DEF Chosen
<1>8. \A m, k : Behind(i, m, k)' <=> Behind(i, m, k)
  BY <1>2, <1>3, <1>4, Zenon DEF Behind
<1>9. DOMAIN toClient' = Ingesters /\ DOMAIN toServer' = Ingesters
  BY <1>3 DEF IInv, TypeOK
<1> QED
  BY Zenon, <1>2, <1>3, <1>6, <1>7, <1>8, <1>9, IteratorStep

(* After its batch the iterator sends what it keeps, unless it has not yet *)
(* read a batch or the stream is broken.                                   *)
LEMMA NextAfterBatchIInv ==
    ASSUME IInv, NEW i \in Ingesters, Next_(i), ~inBatch(iters[i])
    PROVE  IInv'
<1> DEFINE c == iters[i]
           fails == ~keepSent(c) /\ i \in broken
           x == IF fails THEN [c EXCEPT !.pc = "end", !.err = TRUE] ELSE [c EXCEPT !.pc = "receive"]
<1>1. /\ server[i] \in ServerState /\ c \in IteratorState /\ InStep(i) /\ server[i].next # 0
      /\ i \in client.pending /\ c.pc = "next"
  BY StreamTypes DEF Next_, ServerState
<1>2. /\ c.idx \in Nat /\ c.read \in Nat /\ c.batch \in Seq(Profiles) /\ Len(c.batch) \in Nat
      /\ c.keepSent \in BOOLEAN /\ c.err \in BOOLEAN
  BY <1>1, IteratorFields, Zenon
<1>3. /\ stores' = stores /\ server' = server /\ broken' = broken /\ client' = client /\ result' = result
      /\ toClient' = toClient /\ DOMAIN toClient' = Ingesters /\ DOMAIN toServer = Ingesters
  BY DEF Next_, IInv, TypeOK
<1>4. iters' = [iters EXCEPT ![i] = x]
  BY Zenon DEF Next_
<1>5. toServer' = IF keepSent(c) \/ i \in broken THEN toServer ELSE [toServer EXCEPT ![i] = Append(@, c.keep)]
  BY DEF Next_
<1>6. iters'[i] = x
  BY <1>4 DEF IInv, TypeOK
<1>7. /\ c.idx <= Len(c.batch) /\ (c.keepSent <=> c.read = 0) /\ ~c.err
  BY <1>1, Zenon DEF InStep, IteratorIsAtItsBatch
<1>8. c.idx = Len(c.batch)
  <2>1. ~(c.idx < Len(c.batch))
    BY DEF inBatch
  <2> QED
    BY <1>2, <1>7, <2>1
<1>9. /\ x \in IteratorState /\ x.pc = (IF fails THEN "end" ELSE "receive") /\ (x.err <=> fails)
      /\ x.idx = c.idx /\ x.batch = c.batch /\ x.keep = c.keep /\ (x.keepSent <=> c.keepSent) /\ x.read = c.read
  <2> HIDE DEF fails, c
  <2>1. CASE fails
    <3>1. x = [c EXCEPT !.pc = "end", !.err = TRUE]
      BY <2>1
    <3> HIDE DEF x
    <3>2. x \in IteratorState
      BY ONLY Zenon, <1>1, <1>2, <3>1 DEF IteratorState
    <3>3. x.pc = "end" /\ x.err /\ x.idx = c.idx /\ x.batch = c.batch /\ x.keep = c.keep /\ x.read = c.read
      BY ONLY <1>1, <1>2, <3>1 DEF IteratorState
    <3>4. x.keepSent = c.keepSent
      BY ONLY <1>1, <1>2, <3>1 DEF IteratorState
    <3> QED
      BY <2>1, <3>2, <3>3, <3>4
  <2>2. CASE ~fails
    <3>1. x = [c EXCEPT !.pc = "receive"]
      BY <2>2
    <3> HIDE DEF x
    <3>2. x \in IteratorState
      BY ONLY <1>1, <1>2, <3>1 DEF IteratorState
    <3>3. x.pc = "receive" /\ x.idx = c.idx /\ x.batch = c.batch /\ x.keep = c.keep /\ x.read = c.read
      BY ONLY <1>1, <1>2, <3>1 DEF IteratorState
    <3>4. x.keepSent = c.keepSent /\ x.err = c.err
      BY ONLY <1>1, <1>2, <3>1 DEF IteratorState
    <3> QED
      BY <1>7, <2>2, <3>2, <3>3, <3>4
  <2> QED
    BY <2>1, <2>2
<1>10. fails \in BOOLEAN
  OBVIOUS
<1> HIDE DEF x
<1>11. Kept(i)' = Kept(i) /\ Dealt(i)' = Dealt(i)
  BY <1>1, <1>6, <1>9 DEF Kept, Dealt
<1>12. batches(i)' = batches(i) /\ ResultOf(i)' = ResultOf(i)
       /\ BatchOf(i, server[i].next)' = BatchOf(i, server[i].next)
  BY <1>3, SameBatches DEF ResultOf, BatchOf
<1>13. keepSent(c) <=> c.read = 0
  BY <1>7 DEF keepSent
<1>14. c.read = 0 => Selected(i) /\ toServer' = toServer /\ ~fails
  <2> SUFFICES ASSUME c.read = 0 PROVE Selected(i) /\ toServer' = toServer /\ ~fails
    OBVIOUS
  <2>1. ~Selecting(i)
    BY <1>1 DEF Selecting
  <2> QED
    BY <1>1, <1>5, <1>13, <2>1 DEF InStep
<1>15. c.read # 0 => /\ Selecting(i) /\ toClient[i] = <<>> /\ toServer[i] = <<>>
                     /\ fails => toServer' = toServer
                     /\ ~fails => toServer'[i] = <<c.keep>>
  <2> SUFFICES ASSUME c.read # 0
               PROVE  /\ Selecting(i) /\ toClient[i] = <<>> /\ toServer[i] = <<>>
                      /\ fails => toServer' = toServer
                      /\ ~fails => toServer'[i] = <<c.keep>>
    OBVIOUS
  <2>1. ~Selected(i)
    BY <1>1 DEF Selected
  <2>2. Selecting(i)
    BY <1>1, <2>1 DEF InStep
  <2>3. toClient[i] = <<>> /\ toServer[i] = <<>>
    BY <1>1, <2>2 DEF Selecting
  <2>4. fails => toServer' = toServer
    BY <1>5
  <2>5. ~fails => toServer'[i] = Append(toServer[i], c.keep)
    BY <1>3, <1>5, <1>13
  <2> QED
    BY <2>2, <2>3, <2>4, <2>5, Queues
<1>16. fails => i \in broken
  OBVIOUS
<1>17. DOMAIN toServer' = Ingesters /\ \A j \in Ingesters \ {i} : toServer'[j] = toServer[j]
  BY <1>3, <1>5
<1>18. IteratorIsAtItsBatch(i)'
  <2>1. fails => toClient'[i] = <<>> /\ i \in broken'
    BY <1>3, <1>14, <1>15, <1>16
  <2> HIDE DEF fails
  <2>2. x.pc # "at" /\ (x.err => x.pc = "end")
    BY <1>9
  <2>3. /\ c.read \in 0..Len(batches(i)) /\ c.batch = (IF c.read = 0 THEN <<>> ELSE batches(i)[c.read])
        /\ c.keep \subseteq 1..Dealt(i)
    BY <1>1, Zenon DEF InStep, IteratorIsAtItsBatch
  <2> HIDE DEF c
  <2> QED
    BY <1>6, <1>7, <1>8, <1>9, <1>11, <1>12, <2>1, <2>2, <2>3, Zenon DEF IteratorIsAtItsBatch
<1>19. Selecting(i)' \/ Selected(i)'
  <2>1. CASE c.read = 0
    <3>1. Selected(i)'
      <4>1. x.pc = "receive" /\ x.read = c.read
        BY <1>9, <1>14, <2>1
      <4> QED
        BY <1>1, <1>3, <1>6, <1>11, <1>12, <1>14, <2>1, <4>1, Zenon DEF Selected, EmptyResponse
    <3> QED
      BY <3>1
  <2>2. CASE c.read # 0 /\ fails
    <3>1. Selecting(i)'
      BY Zenon, <1>3, <1>6, <1>9, <1>15, <2>2 DEF Selecting
    <3> QED
      BY <3>1
  <2>3. CASE c.read # 0 /\ ~fails
    <3>1. Selecting(i)'
      BY <1>3, <1>6, <1>9, <1>15, <2>3 DEF Selecting
    <3> QED
      BY <3>1
  <2> QED
    BY <2>1, <2>2, <2>3
<1>20. InStep(i)'
  BY Zenon, <1>18, <1>19 DEF InStep
<1>21. Chosen(i)' = Chosen(i)
  BY <1>3, <1>11 DEF Chosen
<1>22. \A m, k : Behind(i, m, k)' <=> Behind(i, m, k)
  BY <1>6, <1>9, <1>11, Zenon DEF Behind
<1> QED
  BY Zenon, <1>1, <1>3, <1>4, <1>9, <1>17, <1>20, <1>21, <1>22, IteratorStep

(* The iterator finds the stream broken.                                   *)
LEMMA ReceiveErrorIInv ==
    ASSUME IInv, NEW i \in Ingesters, ReceiveBatch(i), toClient[i] = <<>>
    PROVE  IInv'
<1> DEFINE c == iters[i]
           x == [c EXCEPT !.pc = "end", !.err = TRUE]
<1>1. /\ c \in IteratorState /\ InStep(i) /\ i \in client.pending /\ c.pc = "receive" /\ i \in broken
  BY StreamTypes DEF ReceiveBatch
<1>2. /\ c.idx \in Nat /\ c.read \in Nat /\ c.batch \in Seq(Profiles) /\ Len(c.batch) \in Nat
      /\ c.keepSent \in BOOLEAN /\ c.err \in BOOLEAN
  BY <1>1, IteratorFields, Zenon
<1>3. /\ stores' = stores /\ server' = server /\ broken' = broken /\ client' = client /\ result' = result
      /\ toClient' = toClient /\ toServer' = toServer
      /\ DOMAIN toClient' = Ingesters /\ DOMAIN toServer' = Ingesters
  BY DEF ReceiveBatch, IInv, TypeOK
<1>4. iters' = [iters EXCEPT ![i] = x] /\ iters'[i] = x
  BY Zenon DEF ReceiveBatch, IInv, TypeOK
<1>5. /\ x \in IteratorState /\ x.pc = "end" /\ x.err
      /\ x.idx = c.idx /\ x.batch = c.batch /\ x.keep = c.keep /\ (x.keepSent <=> c.keepSent) /\ x.read = c.read
  <2> HIDE DEF c
  <2>1. x \in IteratorState
    BY ONLY Zenon, <1>1, <1>2 DEF IteratorState
  <2>2. x.pc = "end" /\ x.err /\ x.idx = c.idx /\ x.batch = c.batch /\ x.keep = c.keep /\ x.read = c.read
    BY ONLY <1>1, <1>2 DEF IteratorState
  <2>3. x.keepSent = c.keepSent
    BY ONLY <1>1, <1>2 DEF IteratorState
  <2> QED
    BY <2>1, <2>2, <2>3
<1> HIDE DEF x
<1>6. Kept(i)' = Kept(i) /\ Dealt(i)' = Dealt(i)
  BY <1>1, <1>4, <1>5 DEF Kept, Dealt
<1>7. batches(i)' = batches(i) /\ ResultOf(i)' = ResultOf(i)
       /\ BatchOf(i, server[i].next)' = BatchOf(i, server[i].next)
  BY <1>3, SameBatches DEF ResultOf, BatchOf
<1>8. IteratorIsAtItsBatch(i)'
  BY <1>1, <1>3, <1>4, <1>5, <1>6, <1>7, Zenon DEF InStep, IteratorIsAtItsBatch
<1>9. Selecting(i)' \/ Selected(i)'
  <2>1. ASSUME Selecting(i) PROVE Selecting(i)'
    BY <1>1, <1>3, <1>4, <1>5, <2>1 DEF Selecting
  <2>2. ASSUME Selected(i) PROVE Selected(i)'
    BY Zenon, <1>1, <1>3, <1>4, <1>5, <1>6, <1>7, <2>2 DEF Selected
  <2> QED
    BY <1>1, <2>1, <2>2 DEF InStep
<1>10. InStep(i)'
  BY <1>8, <1>9 DEF InStep
<1>11. Chosen(i)' = Chosen(i)
  BY <1>3, <1>6 DEF Chosen
<1>12. \A m, k : Behind(i, m, k)' <=> Behind(i, m, k)
  BY <1>4, <1>5, <1>6, Zenon DEF Behind
<1> QED
  BY Zenon, <1>1, <1>3, <1>4, <1>5, <1>10, <1>11, <1>12, IteratorStep

(* What an iterator that waits can find: the next batch, or the end.       *)
LEMMA ToReceive ==
    ASSUME IInv, NEW i \in Ingesters, iters[i].pc = "receive", toClient[i] # <<>>
    PROVE  /\ Selected(i)
           /\ \/ /\ server[i].pc = "select" /\ server[i].next <= Len(batches(i))
                 /\ toClient[i] = <<BatchOf(i, server[i].next)>>
              \/ /\ server[i].pc = "merge" /\ iters[i].read = Len(batches(i))
                 /\ toClient[i] = <<EmptyResponse>>
              \/ /\ server[i].pc = "done" /\ iters[i].read = Len(batches(i))
                 /\ toClient[i] = <<EmptyResponse, ResultOf(i)>> \/ (toClient[i] = <<EmptyResponse>> /\ i \in broken)
<1>1. InStep(i)
  BY StreamTypes
<1>2. ~Selecting(i)
  BY DEF Selecting
<1>3. Selected(i)
  BY <1>1, <1>2 DEF InStep
<1> QED
  BY <1>3 DEF Selected

(* An iterator that receives the empty response has ended.                 *)
LEMMA ReceiveEndIInv ==
    ASSUME IInv, NEW i \in Ingesters, ReceiveBatch(i), toClient[i] # <<>>, server[i].pc # "select"
    PROVE  IInv'
<1> DEFINE c == iters[i]
           x == [c EXCEPT !.pc = "end"]
<1>1. /\ c \in IteratorState /\ InStep(i) /\ i \in client.pending /\ c.pc = "receive"
  BY StreamTypes DEF ReceiveBatch
<1>2. /\ c.idx \in Nat /\ c.read \in Nat /\ c.batch \in Seq(Profiles) /\ Len(c.batch) \in Nat
      /\ c.keepSent \in BOOLEAN /\ c.err \in BOOLEAN
  BY <1>1, IteratorFields, Zenon
<1>3. /\ stores' = stores /\ server' = server /\ broken' = broken /\ client' = client /\ result' = result
      /\ toServer' = toServer /\ DOMAIN toServer' = Ingesters
      /\ toClient' = [toClient EXCEPT ![i] = Tail(@)] /\ DOMAIN toClient = Ingesters
  BY DEF ReceiveBatch, IInv, TypeOK
<1>4. Head(toClient[i]) = EmptyResponse
  BY SMTT(30), ToReceive, Queues, <1>1
<1>5. iters' = [iters EXCEPT ![i] = x] /\ iters'[i] = x
  <2>1. Head(toClient[i]).type # "batch"
    BY <1>4 DEF EmptyResponse
  <2> QED
    BY <2>1 DEF ReceiveBatch, IInv, TypeOK
<1>6. /\ x \in IteratorState /\ x.pc = "end" /\ (x.err <=> c.err)
      /\ x.idx = c.idx /\ x.batch = c.batch /\ x.keep = c.keep /\ (x.keepSent <=> c.keepSent) /\ x.read = c.read
  <2> HIDE DEF c
  <2>1. x \in IteratorState
    BY ONLY <1>1, <1>2 DEF IteratorState
  <2>2. x.pc = "end" /\ x.idx = c.idx /\ x.batch = c.batch /\ x.keep = c.keep /\ x.read = c.read
    BY ONLY <1>1, <1>2 DEF IteratorState
  <2>3. x.keepSent = c.keepSent /\ x.err = c.err
    BY ONLY <1>1, <1>2 DEF IteratorState
  <2> QED
    BY <2>1, <2>2, <2>3
<1> HIDE DEF x
<1>7. Kept(i)' = Kept(i) /\ Dealt(i)' = Dealt(i)
  BY <1>1, <1>5, <1>6 DEF Kept, Dealt
<1>8. batches(i)' = batches(i) /\ ResultOf(i)' = ResultOf(i)
  BY <1>3, SameBatches DEF ResultOf
<1>9. /\ DOMAIN toClient' = Ingesters /\ toClient'[i] = Tail(toClient[i])
      /\ \A j \in Ingesters \ {i} : toClient'[j] = toClient[j]
  BY <1>3
<1>10. ~c.err
  BY <1>1, Zenon DEF InStep, IteratorIsAtItsBatch
<1>11. IteratorIsAtItsBatch(i)'
  BY <1>1, <1>3, <1>5, <1>6, <1>7, <1>8, <1>10, Zenon DEF InStep, IteratorIsAtItsBatch
<1>12. Selected(i)'
  <2>1. /\ Selected(i) /\ c.read = Len(batches(i))
        /\ \/ server[i].pc = "merge" /\ toClient'[i] = <<>>
           \/ server[i].pc = "done" /\ toClient'[i] \in {<<>>, <<ResultOf(i)>>}
    <3>1. /\ Selected(i) /\ c.read = Len(batches(i))
          /\ \/ server[i].pc = "merge" /\ toClient[i] = <<EmptyResponse>>
             \/ server[i].pc = "done" /\ toClient[i] = <<EmptyResponse, ResultOf(i)>>
             \/ server[i].pc = "done" /\ toClient[i] = <<EmptyResponse>>
      BY <1>1, ToReceive, Zenon
    <3>2. Tail(<<EmptyResponse>>) = <<>> /\ Tail(<<EmptyResponse, ResultOf(i)>>) = <<ResultOf(i)>>
      BY SMTT(30), Queues
    <3>3. /\ toClient[i] = <<EmptyResponse>> => toClient'[i] = <<>>
          /\ toClient[i] = <<EmptyResponse, ResultOf(i)>> => toClient'[i] = <<ResultOf(i)>>
      BY <1>9, <3>2, Zenon
    <3> QED
      BY <3>1, <3>2, <3>3, Zenon
  <2> QED
    BY Zenon, <1>3, <1>5, <1>6, <1>7, <1>8, <2>1 DEF Selected
<1>13. InStep(i)'
  BY <1>11, <1>12 DEF InStep
<1>14. Chosen(i)' = Chosen(i)
  BY <1>3, <1>7 DEF Chosen
<1>15. \A m, k : Behind(i, m, k)' <=> Behind(i, m, k)
  BY <1>5, <1>6, <1>7, Zenon DEF Behind
<1> QED
  BY Zenon, <1>1, <1>3, <1>5, <1>6, <1>9, <1>13, <1>14, <1>15, IteratorStep

(* The next batch: all that was kept of the last one is selected.          *)
LEMMA ReceiveNextIInv ==
    ASSUME IInv, NEW i \in Ingesters, ReceiveBatch(i), toClient[i] # <<>>, server[i].pc = "select"
    PROVE  IInv'
<1> DEFINE c == iters[i]
           n == server[i].next
           B == batches(i)
           b == B[n]
           x == [c EXCEPT !.pc = "at", !.batch = b, !.idx = 1, !.keep = {}, !.keepSent = FALSE, !.read = n]
<1>1. /\ c \in IteratorState /\ InStep(i) /\ i \in client.pending /\ c.pc = "receive"
      /\ B \in Seq(Seq(Profiles)) /\ Len(B) \in Nat
      /\ \A m \in 1..Len(B) : B[m] \in Seq(Profiles) /\ Len(B[m]) >= 1
  BY StreamTypes DEF ReceiveBatch
<1>2. /\ c.idx \in Nat /\ c.read \in Nat /\ c.batch \in Seq(Profiles) /\ Len(c.batch) \in Nat
      /\ c.keepSent \in BOOLEAN /\ c.err \in BOOLEAN
  BY <1>1, IteratorFields, Zenon
<1>3. /\ stores' = stores /\ server' = server /\ broken' = broken /\ client' = client /\ result' = result
      /\ toServer' = toServer /\ DOMAIN toServer' = Ingesters
      /\ toClient' = [toClient EXCEPT ![i] = Tail(@)] /\ DOMAIN toClient = Ingesters
  BY DEF ReceiveBatch, IInv, TypeOK
<1>4. Selected(i) /\ n <= Len(B) /\ toClient[i] = <<BatchOf(i, n)>>
  BY <1>1, ToReceive
<1>5. c.read = n - 1 /\ n \in Nat \ {0} /\ n \in 1..Len(B) /\ B[n] \in Seq(Profiles) /\ Len(B[n]) >= 1
  <2>1. c.read = n - 1 /\ n \in Nat \ {0}
    BY <1>4, StreamTypes DEF Selected, ServerState
  <2>2. n \in 1..Len(B)
    BY <1>1, <1>4, <2>1
  <2> QED
    BY Zenon, <1>1, <2>1, <2>2
<1>6. iters' = [iters EXCEPT ![i] = x] /\ iters'[i] = x
  <2>1. Head(toClient[i]) = BatchOf(i, n)
    BY <1>4, Queues
  <2>2. Head(toClient[i]).type = "batch" /\ Head(toClient[i]).profiles = B[n]
    BY <2>1 DEF BatchOf
  <2>3. c.read + 1 = n
    BY <1>5
  <2> DEFINE u == [c EXCEPT !.pc = "at", !.batch = Head(toClient[i]).profiles, !.idx = 1,
                            !.keep = {}, !.keepSent = FALSE, !.read = c.read + 1]
             w == [c EXCEPT !.pc = "end"]
  <2>4. iters' = [iters EXCEPT ![i] = IF Head(toClient[i]).type = "batch" THEN u ELSE w]
    BY DEF ReceiveBatch
  <2>5. u = x
    BY <2>2, <2>3, Zenon
  <2>6. iters' = [iters EXCEPT ![i] = x]
    <3> HIDE DEF u, w, x
    <3> QED
      BY <2>2, <2>4, <2>5, Zenon
  <2> HIDE DEF x
  <2> QED
    BY <2>6 DEF IInv, TypeOK
<1>7. /\ x \in IteratorState /\ x.pc = "at" /\ (x.err <=> c.err)
      /\ x.idx = 1 /\ x.batch = B[n] /\ x.keep = {} /\ ~x.keepSent /\ x.read = n
  <2>1. b \in Seq(Profiles)
    BY <1>5
  <2> HIDE DEF c, n, b
  <2>2. x \in IteratorState
    BY ONLY Zenon, <1>1, <1>2, <1>5, <2>1 DEF IteratorState
  <2>3. x.pc = "at" /\ x.idx = 1 /\ x.batch = b /\ x.keep = {} /\ x.read = n
    BY ONLY <1>1, <1>2, <1>5, <2>1 DEF IteratorState
  <2>4. ~x.keepSent /\ x.err = c.err
    BY ONLY <1>1, <1>2, <1>5, <2>1 DEF IteratorState
  <2> QED
    BY <2>2, <2>3, <2>4 DEF b
<1> HIDE DEF x
<1>8. Kept(i)' = {} /\ Dealt(i)' = 0
  BY <1>6, <1>7 DEF Kept, Dealt
<1>9. batches(i)' = B
  BY <1>3, SameBatches
<1>10. /\ DOMAIN toClient' = Ingesters /\ toClient'[i] = <<>>
       /\ \A j \in Ingesters \ {i} : toClient'[j] = toClient[j]
  BY <1>3, <1>4, Queues
<1>11. ~c.err /\ c.idx = Len(c.batch) /\ c.batch = IF c.read = 0 THEN <<>> ELSE B[c.read]
  BY <1>1, Zenon DEF InStep, IteratorIsAtItsBatch
<1>12. IteratorIsAtItsBatch(i)'
  <2>1. n \in 0..Len(B) /\ n # 0 /\ 1 <= Len(B[n]) /\ 1 >= 1
    BY <1>1, <1>5
  <2>2. ~x.err /\ x.pc = "at" /\ x.pc # "receive" /\ x.pc # "end"
    BY Zenon, <1>7, <1>11
  <2> HIDE DEF B, n
  <2> QED
    BY <1>6, <1>7, <1>8, <1>9, <2>1, <2>2, Zenon DEF IteratorIsAtItsBatch
<1>13. Selecting(i)'
  BY Zenon, <1>3, <1>4, <1>6, <1>7, <1>10 DEF Selecting, Selected
<1>14. InStep(i)'
  BY <1>12, <1>13 DEF InStep
<1>15. Chosen(i)' = Chosen(i)
  <2>1. Kept(i) \subseteq server[i].selection
    BY <1>4 DEF Selected
  <2> QED
    BY Zenon, <1>3, <1>8, <2>1 DEF Chosen
<1>16. ASSUME NEW m \in 1..Len(B), NEW k \in 1..Len(B[m])
       PROVE  Behind(i, m, k)' <=> Behind(i, m, k)
  <2>1. Behind(i, m, k)' <=> (m < n \/ (m = n /\ k <= 0))
    BY <1>6, <1>7, <1>8, Zenon DEF Behind
  <2>2. Behind(i, m, k) <=> (m < c.read \/ (m = c.read /\ k <= c.idx))
    BY <1>1 DEF Behind, Dealt
  <2>3. m = c.read => k <= c.idx
    BY <1>2, <1>11
  <2>4. m \in Nat /\ k \in Nat /\ k >= 1
    <3>1. Len(B[m]) \in Nat /\ Len(B) \in Nat
      BY <1>1
    <3> QED
      BY <3>1
  <2> HIDE DEF c, B, n
  <2> QED
    BY <1>2, <1>5, <2>1, <2>2, <2>3, <2>4
<1> QED
  BY Zenon, <1>1, <1>3, <1>6, <1>7, <1>10, <1>14, <1>15, <1>16, IteratorStep

-----------------------------------------------------------------------------
(* skipDuplicates and the collection of the results *)

(* A step of the client alone.                                             *)
LEMMA OnlyClient ==
    ASSUME IInv, stores' = stores, server' = server, toClient' = toClient, toServer' = toServer,
           broken' = broken, iters' = iters
    PROVE  StreamsInStep' /\ BehindIsChosen' /\ ChosenOnce'
<1>1. StreamsInStep'
  <2> SUFFICES ASSUME NEW j \in Ingesters PROVE InStep(j)'
    BY Zenon DEF StreamsInStep, InStep
  <2>1. InStep(j)
    BY StreamTypes
  <2> QED
    BY <2>1, OtherStream
<1>2. /\ \A f \in Ingesters : Chosen(f)' = Chosen(f)
      /\ \A j \in Ingesters : \A m \in 1..Len(batches(j)) : \A k \in 1..Len(batches(j)[m]) :
           Behind(j, m, k)' <=> Behind(j, m, k)
  BY Zenon DEF Chosen, Kept, Behind, Dealt
<1>3. BehindIsChosen' /\ ChosenOnce'
  BY <1>2, SameChoice, Zenon DEF IInv
<1> QED
  BY <1>1, <1>3

(* Before the results are collected nothing is merged.                     *)
LEMMA NothingMerged ==
    ASSUME IInv, client.pc \in {"requeue", "single", "pick"}, InOrder, NEW p \in Profiles
    PROVE  result[p] <= 1 /\ result[p] # 1
<1>1. client.pc \notin {"results", "done", "error"}
  OBVIOUS
<1> QED
  BY <1>1, Zenon DEF IInv, MergedOnce

(* The iterators that have a profile go back into the heap, and the        *)
(* querier fails when one has an error.                                    *)
LEMMA RequeuedIInv ==
    ASSUME IInv, Requeued
    PROVE  IInv'
<1> DEFINE fails == client.pc = "requeue" /\ \E i \in client.pending : iters[i].err
           ats == {i \in client.pending : iters[i].pc = "at"}
           x == IF fails THEN [client EXCEPT !.pc = "error", !.pending = {}]
                ELSE [pc |-> "pick", heap |-> client.heap \cup ats, pending |-> {}, failed |-> FALSE]
<1>1. /\ stores' = stores /\ server' = server /\ toClient' = toClient /\ toServer' = toServer
      /\ broken' = broken /\ iters' = iters /\ result' = result /\ client' = x
      /\ client.pc \in {"requeue", "single"} /\ \A i \in client.pending : iters[i].pc \in {"at", "end"}
  BY DEF Requeued
<1>2. client \in ClientState /\ client.heap \subseteq Ingesters /\ client.pending \subseteq Ingesters
  BY DEF IInv, TypeOK, ClientState
<1>3. /\ \A i \in client.heap : iters[i].pc = "at"
      /\ \A i \in Ingesters \ (client.heap \cup client.pending) : iters[i].pc = "end"
  BY <1>1, Zenon DEF IInv, HeapIsComplete
<1> HIDE DEF fails
<1>4. x \in ClientState /\ x.pending = {} /\ x.pc \in {"pick", "error"}
      /\ (x.pc = "pick" => x.heap = client.heap \cup ats)
  <2>1. CASE fails
    BY Zenon, <1>2, <2>1 DEF ClientState
  <2>2. CASE ~fails
    <3> DEFINE h == client.heap \cup ats
    <3>1. h \subseteq Ingesters
      BY <1>2
    <3>2. x = [pc |-> "pick", heap |-> h, pending |-> {}, failed |-> FALSE]
      BY <2>2
    <3> HIDE DEF h, x
    <3>3. x \in ClientState /\ x.pending = {} /\ x.pc = "pick" /\ x.heap = h
      BY <3>1, <3>2 DEF ClientState
    <3> QED
      BY <3>3 DEF h
  <2> QED
    BY <2>1, <2>2
<1> HIDE DEF x
<1>5. TypeOK'
  BY <1>1, <1>4, Zenon DEF IInv, TypeOK
<1>6. HeapIsComplete'
  <2>1. \A i \in client.heap \cup ats : iters[i].pc = "at"
    BY <1>3
  <2>2. \A i \in Ingesters \ (client.heap \cup ats) : iters[i].pc = "end"
    BY <1>1, <1>3
  <2>3. x.pc # "requeue" /\ x.pc # "single" /\ x.pc # "results" /\ x.pc # "done"
    BY <1>4
  <2> HIDE DEF ats
  <2>4. x.pc = "pick" => /\ x.heap \cap x.pending = {}
                         /\ \A i \in x.heap : iters[i].pc = "at"
                         /\ \A i \in Ingesters \ (x.heap \cup x.pending) : iters[i].pc = "end"
    BY <1>4, <2>1, <2>2
  <2> QED
    BY <1>1, <1>4, <2>3, <2>4, Zenon DEF HeapIsComplete
<1>7. CollectedIsMerged'
  <2>1. x.pc \notin {"results", "done"}
    BY <1>4
  <2> QED
    BY <1>1, <2>1, Zenon DEF CollectedIsMerged
<1>8. MergedOnce'
  <2>1. InOrder' <=> InOrder
    BY <1>1, SameBatches
  <2>2. client.pc \in {"requeue", "single", "pick"}
    BY <1>1
  <2> QED
    BY <1>1, <2>1, <2>2, NothingMerged, Zenon DEF MergedOnce
<1> QED
  BY <1>1, <1>5, <1>6, <1>7, <1>8, OnlyClient DEF IInv

(* The result of an ingester is merged.                                    *)
LEMMA CollectIInv ==
    ASSUME IInv, Collect
    PROVE  IInv'
<1> DEFINE x == [client EXCEPT !.pc = "results", !.pending = Ingesters]
<1>1. /\ stores' = stores /\ server' = server /\ toClient' = toClient /\ toServer' = toServer
      /\ broken' = broken /\ iters' = iters /\ result' = result /\ client' = x
      /\ client.pc = "pick" /\ client.heap = {}
  BY DEF Collect
<1>2. client \in ClientState
  BY DEF IInv, TypeOK
<1>3. x \in ClientState /\ x.pc = "results" /\ x.pending = Ingesters
  BY Zenon, <1>2 DEF ClientState
<1>4. \A i \in Ingesters : iters[i].pc = "end"
  <2>1. client.pending = {} /\ \A i \in Ingesters \ (client.heap \cup client.pending) : iters[i].pc = "end"
    BY <1>1 DEF IInv, HeapIsComplete
  <2> QED
    BY <1>1, <2>1
<1> HIDE DEF x
<1>5. TypeOK'
  BY <1>1, <1>3, Zenon DEF IInv, TypeOK
<1>6. HeapIsComplete'
  <2>1. x.pc \notin {"requeue", "single", "pick"} /\ x.pc \notin {"pick", "done", "error"} /\ x.pc # "done"
    BY <1>3
  <2> QED
    BY <1>1, <1>4, <2>1, Zenon DEF HeapIsComplete
<1>7. CollectedIsMerged'
  BY <1>1, <1>3, Zenon DEF CollectedIsMerged
<1>8. MergedOnce'
  <2>1. InOrder' <=> InOrder
    BY <1>1, SameBatches
  <2>2. client.pc \in {"requeue", "single", "pick"}
    BY <1>1
  <2> QED
    BY <1>1, <2>1, <2>2, NothingMerged, Zenon DEF MergedOnce
<1> QED
  BY <1>1, <1>5, <1>6, <1>7, <1>8, OnlyClient DEF IInv

(* The client after a result, or an error, of ingester i.                  *)
LEMMA CollectedDoes ==
    ASSUME client \in ClientState, client.pc = "results", NEW i \in client.pending,
           NEW failed \in BOOLEAN, Collected(i, failed)
    PROVE  /\ client' \in ClientState
           /\ client'.pending = client.pending \ {i} /\ client'.failed = failed
           /\ client'.pc = IF client.pending # {i} THEN "results" ELSE IF failed THEN "error" ELSE "done"
<1> DEFINE v == IF client.pending # {i} THEN "results" ELSE IF failed THEN "error" ELSE "done"
           P == client.pending \ {i}
<1>1. v \in {"results", "error", "done"} /\ P \in SUBSET Ingesters
  BY DEF ClientState
<1>2. client' = [client EXCEPT !.pending = P, !.failed = failed, !.pc = v]
  BY DEF Collected
<1> HIDE DEF v, P
<1>3. client' \in ClientState
  BY Zenon, <1>1, <1>2 DEF ClientState
<1>4. client'.pending = P /\ client'.pc = v
  BY <1>1, <1>2 DEF ClientState
<1>5. client'.failed = failed
  BY <1>1, <1>2 DEF ClientState
<1> QED
  BY <1>3, <1>4, <1>5, Zenon DEF v, P

(* All iterators have ended while the results are collected.               *)
LEMMA CollectedHeap ==
    ASSUME IInv, client.pc = "results", NEW i \in client.pending,
           NEW failed \in BOOLEAN, Collected(i, failed), iters' = iters
    PROVE  HeapIsComplete'
<1>1. /\ client'.pending = client.pending \ {i} /\ client'.failed = failed
      /\ client'.pc = IF client.pending # {i} THEN "results" ELSE IF failed THEN "error" ELSE "done"
  BY CollectedDoes DEF IInv, TypeOK
<1>2. \A j \in Ingesters : iters'[j].pc = "end"
  BY DEF IInv, HeapIsComplete
<1>3. client'.pc \notin {"requeue", "single", "pick"}
  BY <1>1
<1>4. client'.pc \in {"pick", "done", "error"} => client'.pending = {}
  BY <1>1
<1>5. client'.pc = "done" => ~client'.failed
  BY <1>1
<1> QED
  BY <1>2, <1>3, <1>4, <1>5, Zenon DEF HeapIsComplete

(* A broken stream instead of a result makes the query fail.               *)
LEMMA ResultErrorIInv ==
    ASSUME IInv, NEW i \in Ingesters, Result(i), toClient[i] = <<>>
    PROVE  IInv'
<1>1. /\ stores' = stores /\ server' = server /\ toClient' = toClient /\ toServer' = toServer
      /\ broken' = broken /\ iters' = iters /\ result' = result /\ Collected(i, TRUE)
      /\ client.pc = "results" /\ i \in client.pending /\ client \in ClientState
  BY Zenon DEF Result, IInv, TypeOK
<1>2. /\ client' \in ClientState /\ client'.pending = client.pending \ {i} /\ client'.failed
      /\ client'.pc = "results" \/ client'.pc = "error"
  BY Zenon, <1>1, CollectedDoes
<1>3. TypeOK'
  BY <1>1, <1>2, Zenon DEF IInv, TypeOK
<1>4. HeapIsComplete'
  BY Zenon, <1>1, CollectedHeap
<1>5. CollectedIsMerged'
  BY <1>2, Zenon DEF CollectedIsMerged
<1>6. MergedOnce'
  <2> SUFFICES ASSUME InOrder, NEW p \in Profiles
               PROVE  /\ result[p] <= 1
                      /\ result[p] = 1 =>
                          /\ client'.pc \in {"results", "done", "error"}
                          /\ \E j \in Ingesters \ client'.pending : server[j].pc = "done" /\ p \in server[j].selection
    BY <1>1, SameBatches, Zenon DEF MergedOnce
  <2>1. /\ result[p] <= 1
        /\ result[p] = 1 =>
             \E j \in Ingesters \ client.pending : server[j].pc = "done" /\ p \in server[j].selection
    BY Zenon DEF IInv, MergedOnce
  <2>2. client'.pc \in {"results", "done", "error"}
    BY <1>2
  <2>3. Ingesters \ client.pending \subseteq Ingesters \ client'.pending
    BY <1>2
  <2> QED
    BY <2>1, <2>2, <2>3
<1> QED
  BY <1>1, <1>3, <1>4, <1>5, <1>6, OnlyClient DEF IInv

(* A result is what was selected at the ingester, of which nothing was     *)
(* merged before when the streams are in order.                            *)
LEMMA ResultIInv ==
    ASSUME IInv, NEW i \in Ingesters, Result(i), toClient[i] # <<>>
    PROVE  IInv'
<1> DEFINE S == server[i].selection
<1>1. /\ stores' = stores /\ server' = server /\ toServer' = toServer
      /\ broken' = broken /\ iters' = iters /\ Collected(i, client.failed)
      /\ toClient' = [toClient EXCEPT ![i] = Tail(@)] /\ DOMAIN toClient = Ingesters
      /\ client.pc = "results" /\ i \in client.pending /\ client \in ClientState
      /\ client.failed \in BOOLEAN /\ result \in [Profiles -> Nat]
  BY Zenon DEF Result, IInv, TypeOK, ClientState
<1>2. iters[i].pc = "end" /\ InStep(i) /\ server[i] \in ServerState
  BY Zenon, <1>1, StreamTypes DEF IInv, HeapIsComplete
<1>3. ~iters[i].err
  BY <1>2, Zenon DEF InStep, IteratorIsAtItsBatch
<1>4. Selected(i) /\ server[i].pc = "done" /\ toClient[i] = <<ResultOf(i)>>
  <2>1. ~Selecting(i)
    BY DEF Selecting
  <2>2. Selected(i)
    BY <1>2, <2>1 DEF InStep
  <2> QED
    BY Zenon, <1>2, <1>3, <2>2 DEF Selected
<1>5. /\ DOMAIN toClient' = Ingesters /\ toClient'[i] = <<>>
      /\ \A j \in Ingesters \ {i} : toClient'[j] = toClient[j]
  BY <1>1, <1>4, Queues
<1>6. /\ result' \in [Profiles -> Nat]
      /\ \A p \in Profiles : result'[p] = result[p] + (IF p \in S THEN 1 ELSE 0)
  <2>1. Head(toClient[i]) = ResultOf(i)
    BY <1>4, Queues
  <2>2. Head(toClient[i]).profiles = S
    BY <2>1 DEF ResultOf
  <2>3. result' = [p \in Profiles |-> result[p] + (IF p \in Head(toClient[i]).profiles THEN 1 ELSE 0)]
    BY DEF Result
  <2> HIDE DEF S
  <2>4. result' = [p \in Profiles |-> result[p] + (IF p \in S THEN 1 ELSE 0)]
    BY <2>2, <2>3, Zenon
  <2> QED
    BY <1>1, <2>4
<1>7. /\ client' \in ClientState /\ client'.pending = client.pending \ {i} /\ client'.failed = client.failed
      /\ client'.pc = IF client.pending # {i} THEN "results" ELSE IF client.failed THEN "error" ELSE "done"
  BY <1>1, CollectedDoes
<1>8. TypeOK'
  BY <1>1, <1>5, <1>6, <1>7, Zenon DEF IInv, TypeOK
<1>9. HeapIsComplete'
  BY <1>1, CollectedHeap
<1>10. StreamsInStep'
  <2> SUFFICES ASSUME NEW j \in Ingesters PROVE InStep(j)'
    BY Zenon DEF StreamsInStep, InStep
  <2>1. InStep(j)
    BY StreamTypes
  <2>2. CASE j # i
    BY <1>1, <1>5, <2>1, <2>2, OtherStream
  <2>3. CASE j = i
    <3>1. /\ batches(i)' = batches(i) /\ Kept(i)' = Kept(i) /\ Dealt(i)' = Dealt(i)
          /\ ResultOf(i)' = ResultOf(i)
      BY <1>1, SameBatches DEF Kept, Dealt, ResultOf
    <3>2. IteratorIsAtItsBatch(i)'
      BY <1>1, <1>2, <1>3, <3>1, Zenon DEF InStep, IteratorIsAtItsBatch
    <3>3. Selected(i)'
      BY Zenon, <1>1, <1>2, <1>4, <1>5, <3>1 DEF Selected
    <3> QED
      BY <2>3, <3>2, <3>3 DEF InStep
  <2> QED
    BY <2>2, <2>3
<1>11. BehindIsChosen' /\ ChosenOnce'
  <2>1. /\ \A f \in Ingesters : Chosen(f)' = Chosen(f)
        /\ \A j \in Ingesters : \A m \in 1..Len(batches(j)) : \A k \in 1..Len(batches(j)[m]) :
             Behind(j, m, k)' <=> Behind(j, m, k)
    BY <1>1, Zenon DEF Chosen, Kept, Behind, Dealt
  <2> QED
    BY <1>1, <2>1, SameChoice, Zenon DEF IInv
<1>12. S \subseteq Profiles
  BY <1>2 DEF ServerState
<1> HIDE DEF S
<1>13. CollectedIsMerged'
  <2> SUFFICES ASSUME ~client.failed, NEW j \in Ingesters \ client'.pending
               PROVE  /\ server[j].pc = "done" /\ ~iters[j].err
                      /\ \A p \in server[j].selection : result'[p] >= 1
    BY <1>1, <1>7, Zenon DEF CollectedIsMerged
  <2>1. CASE j = i
    BY SMTT(30), <1>1, <1>3, <1>4, <1>6, <1>12, <2>1 DEF S
  <2>2. CASE j # i
    <3>1. /\ server[j].pc = "done" /\ ~iters[j].err
          /\ \A p \in server[j].selection : result[p] >= 1
      <4>1. j \in Ingesters \ client.pending /\ client.pc \in {"results", "done"}
        BY <1>1, <1>7, <2>2
      <4> QED
        BY <4>1, Zenon DEF IInv, CollectedIsMerged
    <3>2. server[j].selection \subseteq Profiles
      BY StreamTypes DEF ServerState
    <3>3. \A p \in server[j].selection : result'[p] >= 1
      <4> TAKE p \in server[j].selection
      <4>1. p \in Profiles /\ result[p] >= 1 /\ result[p] \in Nat
        BY <1>1, <3>1, <3>2
      <4>2. result'[p] = result[p] + (IF p \in S THEN 1 ELSE 0)
        BY <1>6, <4>1
      <4> QED
        BY <4>1, <4>2
    <3> QED
      BY <3>1, <3>3
  <2> QED
    BY Zenon, <2>1, <2>2
<1>14. MergedOnce'
  <2> SUFFICES ASSUME InOrder, NEW p \in Profiles
               PROVE  /\ result'[p] <= 1
                      /\ result'[p] = 1 =>
                          /\ client'.pc \in {"results", "done", "error"}
                          /\ \E j \in Ingesters \ client'.pending : server[j].pc = "done" /\ p \in server[j].selection
    BY <1>1, SameBatches, Zenon DEF MergedOnce
  <2>1. /\ result[p] <= 1
        /\ result[p] = 1 =>
             \E j \in Ingesters \ client.pending : server[j].pc = "done" /\ p \in server[j].selection
    BY Zenon DEF IInv, MergedOnce
  <2>2. client'.pc \in {"results", "done", "error"}
    BY <1>7
  <2>3. Ingesters \ client.pending \subseteq Ingesters \ client'.pending /\ i \in Ingesters \ client'.pending
    BY <1>7
  <2>4. CASE p \in S
    <3>1. result[p] # 1
      <4> SUFFICES ASSUME result[p] = 1 PROVE FALSE
        OBVIOUS
      <4>1. PICK j \in Ingesters \ client.pending : p \in server[j].selection
        BY <2>1
      <4>2. j # i
        BY <1>1
      <4>3. Chosen(j) \cap Chosen(i) = {}
        BY <4>2, Zenon DEF IInv, ChosenOnce
      <4>4. p \in Chosen(j) /\ p \in Chosen(i)
        BY <2>4, <4>1 DEF Chosen, S
      <4> QED
        BY <4>3, <4>4
    <3>2. result'[p] = 1
      BY <1>1, <1>6, <2>1, <2>4, <3>1
    <3> QED
      BY <1>4, <2>2, <2>3, <2>4, <3>2 DEF S
  <2>5. CASE p \notin S
    <3>1. result'[p] = result[p]
      BY <1>1, <1>6, <2>5
    <3> QED
      BY <2>1, <2>2, <2>3, <3>1
  <2> QED
    BY <2>4, <2>5
<1> QED
  BY Zenon, <1>8, <1>9, <1>10, <1>11, <1>13, <1>14 DEF IInv

(* The iterators after skipDuplicates has picked the least profile.        *)
LEMMA PickDoes ==
    ASSUME IInv, Pick
    PROVE  \E first \in tuples(client.heap) : \A i \in Ingesters :
            /\ iters'[i] \in IteratorState
            /\ i \notin tuples(client.heap) => iters'[i] = iters[i]
            /\ i \in tuples(client.heap) =>
                /\ iters[i].pc = "at" /\ iters'[i].pc = "next" /\ iters'[i].idx = iters[i].idx
                /\ iters'[i].batch = iters[i].batch /\ iters'[i].read = iters[i].read
                /\ (iters'[i].keepSent <=> iters[i].keepSent) /\ (iters'[i].err <=> iters[i].err)
                /\ iters'[i].keep = IF i = first THEN iters[i].keep \cup {iters[i].idx} ELSE iters[i].keep
<1> DEFINE T == tuples(client.heap)
           K(first, i) == IF i = first THEN iters[i].keep \cup {iters[i].idx} ELSE iters[i].keep
<1>1. PICK first \in T :
        iters' = [i \in Ingesters |-> IF i \notin T THEN iters[i]
                                      ELSE [iters[i] EXCEPT !.pc = "next", !.keep = K(first, i)]]
  BY Zenon DEF Pick
<1>2. T \subseteq client.heap /\ client.heap \subseteq Ingesters /\ client.pc = "pick"
  BY Zenon DEF tuples, Pick, IInv, TypeOK, ClientState
<1> HIDE DEF T
<1>3. ASSUME NEW i \in Ingesters
      PROVE  /\ iters'[i] \in IteratorState
             /\ i \notin T => iters'[i] = iters[i]
             /\ i \in T =>
                 /\ iters[i].pc = "at" /\ iters'[i].pc = "next" /\ iters'[i].idx = iters[i].idx
                 /\ iters'[i].batch = iters[i].batch /\ iters'[i].read = iters[i].read
                 /\ (iters'[i].keepSent <=> iters[i].keepSent) /\ (iters'[i].err <=> iters[i].err)
                 /\ iters'[i].keep = K(first, i)
  <2> DEFINE c == iters[i]
             k == K(first, i)
             x == [c EXCEPT !.pc = "next", !.keep = k]
  <2>1. c \in IteratorState /\ c.keep \subseteq Nat /\ c.idx \in Nat
    BY StreamTypes, IteratorFields
  <2>2. k \in SUBSET Nat
    BY <2>1
  <2>3. CASE i \notin T
    <3>1. iters'[i] = c
      BY <1>1, <2>3, Zenon
    <3> QED
      BY <2>1, <2>3, <3>1
  <2>4. CASE i \in T
    <3>1. iters'[i] = x
      BY <1>1, <2>4, Zenon
    <3>2. iters[i].pc = "at"
      BY <1>2, <2>4 DEF IInv, HeapIsComplete
    <3> HIDE DEF c, k
    <3>3. x \in IteratorState
      BY ONLY Zenon, <2>1, <2>2 DEF IteratorState
    <3>4. x.pc = "next" /\ x.keep = k /\ x.idx = c.idx /\ x.batch = c.batch /\ x.read = c.read
      BY ONLY <2>1, <2>2 DEF IteratorState
    <3>5. x.keepSent = c.keepSent /\ x.err = c.err
      BY ONLY <2>1, <2>2 DEF IteratorState
    <3> HIDE DEF x
    <3> QED
      BY <2>4, <3>1, <3>2, <3>3, <3>4, <3>5, Zenon DEF c, k
  <2> QED
    BY Zenon, <2>3, <2>4
<1> QED
  BY <1>3, Zenon DEF T

(* The iterators of the heap wait at a profile of the batch the ingester   *)
(* waits for.                                                              *)
LEMMA AtProfile ==
    ASSUME IInv, NEW i \in Ingesters, iters[i].pc = "at"
    PROVE  /\ Selecting(i) /\ toServer[i] = <<>> /\ ~iters[i].err
           /\ iters[i].read \in 1..Len(batches(i)) /\ iters[i].idx \in 1..Len(batches(i)[iters[i].read])
           /\ iters[i].batch = batches(i)[iters[i].read]
           /\ At(i) = batches(i)[iters[i].read][iters[i].idx] /\ At(i) \in Profiles
           /\ Dealt(i) = iters[i].idx - 1
<1>1. /\ InStep(i) /\ iters[i] \in IteratorState /\ server[i] \in ServerState
      /\ batches(i) \in Seq(Seq(Profiles)) /\ Len(batches(i)) \in Nat
  BY Zenon, StreamTypes
<1>2. Selecting(i) /\ toServer[i] = <<>>
  BY Zenon, <1>1 DEF InStep, Selected, Selecting
<1>3. ~iters[i].err
  BY <1>1 DEF InStep, IteratorIsAtItsBatch
<1>4. iters[i].read # 0
  BY <1>1, <1>2 DEF Selecting, ServerState
<1>5. /\ iters[i].read \in 0..Len(batches(i)) /\ iters[i].idx <= Len(iters[i].batch) /\ iters[i].idx >= 1
      /\ iters[i].batch = batches(i)[iters[i].read]
  BY <1>1, <1>4 DEF InStep, IteratorIsAtItsBatch
<1>6. iters[i].idx \in Nat /\ iters[i].batch \in Seq(Profiles) /\ Len(iters[i].batch) \in Nat
  BY <1>1, IteratorFields, Zenon
<1>7. iters[i].idx \in 1..Len(iters[i].batch)
  BY <1>5, <1>6
<1>8. iters[i].read \in 1..Len(batches(i))
  BY <1>1, <1>4, <1>5
<1>9. At(i) \in Profiles
  BY <1>6, <1>7 DEF At
<1> QED
  BY <1>2, <1>3, <1>5, <1>7, <1>8, <1>9, Zenon DEF At, Dealt

(* skipDuplicates keeps the least profile at one ingester and goes on past *)
(* it at all of them.                                                      *)
LEMMA PickIInv ==
    ASSUME IInv, Pick
    PROVE  IInv'
<1> DEFINE T == tuples(client.heap)
           H == client.heap
<1>1. /\ stores' = stores /\ server' = server /\ toClient' = toClient /\ toServer' = toServer
      /\ broken' = broken /\ result' = result
      /\ client.pc = "pick" /\ client.pending = {}
      /\ T \subseteq H /\ H \subseteq Ingesters /\ T \subseteq Ingesters
      /\ \A i \in H : iters[i].pc = "at"
      /\ \A i \in Ingesters \ H : iters[i].pc = "end"
      /\ \A i \in H : i \in T <=> \A j \in H : At(i) <= At(j)
  <2>1. /\ stores' = stores /\ server' = server /\ toClient' = toClient /\ toServer' = toServer
        /\ broken' = broken /\ result' = result /\ client.pc = "pick"
    BY Zenon DEF Pick
  <2>2. H \subseteq Ingesters
    BY DEF IInv, TypeOK, ClientState
  <2>3. T \subseteq H /\ \A i \in H : i \in T <=> \A j \in H : At(i) <= At(j)
    BY DEF tuples
  <2>4. client.pending = {}
    BY <2>1 DEF IInv, HeapIsComplete
  <2>5. /\ \A i \in H : iters[i].pc = "at"
        /\ \A i \in Ingesters \ H : iters[i].pc = "end"
    BY <2>1, <2>4 DEF IInv, HeapIsComplete
  <2> QED
    BY <2>1, <2>2, <2>3, <2>4, <2>5
<1>2. PICK first \in T : \A i \in Ingesters :
            /\ iters'[i] \in IteratorState
            /\ i \notin T => iters'[i] = iters[i]
            /\ i \in T =>
                /\ iters[i].pc = "at" /\ iters'[i].pc = "next" /\ iters'[i].idx = iters[i].idx
                /\ iters'[i].batch = iters[i].batch /\ iters'[i].read = iters[i].read
                /\ (iters'[i].keepSent <=> iters[i].keepSent) /\ (iters'[i].err <=> iters[i].err)
                /\ iters'[i].keep = IF i = first THEN iters[i].keep \cup {iters[i].idx} ELSE iters[i].keep
  BY PickDoes, Zenon
<1> DEFINE least == At(first)
<1>3. /\ client' \in ClientState /\ client'.heap = H \ T /\ client'.pending = T
      /\ client'.pc \in {"requeue", "single"}
  <2> DEFINE v == IF Cardinality(client.heap) = 1 THEN "single" ELSE "requeue"
             h == H \ T
  <2>1. client' = [pc |-> v, heap |-> h, pending |-> T, failed |-> FALSE]
    BY Zenon DEF Pick
  <2>2. v \in {"requeue", "single"} /\ h \in SUBSET Ingesters /\ T \in SUBSET Ingesters
    BY <1>1
  <2> HIDE DEF v, h, T
  <2>3. client' \in ClientState /\ client'.heap = h /\ client'.pending = T /\ client'.pc = v
    BY <2>1, <2>2 DEF ClientState
  <2> QED
    BY <2>2, <2>3 DEF h
<1>4. TypeOK'
  <2>1. DOMAIN iters' = Ingesters /\ iters' = [i \in Ingesters |-> iters'[i]]
    BY Zenon DEF Pick
  <2>2. iters' \in [Ingesters -> IteratorState]
    BY <1>2, <2>1, Zenon
  <2> QED
    BY <1>1, <1>3, <2>2, Zenon DEF IInv, TypeOK
<1> HIDE DEF T
<1>5. HeapIsComplete'
  <2>1. \A i \in H \ T : iters'[i].pc = "at"
    BY Zenon, <1>1, <1>2
  <2>2. \A i \in Ingesters \ ((H \ T) \cup T) : iters'[i].pc = "end"
    BY Zenon, <1>1, <1>2
  <2>3. client'.pc \notin {"pick", "done", "error"} /\ client'.pc \notin {"results", "done"} /\ client'.pc # "done"
    BY <1>3
  <2>4. (H \ T) \cap T = {}
    OBVIOUS
  <2> QED
    BY <1>3, <2>1, <2>2, <2>3, <2>4, Zenon DEF HeapIsComplete
<1>6. ASSUME NEW i \in T
      PROVE  Dealt(i)' = iters[i].idx /\ Dealt(i) = iters[i].idx - 1 /\ iters[i].idx \in Nat \ {0}
  <2>1. i \in Ingesters /\ iters[i].pc = "at" /\ iters'[i].pc = "next" /\ iters'[i].idx = iters[i].idx
    BY Zenon, <1>1, <1>2
  <2>2. iters[i].idx \in 1..Len(iters[i].batch) /\ Len(iters[i].batch) \in Nat
    BY Zenon, <2>1, AtProfile, StreamTypes, IteratorFields
  <2> QED
    BY <2>1, <2>2 DEF Dealt
<1>7. StreamsInStep'
  <2> SUFFICES ASSUME NEW i \in Ingesters PROVE InStep(i)'
    BY Zenon DEF StreamsInStep, InStep
  <2>1. InStep(i)
    BY StreamTypes
  <2>2. CASE i \notin T
    BY Zenon, <1>1, <1>2, <2>1, <2>2, OtherStream
  <2>3. CASE i \in T
    <3> DEFINE c == iters[i]
               x == iters'[i]
    <3>1. /\ c.pc = "at" /\ x.pc = "next" /\ x.idx = c.idx /\ x.batch = c.batch /\ x.read = c.read
          /\ (x.keepSent <=> c.keepSent) /\ (x.err <=> c.err)
          /\ x.keep = c.keep \/ x.keep = c.keep \cup {c.idx}
      BY Zenon, <1>2, <2>3
    <3>2. Selecting(i) /\ toServer[i] = <<>> /\ ~c.err
      BY <3>1, AtProfile
    <3>3. Dealt(i)' = c.idx /\ Dealt(i) = c.idx - 1 /\ c.idx \in Nat \ {0}
      BY <1>6, <2>3
    <3>4. batches(i)' = batches(i)
      BY <1>1, SameBatches
    <3>5. /\ c.read \in 0..Len(batches(i)) /\ c.batch = (IF c.read = 0 THEN <<>> ELSE batches(i)[c.read])
          /\ (c.keepSent <=> c.read = 0) /\ c.idx <= Len(c.batch) /\ c.keep \subseteq 1..Dealt(i)
      BY <2>1, Zenon DEF InStep, IteratorIsAtItsBatch
    <3>6. x.keep \subseteq 1..c.idx
      BY SMTT(30), <3>1, <3>3, <3>5
    <3>7. x.pc # "at" /\ x.pc # "receive" /\ x.pc # "end"
      BY <3>1
    <3>8. IteratorIsAtItsBatch(i)'
      <4> HIDE DEF c
      <4>1. /\ x.read \in 0..Len(batches(i)) /\ x.batch = (IF x.read = 0 THEN <<>> ELSE batches(i)[x.read])
            /\ (x.keepSent <=> x.read = 0) /\ x.idx <= Len(x.batch) /\ x.keep \subseteq 1..Dealt(i)' /\ ~x.err
        BY <3>1, <3>2, <3>3, <3>5, <3>6, Zenon
      <4> QED
        BY <3>4, <3>7, <4>1, Zenon DEF IteratorIsAtItsBatch
    <3>9. Selecting(i)'
      BY <1>1, <3>1, <3>2, <3>7 DEF Selecting
    <3> QED
      BY <3>8, <3>9 DEF InStep
  <2> QED
    BY <2>2, <2>3
<1>8. /\ first \in Ingesters /\ first \in H /\ iters[first].pc = "at"
      /\ least = batches(first)[iters[first].read][iters[first].idx] /\ least \in Nat
      /\ iters[first].read \in 1..Len(batches(first))
      /\ iters[first].idx \in 1..Len(batches(first)[iters[first].read])
  <2>1. first \in Ingesters /\ first \in H /\ iters[first].pc = "at"
    BY <1>1
  <2> QED
    BY Zenon, <2>1, AtProfile, MergeStreamAssumption
<1>9. /\ \A f \in Ingesters \ {first} : Chosen(f)' = Chosen(f)
      /\ Chosen(first)' = Chosen(first) \cup {least}
  <2>1. ASSUME NEW f \in Ingesters \ {first}
        PROVE  Chosen(f)' = Chosen(f)
    <3>1. iters'[f].keep = iters[f].keep /\ iters'[f].batch = iters[f].batch
      BY Zenon, <1>2
    <3> QED
      BY <1>1, <3>1 DEF Chosen, Kept
  <2>2. Kept(first)' = Kept(first) \cup {least}
    <3>1. iters'[first].keep = iters[first].keep \cup {iters[first].idx} /\ iters'[first].batch = iters[first].batch
      BY Zenon, <1>2, <1>8
    <3> QED
      BY <3>1 DEF Kept, At
  <2> HIDE DEF least
  <2>3. Chosen(first)' = Chosen(first) \cup {least}
    BY <1>1, <2>2 DEF Chosen
  <2> QED
    BY <2>1, <2>3
<1>10. \A i \in T : At(i) = least
  <2> TAKE i \in T
  <2>1. At(i) <= least /\ least <= At(i)
    BY <1>1, <1>8
  <2>2. At(i) \in Nat
    BY Zenon, <1>1, AtProfile, MergeStreamAssumption
  <2> QED
    BY SMTT(30), <1>8, <2>1, <2>2
<1>11. \A i \in H \ T : least < At(i)
  <2> TAKE i \in H \ T
  <2>1. PICK j \in H : ~(At(i) <= At(j))
    BY <1>1
  <2>2. least <= At(j)
    BY <1>1, <2>1
  <2>3. At(i) \in Nat /\ At(j) \in Nat
    BY Zenon, <1>1, AtProfile, MergeStreamAssumption
  <2> QED
    BY SMTT(30), <1>8, <2>1, <2>2, <2>3
<1> HIDE DEF least, H
<1>12. /\ \A i \in Ingesters : batches(i)' = batches(i)
       /\ InOrder' <=> InOrder
  BY <1>1, SameBatches, Zenon
<1>13. ASSUME NEW i \in Ingesters, i \notin T, NEW m, NEW k
       PROVE  Behind(i, m, k)' <=> Behind(i, m, k)
  <2>1. iters'[i] = iters[i]
    BY Zenon, <1>2, <1>13
  <2> QED
    BY <2>1, Zenon DEF Behind, Dealt
<1>14. ASSUME NEW i \in T, NEW m \in Int, NEW k \in Int
       PROVE  /\ Behind(i, m, k)' <=> (m < iters[i].read \/ (m = iters[i].read /\ k <= iters[i].idx))
              /\ Behind(i, m, k) <=> (m < iters[i].read \/ (m = iters[i].read /\ k <= iters[i].idx - 1))
  <2>1. iters'[i].read = iters[i].read
    BY Zenon, <1>1, <1>2
  <2> QED
    BY <1>6, <2>1, Zenon DEF Behind
<1>15. BehindIsChosen'
  <2> SUFFICES ASSUME NEW i \in Ingesters, NEW m \in 1..Len(batches(i)), NEW k \in 1..Len(batches(i)[m]),
                      Behind(i, m, k)'
               PROVE  \E f \in Ingesters : batches(i)[m][k] \in Chosen(f)'
    BY <1>12 DEF BehindIsChosen
  <2>1. CASE Behind(i, m, k)
    <3>1. PICK f \in Ingesters : batches(i)[m][k] \in Chosen(f)
      BY <2>1, Zenon DEF IInv, BehindIsChosen
    <3>2. batches(i)[m][k] \in Chosen(f)'
      BY Zenon, <1>9, <3>1
    <3> QED
      BY <3>2
  <2>2. CASE ~Behind(i, m, k)
    <3>1. i \in T
      BY <1>13, <2>2
    <3>2. m = iters[i].read /\ k = iters[i].idx
      <4>1. iters[i].idx \in Nat /\ m \in Int /\ k \in Int
        BY <1>6, <3>1
      <4> QED
        BY <1>14, <2>2, <3>1, <4>1
    <3>3. batches(i)[m][k] = least
      BY <1>1, <1>10, <3>1, <3>2, AtProfile
    <3> QED
      BY <1>8, <1>9, <3>3
  <2> QED
    BY <2>1, <2>2
<1>16. CollectedIsMerged'
  <2>1. client'.pc \notin {"results", "done"}
    BY <1>3
  <2> QED
    BY <2>1, Zenon DEF CollectedIsMerged
<1>17. MergedOnce'
  <2>1. client.pc \in {"requeue", "single", "pick"}
    BY <1>1
  <2> QED
    BY <1>1, <1>12, <2>1, NothingMerged, Zenon DEF MergedOnce
<1>18. ChosenOnce'
  <2> SUFFICES ASSUME InOrder
               PROVE  /\ \A f, i \in Ingesters : iters'[i].pc # "end" =>
                            \A m \in 1..Len(batches(i)) : \A k \in 1..Len(batches(i)[m]) :
                              ~Behind(i, m, k)' => \A p \in Chosen(f)' : p < batches(i)[m][k]
                      /\ \A f, g \in Ingesters : f # g => Chosen(f)' \cap Chosen(g)' = {}
    BY <1>12, Zenon DEF ChosenOnce
  <2>1. /\ \A f, i \in Ingesters : iters[i].pc # "end" =>
              \A m \in 1..Len(batches(i)) : \A k \in 1..Len(batches(i)[m]) :
                ~Behind(i, m, k) => \A p \in Chosen(f) : p < batches(i)[m][k]
        /\ \A f, g \in Ingesters : f # g => Chosen(f) \cap Chosen(g) = {}
    BY Zenon DEF IInv, ChosenOnce
  <2>2. \A g \in Ingesters : least \notin Chosen(g)
    <3> SUFFICES ASSUME NEW g \in Ingesters, least \in Chosen(g) PROVE FALSE
      OBVIOUS
    <3> DEFINE m == iters[first].read
               k == iters[first].idx
    <3>1. ~Behind(first, m, k)
      <4>1. m \in Int /\ k \in Nat \ {0}
        <5>1. iters[first] \in IteratorState
          BY <1>8, StreamTypes, Zenon
        <5>2. m \in Nat
          BY <5>1, IteratorFields, Zenon
        <5>3. m \in Int
          BY ONLY <5>2
        <5>4. k \in Nat \ {0}
          BY <1>6, Zenon
        <5> QED
          BY <5>3, <5>4, Zenon
      <4> HIDE DEF m, k
      <4>2. ~(m < m \/ (m = m /\ k <= k - 1))
        BY <4>1
      <4> QED
        BY <1>14, <4>1, <4>2 DEF m, k
    <3>2. iters[first].pc # "end"
      BY <1>8
    <3>3. least < batches(first)[m][k]
      BY <1>8, <2>1, <3>1, <3>2, Zenon
    <3> QED
      BY SMTT(30), <1>8, <3>3
  <2>3. ASSUME NEW f \in Ingesters, NEW i \in Ingesters, iters'[i].pc # "end",
               NEW m \in 1..Len(batches(i)), NEW k \in 1..Len(batches(i)[m]), ~Behind(i, m, k)',
               NEW p \in Chosen(f)'
        PROVE  p < batches(i)[m][k]
    <3> DEFINE r == iters[i].read
               n == iters[i].idx
               B == batches(i)
    <3>1. i \in H /\ iters[i].pc = "at" /\ iters[i].pc # "end"
      <4>1. CASE i \in T
        BY <1>1, <4>1
      <4>2. CASE i \notin T
        BY Zenon, <1>1, <1>2, <2>3, <4>2
      <4> QED
        BY <4>1, <4>2
    <3>2. r \in 1..Len(B) /\ n \in 1..Len(B[r]) /\ At(i) = B[r][n] /\ Dealt(i) = n - 1 /\ At(i) \in Nat
      BY Zenon, <3>1, AtProfile, MergeStreamAssumption
    <3>3. r \in Int /\ n \in Int /\ m \in Int /\ k \in Int
      <4>1. Len(B) \in Nat /\ Len(B[r]) \in Nat /\ Len(B[m]) \in Nat
        BY SMTT(30), <3>2, StreamTypes
      <4> QED
        BY <3>2, <4>1
    <3>4. ~Behind(i, m, k)
      BY <1>13, <1>14, <2>3, <3>3
    <3>5. CASE p \in Chosen(f)
      BY <2>1, <3>1, <3>4, <3>5, Zenon
    <3>6. CASE p \notin Chosen(f)
      <4>1. p = least
        BY <1>9, <3>6
      <4>2. Ascending(Stream(i))
        BY Zenon DEF InOrder
      <4>3. m < r \/ (m = r /\ k <= n - 1) \/ m > r \/ (m = r /\ k >= n)
        BY <3>3
      <4>4. m > r \/ (m = r /\ k >= n)
        <5>1. ~(m < r \/ (m = r /\ k <= n - 1))
          BY <3>2, <3>4, Zenon DEF Behind
        <5> QED
          BY <4>3, <5>1
      <4>5. (r < m \/ (r = m /\ n < k)) => At(i) < B[m][k]
        <5>1. TypeOK
          BY DEF IInv
        <5>2. (r < m \/ (r = m /\ n < k)) => B[r][n] < B[m][k]
          BY <3>2, <4>2, <5>1, BatchesHaveAll, Zenon
        <5> QED
          BY <3>2, <5>2
      <4>6. B[m][k] \in Nat
        <5>1. B[m] \in Seq(Profiles)
          BY StreamTypes
        <5>2. B[m][k] \in Profiles
          BY <5>1
        <5> QED
          BY Zenon, <5>2, MergeStreamAssumption
      <4>7. CASE i \in T
        <5>1. ~(m < r \/ (m = r /\ k <= n))
          BY <1>14, <2>3, <3>3, <4>7
        <5>2. r < m \/ (r = m /\ n < k)
          BY <3>3, <5>1
        <5> QED
          BY Zenon, <1>10, <4>1, <4>5, <4>7, <5>2
      <4>8. CASE i \notin T
        <5>1. least < At(i)
          BY <1>11, <3>1, <4>8
        <5>2. (m = r /\ k = n) \/ r < m \/ (r = m /\ n < k)
          BY <3>3, <4>4
        <5>3. At(i) <= B[m][k]
          BY SMTT(30), <3>2, <4>5, <4>6, <5>2
        <5> DEFINE a == At(i)
                   b == B[m][k]
        <5>4. least \in Nat /\ a \in Nat /\ b \in Nat /\ least < a /\ a <= b
          BY Zenon, <1>8, <3>2, <4>6, <5>1, <5>3
        <5> HIDE DEF a, b
        <5>5. least < b
          BY ONLY <5>4
        <5> QED
          BY <4>1, <5>5 DEF b
      <4> QED
        BY <4>7, <4>8
    <3> QED
      BY <3>5, <3>6
  <2>4. ASSUME NEW f \in Ingesters, NEW g \in Ingesters, f # g
        PROVE  Chosen(f)' \cap Chosen(g)' = {}
    <3>1. Chosen(f) \cap Chosen(g) = {} /\ least \notin Chosen(f) /\ least \notin Chosen(g)
      BY <2>1, <2>2, <2>4, Zenon
    <3>2. CASE f = first
      <4>1. Chosen(f)' = Chosen(f) \cup {least} /\ Chosen(g)' = Chosen(g)
        BY <1>9, <2>4, <3>2
      <4> QED
        BY <3>1, <4>1
    <3>3. CASE g = first
      <4>1. Chosen(g)' = Chosen(g) \cup {least} /\ Chosen(f)' = Chosen(f)
        BY <1>9, <2>4, <3>3
      <4> QED
        BY <3>1, <4>1
    <3>4. CASE f # first /\ g # first
      BY <1>9, <3>1, <3>4
    <3> QED
      BY <3>2, <3>3, <3>4
  <2> QED
    BY <2>3, <2>4, Zenon
<1> QED
  BY Zenon, <1>4, <1>5, <1>7, <1>15, <1>16, <1>17, <1>18 DEF IInv

-----------------------------------------------------------------------------
(* The theorems *)

(* Every query starts in the invariant, whatever the ingesters hold.       *)
LEMMA InitIInv ==
    ASSUME Init
    PROVE  IInv
<1>1. /\ \A i \in Ingesters : server[i] = [pc |-> "send", next |-> 1, selection |-> {}]
      /\ \A i \in Ingesters : toClient[i] = <<>> /\ toServer[i] = <<>>
      /\ \A i \in Ingesters : iters[i] = NewMergeIterator
      /\ client = [pc |-> "requeue", heap |-> {}, pending |-> Ingesters, failed |-> FALSE]
      /\ result = [p \in Profiles |-> 0]
  BY DEF Init
<1>2. TypeOK
  <2>1. stores \in [Ingesters -> [head : SUBSET Profiles, blocks : SUBSET Profiles]]
    BY Zenon DEF Init
  <2>2. [pc |-> "send", next |-> 1, selection |-> {}] \in ServerState
    BY DEF ServerState
  <2>3. NewMergeIterator \in IteratorState
    BY DEF NewMergeIterator, IteratorState
  <2>4. server \in [Ingesters -> ServerState] /\ iters \in [Ingesters -> IteratorState]
    BY <2>2, <2>3, Zenon DEF Init
  <2>5. client \in ClientState
    BY <1>1 DEF ClientState
  <2>6. result \in [Profiles -> Nat]
    BY <1>1
  <2>7. DOMAIN toClient = Ingesters /\ DOMAIN toServer = Ingesters /\ broken \subseteq Ingesters
    BY DEF Init
  <2> QED
    BY <2>1, <2>4, <2>5, <2>6, <2>7 DEF TypeOK
<1>3. ASSUME NEW i \in Ingesters
      PROVE  /\ iters[i].pc = "next" /\ iters[i].batch = <<>> /\ iters[i].idx = 0 /\ iters[i].keep = {}
             /\ iters[i].keepSent /\ ~iters[i].err /\ iters[i].read = 0
             /\ server[i].pc = "send" /\ server[i].next = 1 /\ server[i].selection = {}
  <2>1. iters[i] = NewMergeIterator
    BY <1>1, Zenon
  <2>2. server[i] = [pc |-> "send", next |-> 1, selection |-> {}]
    BY <1>1, Zenon
  <2>3. /\ iters[i].pc = "next" /\ iters[i].batch = <<>> /\ iters[i].idx = 0 /\ iters[i].keep = {}
        /\ iters[i].keepSent /\ ~iters[i].err /\ iters[i].read = 0
    BY ONLY <2>1 DEF NewMergeIterator
  <2>4. server[i].pc = "send" /\ server[i].next = 1 /\ server[i].selection = {}
    BY ONLY <2>2
  <2> QED
    BY <2>3, <2>4, Zenon
<1>4. \A i \in Ingesters : Kept(i) = {} /\ Dealt(i) = 0 /\ Chosen(i) = {}
  BY <1>3 DEF Kept, Dealt, Chosen
<1>5. StreamsInStep
  <2> SUFFICES ASSUME NEW i \in Ingesters PROVE IteratorIsAtItsBatch(i) /\ Selected(i)
    BY DEF StreamsInStep
  <2>1. Len(batches(i)) \in Nat
    BY <1>2, BatchesHaveAll
  <2>2. IteratorIsAtItsBatch(i)
    <3> DEFINE it == iters[i]
    <3>1. /\ it.pc = "next" /\ it.batch = <<>> /\ it.idx = 0 /\ it.keep = {}
          /\ it.keepSent /\ ~it.err /\ it.read = 0
      BY <1>3, Zenon
    <3>2. it.read \in 0..Len(batches(i))
      <4>1. it.read = 0
        BY <3>1, Zenon
      <4> HIDE DEF it
      <4> QED
        BY ONLY <4>1, <2>1
    <3>3. it.idx <= Len(it.batch)
      <4>1. it.idx = 0 /\ it.batch = <<>>
        BY <3>1, Zenon
      <4> HIDE DEF it
      <4> QED
        BY ONLY <4>1
    <3>4. it.keep \subseteq 1..Dealt(i)
      BY <3>1, Zenon
    <3>5. it.pc # "at" /\ it.pc # "receive" /\ it.pc # "end"
      BY <3>1, Zenon
    <3> QED
      BY <3>1, <3>2, <3>3, <3>4, <3>5, Zenon DEF IteratorIsAtItsBatch
  <2>3. Selected(i)
    <3>1. toServer[i] = <<>> /\ toClient[i] = <<>>
      BY DEF Init
    <3>2. iters[i].read = server[i].next - 1 /\ iters[i].pc \notin {"at", "end"}
      <4>1. iters[i].read = 0 /\ server[i].next = 1 /\ iters[i].pc = "next"
        BY <1>3, Zenon
      <4>2. iters[i].read = server[i].next - 1
        BY ONLY <4>1
      <4> QED
        BY <4>1, <4>2, Zenon
    <3> QED
      BY <1>3, <1>4, <3>1, <3>2, Zenon DEF Selected
  <2> QED
    BY <2>2, <2>3
<1>6. HeapIsComplete
  BY <1>1 DEF HeapIsComplete
<1>7. BehindIsChosen
  <2> SUFFICES ASSUME NEW i \in Ingesters, NEW m \in 1..Len(batches(i)), NEW k \in 1..Len(batches(i)[m]),
                      Behind(i, m, k)
               PROVE  FALSE
    BY Zenon DEF BehindIsChosen
  <2>1. m < 0 \/ m = 0
    BY <1>3, Zenon DEF Behind
  <2>2. Len(batches(i)) \in Nat
    BY SMTT(30), <1>2, BatchesHaveAll
  <2> QED
    BY <2>1, <2>2
<1>8. CollectedIsMerged
  BY <1>1 DEF CollectedIsMerged
<1>9. ChosenOnce
  BY <1>4, Zenon DEF ChosenOnce
<1>10. MergedOnce
  <2>1. \A p \in Profiles : result[p] <= 1 /\ result[p] # 1
    BY SMTT(30), <1>1
  <2> QED
    BY <2>1, Zenon DEF MergedOnce
<1> QED
  BY Zenon, <1>2, <1>5, <1>6, <1>7, <1>8, <1>9, <1>10 DEF IInv

(* Each step of the querier, of an ingester and of the network keeps the   *)
(* invariant.                                                              *)
LEMMA NextIInv ==
    ASSUME IInv, [Next]_vars
    PROVE  IInv'
<1>1. CASE Requeued
  BY <1>1, RequeuedIInv
<1>2. CASE Pick
  BY <1>2, PickIInv
<1>3. CASE Collect
  BY <1>3, CollectIInv
<1>4. ASSUME NEW i \in Ingesters, Next_(i)
      PROVE  IInv'
  BY <1>4, NextInBatchIInv, NextAfterBatchIInv
<1>5. ASSUME NEW i \in Ingesters, ReceiveBatch(i)
      PROVE  IInv'
  BY <1>5, ReceiveErrorIInv, ReceiveEndIInv, ReceiveNextIInv
<1>6. ASSUME NEW i \in Ingesters, Result(i)
      PROVE  IInv'
  BY <1>6, ResultErrorIInv, ResultIInv
<1>7. ASSUME NEW i \in Ingesters, Server(i)
      PROVE  IInv'
  BY <1>7, SendBatchIInv, ReceiveSelectionIInv, SendEndIInv, SendResultIInv DEF Server
<1>8. ASSUME NEW i \in Ingesters, Break(i)
      PROVE  IInv'
  BY <1>8, BreakIInv
<1>9. CASE UNCHANGED vars
  <2>1. /\ stores' = stores /\ server' = server /\ toClient' = toClient /\ toServer' = toServer
        /\ broken' = broken /\ iters' = iters /\ client' = client /\ result' = result
    BY <1>9 DEF vars
  <2>2. StreamsInStep' /\ BehindIsChosen' /\ ChosenOnce'
    BY <2>1, OnlyClient
  <2>3. TypeOK' /\ HeapIsComplete' /\ CollectedIsMerged'
    BY <2>1, Zenon DEF IInv, TypeOK, HeapIsComplete, CollectedIsMerged
  <2>4. MergedOnce'
    BY <2>1, SameBatches, Zenon DEF IInv, MergedOnce
  <2> QED
    BY <2>2, <2>3, <2>4 DEF IInv
<1> QED
  BY Zenon, <1>1, <1>2, <1>3, <1>4, <1>5, <1>6, <1>7, <1>8, <1>9 DEF Next, Client

(* The two ends of every stream are in step, whatever breaks, and what the *)
(* iterators have behind them is chosen at some ingester.                  *)
THEOREM StreamInvariant == Spec => []IInv
<1>1. Init => IInv
  BY InitIInv
<1>2. IInv /\ [Next]_vars => IInv'
  BY NextIInv
<1> QED
  BY <1>1, <1>2, PTL DEF Spec

(* A query of merged profiles that succeeds has every profile of every     *)
(* ingester, also when streams break on the way.                           *)
THEOREM NothingIsMissing == Spec => []CompleteOrError
<1>1. IInv => CompleteOrError
  <2> SUFFICES ASSUME IInv, client.pc = "done", NEW i \in Ingesters, NEW p \in Held(i)
               PROVE  result[p] >= 1
    BY DEF CompleteOrError
  <2>1. /\ \A j \in Ingesters : iters[j].pc = "end"
        /\ client.pending = {} /\ ~client.failed
    BY DEF IInv, HeapIsComplete
  <2>2. \A j \in Ingesters : /\ ~iters[j].err
                             /\ \A q \in server[j].selection : result[q] >= 1
    BY <2>1 DEF IInv, CollectedIsMerged
  <2>3. ASSUME NEW j \in Ingesters
        PROVE  Selected(j) /\ iters[j].read = Len(batches(j)) /\ iters[j].idx = Len(iters[j].batch)
    <3>1. InStep(j)
      BY StreamTypes
    <3>2. ~Selecting(j)
      BY <2>1, <2>2 DEF Selecting
    <3>3. Selected(j)
      BY <3>1, <3>2 DEF InStep
    <3>4. iters[j].read = Len(batches(j))
      BY Zenon, <2>1, <2>2, <3>3 DEF Selected
    <3>5. iters[j].idx = Len(iters[j].batch)
      BY <2>1, <2>2, <3>1, Zenon DEF InStep, IteratorIsAtItsBatch
    <3> QED
      BY <3>3, <3>4, <3>5
  <2>4. PICK m \in 1..Len(batches(i)) : \E k \in 1..Len(batches(i)[m]) : batches(i)[m][k] = p
    BY BatchesHaveAll, Zenon DEF IInv
  <2>5. PICK k \in 1..Len(batches(i)[m]) : batches(i)[m][k] = p
    BY <2>4
  <2>6. Behind(i, m, k)
    <3>1. Len(batches(i)) \in Nat /\ iters[i].read = Len(batches(i)) /\ Dealt(i) = Len(iters[i].batch)
      BY <2>1, <2>3, StreamTypes DEF Dealt
    <3>2. m < iters[i].read \/ m = iters[i].read
      BY SMTT(30), <3>1
    <3>3. m = iters[i].read => iters[i].batch = batches(i)[m]
      <4>1. m # 0
        BY <3>1
      <4>2. InStep(i)
        BY StreamTypes
      <4> QED
        BY <4>1, <4>2, Zenon DEF InStep, IteratorIsAtItsBatch
    <3>4. m = iters[i].read => k <= Dealt(i)
      <4>1. Len(batches(i)[m]) \in Nat
        BY StreamTypes
      <4> QED
        BY <3>1, <3>3, <4>1
    <3> QED
      BY <3>2, <3>4, Zenon DEF Behind
  <2>7. PICK f \in Ingesters : p \in Chosen(f)
    BY <2>5, <2>6, Zenon DEF IInv, BehindIsChosen
  <2>8. p \in server[f].selection
    BY <2>3, <2>7 DEF Chosen, Selected
  <2> QED
    BY <2>2, <2>8
<1> QED
  BY <1>1, StreamInvariant, PTL

(* With streams that are in order a profile that several replicas have is  *)
(* merged once.                                                            *)
THEOREM NothingIsDoubled == Spec => []OnceWhenInOrder
<1>1. IInv => OnceWhenInOrder
  BY Zenon DEF IInv, MergedOnce, InOrder, OnceWhenInOrder
<1> QED
  BY <1>1, StreamInvariant, PTL

=============================================================================

---------------------- MODULE DeduplicatingSliceProofs ----------------------
(* Theorems about DeduplicatingSlice, for any number of calls, any batches *)
(* and any table sizes.                                                    *)
EXTENDS DeduplicatingSlice, FiniteSetTheorems,
        SequenceTheorems, TLAPS


(* The elements of a call are rows with ids of their own.                  *)
LEMMA BatchType ==
    ASSUME TypeOK, NEW p \in Ingests
    PROVE  /\ elems[p] \in Seq(Row)
           /\ \A i, j \in 1..Len(elems[p]) :
                 elems[p][i].id = elems[p][j].id => i = j
<1>1. CASE elems[p] = <<>>
  BY <1>1
<1>2. CASE elems[p] \in Batches
  BY ZenonT(60), <1>2, BatchesAssumption DEF IsBatch, Row
<1> QED BY <1>1, <1>2 DEF TypeOK

(* The empty table satisfies the invariant.                                *)
LEMMA InitIInv == Init => IInv
<1> SUFFICES ASSUME Init PROVE IInv
  OBVIOUS
<1>1. TypeOK
  BY DEF Init, TypeOK, IsMaps, EmptyMap, Row
<1>2. LockDiscipline
  BY LockAssumption DEF Init, LockDiscipline
<1>3. LookupMatchesSlice
  BY DEF Init, LookupMatchesSlice, EmptyMap
<1>4. \A p \in Ingests : IngestProgress(p)
  <2> TAKE p \in Ingests
  <2>1. /\ pc[p] = "start" /\ pos[p] = 1 /\ elems[p] = <<>>
        /\ missing[p] = <<>> /\ rewritingMap[p] = EmptyMap
    BY DEF Init
  <2>2. DOMAIN rewritingMap[p] = {}
    BY <2>1 DEF EmptyMap
  <2> QED BY <2>1, <2>2 DEF IngestProgress
<1>5. FileRowsAreIds
  BY DEF Init, FileRowsAreIds
<1> QED BY <1>1, <1>2, <1>3, <1>4, <1>5 DEF IInv

----------------------------------------------------------------------------
(* Steps that leave the table alone preserve what is said of it.           *)

(* The RWMutex excludes readers from writers and writers from each other   *)
(* in every step.                                                          *)
LEMMA LockDisciplineStep ==
    ASSUME TypeOK, LockDiscipline, [Next]_vars
    PROVE  LockDiscipline'
<1>1. ASSUME NEW p \in Ingests, RLock(p) PROVE LockDiscipline'
  BY LockAssumption, <1>1 DEF RLock, LockDiscipline, TypeOK, flushVars
<1>2. ASSUME NEW p \in Ingests, LookupNext(p) PROVE LockDiscipline'
  BY <1>2 DEF LookupNext, LockDiscipline, TypeOK, flushVars
<1>3. ASSUME NEW p \in Ingests, RUnlock(p) PROVE LockDiscipline'
  BY <1>3 DEF RUnlock, readersWithout, LockDiscipline, TypeOK, flushVars
<1>4. ASSUME NEW p \in Ingests, Lock(p) PROVE LockDiscipline'
  BY Zenon, LockAssumption, <1>4 DEF Lock, LockDiscipline, TypeOK, flushVars
<1>5. ASSUME NEW p \in Ingests, InsertNext(p) PROVE LockDiscipline'
  BY Zenon, <1>5 DEF InsertNext, LockDiscipline, TypeOK, flushVars
<1>6. ASSUME NEW p \in Ingests, Unlock(p) PROVE LockDiscipline'
  BY LockAssumption, <1>6 DEF Unlock, LockDiscipline, TypeOK, flushVars
<1>7. CASE Flush
  BY LockAssumption, <1>7 DEF Flush, FlushLock, FlushPanic, FlushRowGroup, FlushError,
              FlushUnlock, LockDiscipline, TypeOK, ingestVars
<1>8. CASE Finished \/ UNCHANGED vars
  BY <1>8 DEF Finished, vars, ingestVars, flushVars, LockDiscipline
<1> QED
  BY <1>1, <1>2, <1>3, <1>4, <1>5, <1>6, <1>7, <1>8 DEF Next, ingest

----------------------------------------------------------------------------
(* Sorting rows that are already in order changes nothing.                 *)

(* An increasing permutation is the identity.                              *)
LEMMA IncreasingIsIdentity ==
    ASSUME NEW n \in Nat, NEW f \in Bijection(1..n, 1..n),
           \A i, j \in 1..n : i < j => f[i] < f[j]
    PROVE  \A i \in 1..n : f[i] = i
<1> TAKE i \in 1..n
<1>0. f \in [1..n -> 1..n] /\ f[i] \in 1..n
  BY DEF Bijection, Injection
<1>1. i <= f[i]
  <2> DEFINE g == [j \in 1..i |-> f[j]]
  <2>1. g \in Injection(1..i, 1..f[i])
    <3>1. \A j \in 1..i : j \in 1..n /\ f[j] \in 1..f[i]
      <4> TAKE j \in 1..i
      <4>1. j \in 1..n /\ (j = i \/ j < i)
        BY <1>0
      <4>2. f[j] \in 1..n /\ f[i] \in 1..n
        BY Zenon, <1>0, <4>1
      <4>3. CASE j = i
        BY <4>1, <4>2, <4>3
      <4>4. CASE j < i
        <5>1. f[j] < f[i]
          BY <4>1, <4>4
        <5> QED BY <4>1, <4>2, <5>1
      <4> QED BY <4>1, <4>3, <4>4
    <3>2. \A j, k \in 1..i : j # k => f[j] # f[k]
      BY SMTT(40), <1>0, <3>1
    <3> QED BY <3>1, <3>2 DEF Injection, IsInjective
  <2>2. /\ IsFiniteSet(1..i) /\ Cardinality(1..i) = i
        /\ IsFiniteSet(1..f[i]) /\ Cardinality(1..f[i]) = f[i]
    BY <1>0, FS_Interval
  <2> HIDE DEF g
  <2> QED BY <2>1, <2>2, FS_Injection
<1>2. f[i] <= i
  <2> DEFINE g == [j \in i..n |-> f[j]]
  <2>1. g \in Injection(i..n, f[i]..n)
    <3>0. \A j \in i..n : j \in 1..n /\ f[j] \in 1..n /\ (j = i \/ i < j)
      BY SMTT(40), <1>0
    <3>a. \A j \in i..n : j = i \/ f[i] < f[j]
      BY <3>0
    <3>1. \A j \in i..n : j \in 1..n /\ f[j] \in f[i]..n
      <4> TAKE j \in i..n
      <4>0. f[j] \in Int /\ f[i] \in Int
        BY <1>0, <3>0
      <4>1. f[i] <= f[j]
        <5>1. CASE j = i
          BY <5>1, <4>0
        <5>2. CASE f[i] < f[j]
          BY <5>2, <4>0
        <5> QED BY <5>1, <5>2, <3>a
      <4> QED BY <1>0, <3>0, <4>1
    <3>2. \A j, k \in i..n : j # k => f[j] # f[k]
      BY SMTT(40), <1>0, <3>1
    <3> QED BY <3>1, <3>2 DEF Injection, IsInjective
  <2>2. /\ IsFiniteSet(i..n) /\ Cardinality(i..n) = n - i + 1
        /\ IsFiniteSet(f[i]..n) /\ Cardinality(f[i]..n) = n - f[i] + 1
    BY <1>0, FS_Interval
  <2> HIDE DEF g
  <2>3. n - i + 1 <= n - f[i] + 1
    BY <2>1, <2>2, FS_Injection
  <2> QED BY <2>3, <1>0
<1> QED BY <1>0, <1>1, <1>2

(* The sort before a row group is written leaves rows alone that are in    *)
(* order already.                                                          *)
LEMMA SortedRowsStay ==
    ASSUME NEW rows \in Seq(Row),
           \A i, j \in 1..Len(rows) : i < j => rows[i].id < rows[j].id
    PROVE  SortRows(rows) = rows
<1> DEFINE n == Len(rows)
           Sorts(f) == \A i, j \in 1..n : i < j => rows[f[i]].id <= rows[f[j]].id
           id == [i \in 1..n |-> i]
           perm == CHOOSE f \in Bijection(1..n, 1..n) : Sorts(f)
<1>0. n \in Nat /\ rows = [i \in 1..n |-> rows[i]]
      /\ \A i \in 1..n : rows[i].id \in Nat
  <2>1. \A i \in 1..n : rows[i] \in Row
    OBVIOUS
  <2>2. rows = [i \in 1..n |-> rows[i]]
    OBVIOUS
  <2> QED BY <2>1, <2>2 DEF Row
<1>1. id \in Bijection(1..n, 1..n) /\ Sorts(id)
  BY <1>0 DEF Bijection, Injection, Surjection, IsInjective
<1>2. perm \in Bijection(1..n, 1..n) /\ Sorts(perm)
  <2> HIDE DEF Sorts, id
  <2> QED BY <1>1
<1>3. \A i, j \in 1..n : i < j => perm[i] < perm[j]
  <2> HIDE DEF perm
  <2> SUFFICES ASSUME NEW i \in 1..n, NEW j \in 1..n, i < j
               PROVE  perm[i] < perm[j]
    OBVIOUS
  <2>1. perm[i] \in 1..n /\ perm[j] \in 1..n /\ perm[i] # perm[j]
    BY <1>2 DEF Bijection, Injection, IsInjective
  <2>2. rows[perm[i]].id <= rows[perm[j]].id
    BY <1>2
  <2> QED BY SMTT(40), <1>0, <2>1, <2>2
<1>4. \A i \in 1..n : perm[i] = i
  <2> HIDE DEF perm, n
  <2> QED BY <1>0, <1>2, <1>3, IncreasingIsIdentity
<1>5. SortRows(rows) = [i \in 1..n |-> rows[perm[i]]]
  BY DEF SortRows, Arranged
<1> HIDE DEF perm, n
<1> QED BY Zenon, <1>0, <1>4, <1>5

(* Division of naturals, as in the number of rows that fit in a buffer.    *)
LEMMA DivNat ==
    ASSUME NEW a \in Nat, NEW b \in Nat \ {0} PROVE a \div b \in Nat
OBVIOUS

(* What a slice of a slice holds.                                          *)
LEMMA SubSeqFacts ==
    ASSUME NEW S, NEW s \in Seq(S), NEW m \in Nat, NEW n \in Nat, m + n <= Len(s)
    PROVE  /\ SubSeq(s, m + 1, m + n) \in Seq(S)
           /\ Len(SubSeq(s, m + 1, m + n)) = n
           /\ \A i \in 1..n : /\ m + i \in 1..Len(s)
                              /\ SubSeq(s, m + 1, m + n)[i] = s[m + i]
<1>1. \A i \in (m + 1)..(m + n) : i \in 1..Len(s) /\ s[i] \in S
  OBVIOUS
<1>2. Len(SubSeq(s, m + 1, m + n)) = n
  BY SMT
<1>3. \A i \in 1..n : SubSeq(s, m + 1, m + n)[i] = s[m + i]
  BY <1>2
<1> QED BY <1>1, <1>2, <1>3

(* A row group is the next rows of the slice, in order.                    *)
LEMMA RowGroup ==
    ASSUME TypeOK, LookupMatchesSlice, FileRowsAreIds,
           rowsFlushed < Len(slice), bytesPerRow # 0
    PROVE  /\ rowsToFlush \in Nat
           /\ rowsFlushed + rowsToFlush <= Len(slice)
           /\ SortRows(SubSeq(slice, rowsFlushed + 1, rowsFlushed + rowsToFlush))
                = SubSeq(slice, rowsFlushed + 1, rowsFlushed + rowsToFlush)
<1>1. Len(slice) \in Nat /\ rowsFlushed \in Nat /\ Len(slice) - rowsFlushed \in Nat
  BY DEF TypeOK, rowsFlushed
<1>2. bytesPerRow \in Nat \ {0}
  <2>1. size \in Nat /\ Len(slice) \in Nat \ {0}
    BY <1>1 DEF TypeOK
  <2>2. size \div Len(slice) \in Nat
    BY ONLY <2>1, DivNat
  <2> QED BY <2>2 DEF bytesPerRow
<1>3. maxRowsPerRowGroup \in Nat
  BY <1>2, DivNat, ConfigAssumption DEF maxRowsPerRowGroup
<1>4. rowsToFlush \in Nat /\ rowsToFlush <= Len(slice) - rowsFlushed
  <2> HIDE DEF rowsFlushed, maxRowsPerRowGroup
  <2> QED BY <1>1, <1>3, ConfigAssumption DEF rowsToFlush, Least
<1>5. rowsFlushed + rowsToFlush <= Len(slice)
  BY <1>1, <1>4
<1> DEFINE rows == SubSeq(slice, rowsFlushed + 1, rowsFlushed + rowsToFlush)
<1>6. /\ rows \in Seq(Row)
      /\ Len(rows) = rowsToFlush
      /\ \A i \in 1..Len(rows) : /\ rowsFlushed + i \in 1..Len(slice)
                                /\ rows[i] = slice[rowsFlushed + i]
  <2>1. slice \in Seq(Row) /\ rowsFlushed \in Nat
    BY <1>1 DEF TypeOK
  <2>2. SubSeq(slice, rowsFlushed + 1, rowsFlushed + rowsToFlush) \in Seq(Row)
    BY ONLY <2>1, <1>4, <1>5, SubSeqFacts
  <2>3. Len(SubSeq(slice, rowsFlushed + 1, rowsFlushed + rowsToFlush)) = rowsToFlush
    BY ONLY <2>1, <1>4, <1>5, SubSeqFacts
  <2>4. \A i \in 1..rowsToFlush :
           /\ rowsFlushed + i \in 1..Len(slice)
           /\ SubSeq(slice, rowsFlushed + 1, rowsFlushed + rowsToFlush)[i]
                = slice[rowsFlushed + i]
    BY ONLY <2>1, <1>4, <1>5, SubSeqFacts
  <2> QED BY <2>2, <2>3, <2>4
<1>7. \A i \in 1..Len(rows) : rows[i].id = rowsFlushed + i - 1
  <2> HIDE DEF rows
  <2> TAKE i \in 1..Len(rows)
  <2>1. rowsFlushed + i \in 1..Len(slice) /\ rows[i] = slice[rowsFlushed + i]
    BY <1>6
  <2>2. slice[rowsFlushed + i].id = (rowsFlushed + i) - 1
    BY Zenon, <2>1 DEF LookupMatchesSlice
  <2>3. rows[i].id = slice[rowsFlushed + i].id
    BY <2>1
  <2> QED BY ONLY <2>2, <2>3, <1>1, <1>6, i \in 1..Len(rows)
<1>8. \A i, j \in 1..Len(rows) : i < j => rows[i].id < rows[j].id
  <2> HIDE DEF rows
  <2> TAKE i, j \in 1..Len(rows)
  <2>1. rows[i].id = rowsFlushed + i - 1 /\ rows[j].id = rowsFlushed + j - 1
    BY <1>7
  <2> QED BY ONLY <1>1, <1>4, <1>6, <2>1, i \in 1..Len(rows), j \in 1..Len(rows)
<1>9. SortRows(rows) = rows
  <2> HIDE DEF rows
  <2> QED BY <1>6, <1>8, SortedRowsStay
<1> QED BY <1>4, <1>5, <1>9

----------------------------------------------------------------------------
(* Types                                                                   *)

(* An entry added to the rewriting map of one call leaves all of them maps *)
(* to rows.                                                                *)
LEMMA PutInMaps ==
    ASSUME NEW m, IsMaps(m), NEW p \in Ingests, NEW k, NEW v \in Nat
    PROVE  IsMaps([m EXCEPT ![p] = Put(@, k, v)])
<1> DEFINE n == [m EXCEPT ![p] = Put(@, k, v)]
<1>1. n = [q \in Ingests |-> IF q = p THEN Put(m[p], k, v) ELSE m[q]]
  BY DEF IsMaps
<1>2. n[p] = Put(m[p], k, v)
  BY <1>1
<1>3. /\ n[p] = [x \in DOMAIN n[p] |-> n[p][x]]
      /\ \A x \in DOMAIN n[p] : n[p][x] \in Nat
  BY <1>2 DEF IsMaps, Put
<1>4. ASSUME NEW q \in Ingests, q # p
      PROVE  /\ n[q] = [x \in DOMAIN n[q] |-> n[q][x]]
             /\ \A x \in DOMAIN n[q] : n[q][x] \in Nat
  BY <1>1, <1>4 DEF IsMaps
<1> HIDE DEF n
<1>5. n = [q \in Ingests |-> n[q]]
  BY <1>1
<1>6. \A q \in Ingests : n[q] = [x \in DOMAIN n[q] |-> n[q][x]]
  BY <1>3, <1>4
<1>7. n = [q \in Ingests |-> [x \in DOMAIN n[q] |-> n[q][x]]]
  BY <1>5, <1>6
<1>8. IsMaps(n)
  BY <1>3, <1>4, <1>7 DEF IsMaps
<1> QED BY <1>8 DEF n

(* An iteration of the second loop has a missing element to deal with.     *)
LEMMA InsertGuard ==
    ASSUME TypeOK, NEW p \in Ingests, InsertNext(p)
    PROVE  /\ pos[p] \in 1..Len(missing[p])
           /\ pos' \in [Ingests -> Nat \ {0}]
<1>1. /\ pos \in [Ingests -> Nat \ {0}] /\ pos[p] \in Nat \ {0}
      /\ missing[p] \in Seq(Nat)
  BY Zenon DEF TypeOK
<1>2. pos[p] <= Len(missing[p]) /\ pos' = [pos EXCEPT ![p] = pos[p] + 1]
  BY Zenon DEF InsertNext
<1>3. Len(missing[p]) \in Nat
  BY <1>1, LenProperties
<1>4. pos[p] + 1 \in Nat \ {0}
  BY ONLY <1>1
<1>5. pos[p] \in 1..Len(missing[p])
  BY ONLY <1>1, <1>2, <1>3
<1> QED BY Zenon, <1>1, <1>2, <1>4, <1>5

(* A step of ingest keeps the types.                                       *)
LEMMA TypeOKIngest ==
    ASSUME TypeOK, LockDiscipline, LookupMatchesSlice, NEW p \in Ingests,
           IngestProgress(p), ingest(p)
    PROVE  TypeOK'
<1>e. /\ elems[p] \in Seq(Row)
      /\ \A i \in 1..Len(elems[p]) :
            /\ elems[p][i].key \in Keys
            /\ [id |-> posSlice[p], key |-> elems[p][i].key] \in Row
  <2>1. posSlice[p] \in Nat
    BY DEF TypeOK
  <2>2. elems[p] \in Seq(Row)
    BY BatchType
  <2>3. \A i \in 1..Len(elems[p]) : elems[p][i] \in Row
    BY <2>2
  <2> QED BY <2>1, <2>2, <2>3 DEF Row
<1>1. CASE RLock(p)
  BY Zenon, <1>1 DEF RLock, TypeOK, flushVars
<1>2. CASE LookupNext(p)
  <2> DEFINE e == elems[p][pos[p]]
  <2>1. missing' \in [Ingests -> Seq(Nat)]
    <3>1. pos[p] \in Nat /\ missing[p] \in Seq(Nat)
      BY DEF TypeOK
    <3>2. missing' = missing \/ missing' = [missing EXCEPT ![p] = Append(@, pos[p])]
      BY <1>2 DEF LookupNext
    <3>3. Append(missing[p], pos[p]) \in Seq(Nat)
      BY <3>1
    <3>4. missing \in [Ingests -> Seq(Nat)]
      BY SMTT(40) DEF TypeOK
    <3> QED BY ONLY Zenon, <3>2, <3>3, <3>4, p \in Ingests
  <2>2. IsMaps(rewritingMap')
    <3>1. CASE UNCHANGED rewritingMap
      BY <3>1 DEF TypeOK
    <3>2. CASE /\ e.key \in DOMAIN lookup
               /\ rewritingMap' = [rewritingMap EXCEPT
                                     ![p] = Put(@, e.id, lookup[e.key])]
      BY Zenon, <3>2, PutInMaps DEF TypeOK
    <3> QED BY <1>2, <3>1, <3>2 DEF LookupNext, oldID
  <2>3. pos' \in [Ingests -> Nat \ {0}]
    BY SMTT(40), <1>2 DEF LookupNext, TypeOK
  <2> QED BY Zenon, <1>2, <2>1, <2>2, <2>3 DEF LookupNext, TypeOK, flushVars
<1>3. CASE RUnlock(p)
  BY <1>3 DEF RUnlock, readersWithout, TypeOK, flushVars
<1>4. CASE Lock(p)
  BY SMTT(40), <1>4 DEF Lock, nextRow, TypeOK, flushVars
<1>5. CASE InsertNext(p)
  <2> DEFINE i == missing[p][pos[p]]
             e == elems[p][i]
  <2>1. i \in 1..Len(elems[p])
    <3>1. pos[p] \in 1..Len(missing[p])
      BY <1>5, InsertGuard
    <3> QED BY Zenon, <3>1 DEF IngestProgress
  <2>2. e.key \in Keys /\ SizeOf[e.key] \in Nat
    BY ZenonT(60), <2>1, <1>e, SizeAssumption
  <2>3. pos' \in [Ingests -> Nat \ {0}]
    BY <1>5, InsertGuard
  <2>4. CASE /\ e.key \in DOMAIN lookup
             /\ rewritingMap' = [rewritingMap EXCEPT
                                   ![p] = Put(@, e.id, lookup[e.key])]
             /\ UNCHANGED <<slice, lookup, size, posSlice>>
    <3>1. IsMaps(rewritingMap')
      BY ZenonT(60), <2>4, PutInMaps DEF TypeOK
    <3> QED BY ZenonT(60), <1>5, <2>3, <2>4, <3>1 DEF InsertNext, TypeOK, flushVars
  <2>5. CASE /\ slice' = Append(slice, [id |-> posSlice[p], key |-> e.key])
             /\ lookup' = Put(lookup, e.key, posSlice[p])
             /\ rewritingMap' = [rewritingMap EXCEPT
                                   ![p] = Put(@, e.id, posSlice[p])]
             /\ posSlice' = [posSlice EXCEPT ![p] = @ + 1]
             /\ size' = size + SizeOf[e.key]
    <3>0. posSlice[p] \in Nat
      BY DEF TypeOK
    <3>1. IsMaps(rewritingMap')
      BY ZenonT(60), <2>5, <3>0, PutInMaps DEF TypeOK
    <3>2. DOMAIN lookup' \subseteq Keys /\ \A k \in DOMAIN lookup' : lookup'[k] \in Nat
      BY ZenonT(60), <2>5, <2>2, <3>0 DEF Put, TypeOK
    <3>3. slice' \in Seq(Row)
      <4>1. slice \in Seq(Row) /\ [id |-> posSlice[p], key |-> e.key] \in Row
        BY Zenon, <2>1, <1>e DEF TypeOK
      <4> QED BY ONLY ZenonT(60), <2>5, <4>1, AppendProperties
    <3>4. size' \in Nat /\ posSlice' \in [Ingests -> Nat]
      <4>1. size \in Nat /\ posSlice \in [Ingests -> Nat]
        BY DEF TypeOK
      <4>2. size' \in Nat
        <5>1. size' = size + SizeOf[e.key] /\ SizeOf[e.key] \in Nat
          BY ZenonT(60), <2>5, <2>2
        <5> HIDE DEF e
        <5> QED BY ONLY <4>1, <5>1
      <4>3. posSlice' \in [Ingests -> Nat]
        <5>1. posSlice' = [posSlice EXCEPT ![p] = posSlice[p] + 1]
          BY ZenonT(60), <2>5
        <5>2. posSlice[p] + 1 \in Nat
          BY <3>0
        <5> QED BY ONLY ZenonT(60), <4>1, <5>1, <5>2, p \in Ingests
      <4> QED BY <4>2, <4>3
    <3> QED BY Zenon, <1>5, <2>3, <3>1, <3>2, <3>3, <3>4 DEF InsertNext, TypeOK, flushVars
  <2> QED BY ZenonT(60), <1>5, <2>4, <2>5 DEF InsertNext, ExistsAgain, oldID, storedAfterSetID
<1>6. CASE Unlock(p)
  BY <1>6 DEF Unlock, TypeOK, flushVars
<1> QED
  BY Zenon, <1>1, <1>2, <1>3, <1>4, <1>5, <1>6 DEF ingest

(* A step of Flush keeps the types.                                        *)
LEMMA TypeOKFlush ==
    ASSUME TypeOK, LookupMatchesSlice, FileRowsAreIds, Flush
    PROVE  TypeOK'
<1>1. CASE FlushRowGroup
  <2> DEFINE rows == SubSeq(slice, rowsFlushed + 1, rowsFlushed + rowsToFlush)
  <2>0. /\ file' = file \o rows /\ groups' = Append(groups, rowsToFlush)
        /\ rowsToFlush \in Nat /\ rowsFlushed + rowsToFlush <= Len(slice)
    BY Zenon, <1>1, RowGroup DEF FlushRowGroup
  <2>a. /\ slice \in Seq(Row) /\ file \in Seq(Row) /\ groups \in Seq(Nat)
        /\ rowsFlushed \in Nat
    BY DEF TypeOK, rowsFlushed
  <2>b. rows \in Seq(Row)
    BY ONLY SMTT(40), <2>0, <2>a, SubSeqFacts
  <2> HIDE DEF rows
  <2>1. file' \in Seq(Row) /\ groups' \in Seq(Nat)
    BY ONLY <2>0, <2>a, <2>b
  <2> QED BY Zenon, <1>1, <2>1 DEF FlushRowGroup, TypeOK, ingestVars
<1>2. CASE FlushLock
  BY <1>2 DEF FlushLock, TypeOK, ingestVars
<1>3. CASE FlushPanic
  BY <1>3 DEF FlushPanic, TypeOK, ingestVars
<1>4. CASE FlushError \/ FlushUnlock
  BY <1>4 DEF FlushError, FlushUnlock, TypeOK, ingestVars
<1> QED BY Zenon, <1>1, <1>2, <1>3, <1>4 DEF Flush

(* A row group continues the file where the last one ended.                *)
LEMMA FileRowsFlush ==
    ASSUME TypeOK, LookupMatchesSlice, FileRowsAreIds, Flush
    PROVE  FileRowsAreIds'
<1>1. CASE FlushRowGroup
  <2> DEFINE rows == SubSeq(slice, rowsFlushed + 1, rowsFlushed + rowsToFlush)
  <2>1. /\ file' = file \o rows
        /\ rowsToFlush \in Nat
        /\ rowsFlushed + rowsToFlush <= Len(slice)
    BY Zenon, <1>1, RowGroup DEF FlushRowGroup
  <2>2. /\ slice \in Seq(Row) /\ file \in Seq(Row)
        /\ rowsFlushed \in Nat /\ rowsFlushed = Len(file)
    BY DEF TypeOK, rowsFlushed
  <2>3. /\ rows \in Seq(Row)
        /\ Len(rows) = rowsToFlush
        /\ \A i \in 1..rowsToFlush : rows[i] = slice[rowsFlushed + i]
    <3>1. rows \in Seq(Row)
      BY ONLY <2>1, <2>2, SubSeqFacts
    <3>2. Len(rows) = rowsToFlush
      BY ONLY <2>1, <2>2, SubSeqFacts
    <3>3. \A i \in 1..rowsToFlush : rows[i] = slice[rowsFlushed + i]
      BY ONLY <2>1, <2>2, SubSeqFacts
    <3> QED BY <3>1, <3>2, <3>3
  <2>4. slice' = slice
    BY <1>1 DEF FlushRowGroup
  <2> HIDE DEF rows
  <2>5. /\ Len(file') = Len(file) + rowsToFlush
        /\ \A i \in 1..Len(file') :
              file'[i] = IF i <= Len(file) THEN file[i] ELSE rows[i - Len(file)]
    <3>1. Len(file \o rows) = Len(file) + Len(rows)
      BY ONLY ZenonT(60), <2>2, <2>3, ConcatProperties
    <3>2. \A i \in 1..Len(file) + Len(rows) : (file \o rows)[i] =
             IF i <= Len(file) THEN file[i] ELSE rows[i - Len(file)]
      BY ONLY <2>2, <2>3, ConcatProperties
    <3> QED BY ONLY <2>1, <2>3, <3>1, <3>2
  <2>6. \A i \in 1..Len(file') : file'[i] = slice[i]
    <3> TAKE i \in 1..Len(file')
    <3>1. CASE i <= Len(file)
      BY <2>2, <2>5, <3>1 DEF FileRowsAreIds
    <3>2. CASE ~(i <= Len(file))
      <4>1. i - Len(file) \in 1..rowsToFlush /\ rowsFlushed + (i - Len(file)) = i
        BY ONLY <2>1, <2>2, <2>5, <3>2, i \in 1..Len(file')
      <4> QED BY <2>3, <2>5, <3>2, <4>1
    <3> QED BY <3>1, <3>2
  <2> QED BY SMTT(40), <2>1, <2>2, <2>4, <2>5, <2>6 DEF FileRowsAreIds
<1>2. CASE UNCHANGED <<slice, file>>
  BY <1>2 DEF FileRowsAreIds
<1> QED BY Zenon, <1>1, <1>2 DEF Flush, FlushLock, FlushPanic, FlushError, FlushUnlock

----------------------------------------------------------------------------
(* The table                                                               *)

(* The two outcomes of an iteration of the write-locked pass, for element  *)
(* i of call p.                                                            *)
Known(p, i) ==
    LET e == elems[p][i] IN
    /\ e.key \in DOMAIN lookup
    /\ rewritingMap' = [rewritingMap EXCEPT ![p] = Put(@, e.id, lookup[e.key])]
    /\ UNCHANGED <<slice, lookup, posSlice>>

(* The second loop of ingest has added element i as a new row.             *)
Added(p, i) ==
    LET e == elems[p][i] IN
    /\ e.key \in Keys /\ e.key \notin DOMAIN lookup
    /\ slice' = Append(slice, [id |-> Len(slice), key |-> e.key])
    /\ lookup' = Put(lookup, e.key, Len(slice))
    /\ rewritingMap' = [rewritingMap EXCEPT ![p] = Put(@, e.id, Len(slice))]
    /\ posSlice' = [posSlice EXCEPT ![p] = Len(slice) + 1]

(* An iteration of the second loop finds its element in the table or adds  *)
(* it.                                                                     *)
LEMMA InsertOutcome ==
    ASSUME TypeOK, NEW p \in Ingests, IngestProgress(p), InsertNext(p)
    PROVE  /\ pos[p] \in 1..Len(missing[p])
           /\ \E i \in 1..Len(elems[p]) :
                 i = missing[p][pos[p]] /\ (Known(p, i) \/ Added(p, i))
<1>0. PICK i : i = missing[p][pos[p]]
  BY ZenonT(60)
<1>1. pos[p] \in 1..Len(missing[p])
  BY InsertGuard
<1>2. i \in 1..Len(elems[p])
  BY SMTT(40), <1>0, <1>1 DEF IngestProgress
<1>3. elems[p][i].key \in Keys
  <2>1. elems[p] \in Seq(Row)
    BY BatchType
  <2>2. elems[p][i] \in Row
    BY ONLY SMTT(40), <1>2, <2>1, ElementOfSeq
  <2> QED BY <2>2 DEF Row
<1>4. posSlice[p] = Len(slice)
  BY ZenonT(60) DEF InsertNext, IngestProgress
<1>5. Known(p, i) \/ Added(p, i)
  BY ZenonT(60), <1>0, <1>3, <1>4 DEF InsertNext, ExistsAgain, oldID, storedAfterSetID, Known, Added
<1> QED BY SMTT(40), <1>0, <1>1, <1>2, <1>5

(* A row that is added comes after all others.                             *)
LEMMA AddedRow ==
    ASSUME TypeOK, NEW p \in Ingests, NEW i \in 1..Len(elems[p]), Added(p, i)
    PROVE  /\ Len(slice') = Len(slice) + 1
           /\ \A j \in 1..Len(slice) : slice'[j] = slice[j]
           /\ slice'[Len(slice) + 1] = [id |-> Len(slice), key |-> elems[p][i].key]
<1> DEFINE row == [id |-> Len(slice), key |-> elems[p][i].key]
<1>1. slice \in Seq(Row) /\ row \in Row /\ slice' = Append(slice, row)
  BY SMTT(40) DEF Added, TypeOK, Row
<1> HIDE DEF row
<1> QED BY SMTT(40), <1>1 DEF row

(* The lookup map has one more entry, for the row that was added.          *)
LEMMA AddedLookup ==
    ASSUME TypeOK, NEW p \in Ingests, NEW i \in 1..Len(elems[p]), Added(p, i)
    PROVE  /\ DOMAIN lookup' = DOMAIN lookup \cup {elems[p][i].key}
           /\ \A k \in DOMAIN lookup : lookup'[k] = lookup[k]
           /\ lookup'[elems[p][i].key] = Len(slice)
BY DEF Added, Put

(* Map and slice agree after a row was added.                              *)
LEMMA LookupMatchesAdded ==
    ASSUME TypeOK, LookupMatchesSlice,
           NEW p \in Ingests, NEW i \in 1..Len(elems[p]), Added(p, i)
    PROVE  LookupMatchesSlice'
<1> DEFINE n == Len(slice)
           key == elems[p][i].key
<1>0. n \in Nat
  BY DEF TypeOK
<1>r. /\ Len(slice') = n + 1
      /\ \A j \in 1..n : slice'[j] = slice[j]
      /\ slice'[n + 1].id = n /\ slice'[n + 1].key = key
  <2>1. /\ Len(slice') = n + 1
        /\ \A j \in 1..n : slice'[j] = slice[j]
        /\ slice'[n + 1] = [id |-> n, key |-> key]
    BY AddedRow
  <2> HIDE DEF n, key
  <2> QED BY ONLY SMTT(40), <2>1
<1>l. /\ DOMAIN lookup' = DOMAIN lookup \cup {key}
      /\ \A k \in DOMAIN lookup : lookup'[k] = lookup[k]
      /\ lookup'[key] = n
  BY ZenonT(60), AddedLookup
<1>old. /\ \A j \in 1..n : /\ slice[j].id = j - 1
                            /\ slice[j].key \in DOMAIN lookup
                            /\ lookup[slice[j].key] = j - 1
        /\ \A k \in DOMAIN lookup : /\ lookup[k] + 1 \in 1..n
                                    /\ slice[lookup[k] + 1].key = k
  BY Zenon DEF LookupMatchesSlice
<1> HIDE DEF n, key
<1>1. \A j \in 1..Len(slice') : /\ slice'[j].id = j - 1
                                /\ slice'[j].key \in DOMAIN lookup'
                                /\ lookup'[slice'[j].key] = j - 1
  <2> TAKE j \in 1..Len(slice')
  <2>1. CASE j \in 1..n
    <3>1. slice'[j] = slice[j]
      BY <2>1, <1>r
    <3>2. /\ slice[j].id = j - 1
          /\ slice[j].key \in DOMAIN lookup
          /\ lookup[slice[j].key] = j - 1
      BY Zenon, <2>1, <1>old
    <3>3. lookup'[slice[j].key] = lookup[slice[j].key]
      BY <3>2, <1>l
    <3> QED BY <3>1, <3>2, <3>3, <1>l
  <2>2. CASE j = n + 1
    <3>1. slice'[j].id = j - 1
      BY SMTT(40), <2>2, <1>r, <1>0
    <3>2. slice'[j].key = key
      BY <2>2, <1>r
    <3>3. lookup'[key] = j - 1
      BY <2>2, <1>l, <1>0
    <3> QED BY Zenon, <3>1, <3>2, <3>3, <1>l
  <2>3. j \in 1..n \/ j = n + 1
    BY ONLY SMTT(40), <1>0, <1>r, j \in 1..Len(slice')
  <2> QED BY <2>1, <2>2, <2>3
<1>2. \A k \in DOMAIN lookup' : /\ lookup'[k] + 1 \in 1..Len(slice')
                                /\ slice'[lookup'[k] + 1].key = k
  <2> TAKE k \in DOMAIN lookup'
  <2>1. CASE k \in DOMAIN lookup
    <3>1. lookup'[k] = lookup[k] /\ lookup[k] + 1 \in 1..n
      BY SMTT(40), <2>1, <1>l, <1>old
    <3>2. slice'[lookup[k] + 1] = slice[lookup[k] + 1]
      BY <3>1, <1>r
    <3>3. slice[lookup[k] + 1].key = k
      BY <2>1, <1>old
    <3>4. lookup[k] + 1 \in 1..Len(slice')
      BY ONLY SMTT(40), <3>1, <1>0, <1>r
    <3> QED BY Zenon, <3>1, <3>2, <3>3, <3>4
  <2>2. CASE k = key
    BY SMTT(40), <2>2, <1>l, <1>r, <1>0
  <2> QED BY SMTT(40), <2>1, <2>2, <1>l
<1> QED BY <1>1, <1>2 DEF LookupMatchesSlice

(* A row that is added leaves the rows that were written alone.            *)
LEMMA FileRowsAdded ==
    ASSUME TypeOK, FileRowsAreIds, file' = file,
           NEW p \in Ingests, NEW i \in 1..Len(elems[p]), Added(p, i)
    PROVE  FileRowsAreIds'
<1>1. Len(slice) \in Nat /\ Len(file) \in Nat
  <2>1. slice \in Seq(Row) /\ file \in Seq(Row)
    BY Zenon DEF TypeOK
  <2> QED BY ONLY <2>1, LenProperties
<1>2. /\ Len(slice') = Len(slice) + 1
      /\ \A j \in 1..Len(slice) : slice'[j] = slice[j]
  BY Zenon, AddedRow
<1> QED BY SMTT(40), <1>1, <1>2 DEF FileRowsAreIds

----------------------------------------------------------------------------
(* Progress of the calls                                                   *)

(* The table only grows.                                                   *)
LookupGrows ==
    \A k \in DOMAIN lookup : k \in DOMAIN lookup' /\ lookup'[k] = lookup[k]

(* No step of ingest takes an entry of the lookup map away or changes it.  *)
LEMMA TableGrows ==
    ASSUME TypeOK, NEW p \in Ingests, IngestProgress(p), ingest(p)
    PROVE  LookupGrows
<1>1. CASE InsertNext(p)
  <2>1. PICK i \in 1..Len(elems[p]) : Known(p, i) \/ Added(p, i)
    BY SMTT(40), <1>1, InsertOutcome
  <2>2. CASE Known(p, i)
    BY SMTT(40), <2>2 DEF Known, LookupGrows
  <2>3. CASE Added(p, i)
    BY Zenon, <2>1, <2>3, AddedLookup DEF LookupGrows
  <2> QED BY <2>1, <2>2, <2>3
<1>2. CASE UNCHANGED lookup
  BY <1>2 DEF LookupGrows
<1> QED
  BY <1>1, <1>2 DEF ingest, RLock, LookupNext, RUnlock, Lock, Unlock

(* A step of another goroutine does not disturb what call q has achieved.  *)
LEMMA ProgressKept ==
    ASSUME NEW q \in Ingests, IngestProgress(q), LookupGrows,
           pc'[q] = pc[q], pos'[q] = pos[q], elems'[q] = elems[q],
           missing'[q] = missing[q], posSlice'[q] = posSlice[q],
           rewritingMap'[q] = rewritingMap[q],
           pc[q] = "insert" => Len(slice') = Len(slice)
    PROVE  IngestProgress(q)'
<1>1. \A i : Handled(q, i) => Handled(q, i)'
  BY DEF Handled, LookupGrows
<1>2. \A i, from : StillMissing(q, i, from) <=> StillMissing(q, i, from)'
  BY SMTT(40) DEF StillMissing
<1> QED BY ZenonT(60), <1>1, <1>2 DEF IngestProgress

(* What a call has done stays right while other calls take their steps.    *)
LEMMA OthersProgress ==
    ASSUME IInv, NEW p \in Ingests, ingest(p), NEW q \in Ingests, q # p
    PROVE  IngestProgress(q)'
<1>1. /\ pc'[q] = pc[q] /\ pos'[q] = pos[q] /\ elems'[q] = elems[q]
      /\ missing'[q] = missing[q] /\ posSlice'[q] = posSlice[q]
      /\ rewritingMap'[q] = rewritingMap[q]
  BY ZenonT(60) DEF IInv, TypeOK, IsMaps, ingest, RLock, LookupNext, RUnlock, Lock, InsertNext, Unlock
<1>2. LookupGrows /\ IngestProgress(q)
  BY TableGrows DEF IInv
<1>3. pc[q] = "insert" => Len(slice') = Len(slice)
  <2>1. CASE InsertNext(p)
    BY Zenon, <2>1 DEF InsertNext, IInv, LockDiscipline
  <2>2. CASE UNCHANGED slice
    BY Zenon, <2>2
  <2> QED BY ZenonT(60), <2>1, <2>2 DEF ingest, RLock, LookupNext, RUnlock, Lock, Unlock
<1> QED BY Zenon, <1>1, <1>2, <1>3, ProgressKept

(* Handling one element keeps the others handled.                          *)
LEMMA HandledStep ==
    ASSUME TypeOK, NEW p \in Ingests, NEW i \in 1..Len(elems[p]), NEW v,
           LookupGrows, elems'[p] = elems[p],
           rewritingMap' = [rewritingMap EXCEPT ![p] = Put(@, elems[p][i].id, v)],
           elems[p][i].key \in DOMAIN lookup', lookup'[elems[p][i].key] = v
    PROVE  /\ Handled(p, i)'
           /\ \A j \in 1..Len(elems[p]) : Handled(p, j) => Handled(p, j)'
           /\ DOMAIN rewritingMap'[p] = DOMAIN rewritingMap[p] \cup {elems[p][i].id}
<1>1. /\ DOMAIN rewritingMap'[p] = DOMAIN rewritingMap[p] \cup {elems[p][i].id}
      /\ \A x \in DOMAIN rewritingMap'[p] :
            rewritingMap'[p][x] = IF x = elems[p][i].id THEN v ELSE rewritingMap[p][x]
  BY Zenon DEF TypeOK, IsMaps, Put
<1>2. Handled(p, i)'
  BY Zenon, <1>1 DEF Handled
<1>3. ASSUME NEW j \in 1..Len(elems[p]), Handled(p, j) PROVE Handled(p, j)'
  <2>1. CASE j = i
    BY Zenon, <1>2, <2>1
  <2>2. CASE j # i
    <3>1. elems[p][j].id # elems[p][i].id
      BY Zenon, <2>2, BatchType
    <3> QED BY ZenonT(60), <1>1, <1>3, <3>1 DEF Handled, LookupGrows
  <2> QED BY Zenon, <2>1, <2>2
<1> QED BY Zenon, <1>1, <1>2, <1>3

(* An iteration of the first loop puts its element into the rewriting map  *)
(* or among the missing ones.                                              *)
LEMMA LookupProgress ==
    ASSUME TypeOK, NEW p \in Ingests, IngestProgress(p), LookupNext(p)
    PROVE  IngestProgress(p)'
<1>0. PICK n : n = pos[p]
  BY ZenonT(60)
<1>1. /\ pc[p] = "lookup" /\ pc'[p] = "lookup" /\ elems'[p] = elems[p]
      /\ n \in 1..Len(elems[p]) /\ pos'[p] = n + 1
      /\ lookup' = lookup /\ elems[p] \in Batches
  <2>1. /\ pc[p] = "lookup" /\ pc' = pc /\ elems' = elems /\ lookup' = lookup
        /\ n <= Len(elems[p]) /\ pos' = [pos EXCEPT ![p] = @ + 1]
    BY Zenon, <1>0 DEF LookupNext
  <2>2. pos \in [Ingests -> Nat \ {0}]
    BY Zenon DEF TypeOK
  <2>3. elems[p] \in Batches
    BY Zenon, <2>1 DEF IngestProgress
  <2>4. Len(elems[p]) \in Nat
    <3>1. elems[p] \in Seq(Row)
      BY Zenon, BatchType
    <3> QED BY ONLY <3>1, LenProperties
  <2> QED BY ONLY <1>0, <2>1, <2>2, <2>3, <2>4, p \in Ingests
<1>2. LookupGrows
  BY SMTT(40), <1>1 DEF LookupGrows
<1>3. Len(elems[p]) \in Nat /\ missing[p] \in Seq(Nat)
  BY SMTT(40), BatchType DEF TypeOK
<1>4. \A i \in 1..(n - 1) : i \in 1..Len(elems[p]) /\ (Handled(p, i) \/ StillMissing(p, i, 1))
  BY SMTT(40), <1>0, <1>1, <1>3 DEF IngestProgress
<1>5. \A i \in 1..(pos'[p] - 1) : i = n \/ i \in 1..(n - 1)
  BY SMTT(40), <1>1, <1>3
<1>6. CASE /\ elems[p][n].key \in DOMAIN lookup
           /\ rewritingMap' = [rewritingMap EXCEPT
                                 ![p] = Put(@, elems[p][n].id, lookup[elems[p][n].key])]
           /\ UNCHANGED missing
  <2>1. /\ Handled(p, n)'
        /\ \A j \in 1..Len(elems[p]) : Handled(p, j) => Handled(p, j)'
        /\ DOMAIN rewritingMap'[p] = DOMAIN rewritingMap[p] \cup {elems[p][n].id}
    BY ZenonT(60), <1>1, <1>2, <1>6, HandledStep
  <2>2. \A j : StillMissing(p, j, 1) => StillMissing(p, j, 1)'
    BY Zenon, <1>6 DEF StillMissing
  <2>3. \A i \in 1..(pos'[p] - 1) : Handled(p, i)' \/ StillMissing(p, i, 1)'
    BY Zenon, <1>4, <1>5, <2>1, <2>2
  <2>4. pos'[p] <= Len(elems[p]) + 1
    BY SMTT(40), <1>1, <1>3
  <2> QED BY ZenonT(60), <1>1, <1>6, <2>1, <2>3, <2>4 DEF IngestProgress
<1>7. CASE UNCHANGED rewritingMap /\ missing' = [missing EXCEPT ![p] = Append(@, n)]
  <2>1. missing'[p] = Append(missing[p], n)
    BY SMTT(40), <1>7 DEF TypeOK
  <2>2. /\ Len(missing'[p]) = Len(missing[p]) + 1
        /\ \A j \in 1..Len(missing[p]) : missing'[p][j] = missing[p][j]
        /\ missing'[p][Len(missing[p]) + 1] = n
    BY SMTT(40), <1>1, <1>3, <2>1
  <2>3. Len(missing[p]) \in Nat
    BY SMTT(40), <1>3
  <2>4. \A j : Handled(p, j) => Handled(p, j)'
    BY Zenon, <1>1, <1>7 DEF Handled
  <2>5. \A j : StillMissing(p, j, 1) => StillMissing(p, j, 1)'
    BY SMTT(40), <2>2, <2>3 DEF StillMissing
  <2>6. StillMissing(p, n, 1)'
    BY SMTT(40), <2>2, <2>3 DEF StillMissing
  <2>7. \A i \in 1..(pos'[p] - 1) : Handled(p, i)' \/ StillMissing(p, i, 1)'
    BY Zenon, <1>4, <1>5, <2>4, <2>5, <2>6
  <2>8. pos'[p] <= Len(elems[p]) + 1
    BY <1>1, <1>3
  <2>9. \A j \in 1..Len(missing'[p]) : missing'[p][j] \in 1..Len(elems[p])
    <3> TAKE j \in 1..Len(missing'[p])
    <3>1. j \in 1..Len(missing[p]) \/ j = Len(missing[p]) + 1
      BY SMTT(40), <2>2, <2>3
    <3>2. \A k \in 1..Len(missing[p]) : missing[p][k] \in 1..Len(elems[p])
      BY SMTT(40) DEF IngestProgress
    <3> QED BY Zenon, <1>1, <2>2, <3>1, <3>2
  <2> QED BY ZenonT(60), <1>1, <1>7, <2>7, <2>8, <2>9 DEF IngestProgress
<1>8. \/ /\ elems[p][n].key \in DOMAIN lookup
         /\ rewritingMap' = [rewritingMap EXCEPT
                               ![p] = Put(@, elems[p][n].id, lookup[elems[p][n].key])]
         /\ UNCHANGED missing
      \/ UNCHANGED rewritingMap /\ missing' = [missing EXCEPT ![p] = Append(@, n)]
  BY ZenonT(60), <1>0 DEF LookupNext, oldID
<1> QED BY Zenon, <1>6, <1>7, <1>8

(* An iteration of the second loop puts a missing element into the         *)
(* rewriting map.                                                          *)
LEMMA InsertProgress ==
    ASSUME TypeOK, NEW p \in Ingests, IngestProgress(p), InsertNext(p)
    PROVE  IngestProgress(p)'
<1>0. PICK n : n = pos[p]
  OBVIOUS
<1>1. /\ pc[p] = "insert" /\ pc'[p] = "insert" /\ elems'[p] = elems[p]
      /\ missing'[p] = missing[p] /\ pos'[p] = n + 1 /\ elems[p] \in Batches
  BY ZenonT(60), <1>0 DEF InsertNext, TypeOK, IngestProgress
<1>n. n \in 1..Len(missing[p])
  BY SMTT(40), <1>0, InsertOutcome
<1>2. PICK i \in 1..Len(elems[p]) :
         i = missing[p][pos[p]] /\ (Known(p, i) \/ Added(p, i))
  BY InsertOutcome
<1>3. LookupGrows
  BY SMTT(40), TableGrows DEF ingest
<1>4. Len(missing[p]) \in Nat /\ Len(slice) \in Nat
  BY SMTT(40) DEF TypeOK
<1>5. PICK v : /\ rewritingMap' = [rewritingMap EXCEPT ![p] = Put(@, elems[p][i].id, v)]
               /\ elems[p][i].key \in DOMAIN lookup'
               /\ lookup'[elems[p][i].key] = v
  <2>1. CASE Known(p, i)
    BY Zenon, <2>1 DEF Known
  <2>2. CASE Added(p, i)
    <3>1. elems[p][i].key \in DOMAIN lookup' /\ lookup'[elems[p][i].key] = Len(slice)
      BY <2>2 DEF Added, Put
    <3> QED BY ZenonT(60), <2>2, <3>1 DEF Added
  <2> QED BY ZenonT(60), <1>2, <2>1, <2>2
<1>6. /\ Handled(p, i)'
      /\ \A j \in 1..Len(elems[p]) : Handled(p, j) => Handled(p, j)'
      /\ DOMAIN rewritingMap'[p] = DOMAIN rewritingMap[p] \cup {elems[p][i].id}
  BY ZenonT(60), <1>1, <1>2, <1>3, <1>5, HandledStep
<1>7. \A j \in 1..Len(elems[p]) : Handled(p, j)' \/ StillMissing(p, j, pos[p])'
  <2> TAKE j \in 1..Len(elems[p])
  <2>1. CASE Handled(p, j)
    BY SMTT(40), <1>6, <2>1
  <2>2. CASE StillMissing(p, j, pos[p])
    <3>1. PICK k \in n..Len(missing[p]) : missing[p][k] = j
      BY Zenon, <1>0, <2>2 DEF StillMissing
    <3>2. CASE k = n
      BY Zenon, <1>0, <1>2, <1>6, <3>1, <3>2
    <3>3. CASE k # n
      <4>1. k \in (n + 1)..Len(missing[p])
        BY SMTT(40), <1>n, <1>4, <3>1, <3>3
      <4> QED BY Zenon, <1>1, <3>1, <4>1 DEF StillMissing
    <3> QED BY SMTT(40), <3>2, <3>3
  <2>3. Handled(p, j) \/ StillMissing(p, j, pos[p])
    BY Zenon, <1>1 DEF IngestProgress
  <2> QED BY SMTT(40), <2>1, <2>2, <2>3
<1>8. posSlice'[p] = Len(slice')
  <2>1. CASE Known(p, i)
    BY ZenonT(60), <1>1, <2>1 DEF Known, IngestProgress
  <2>2. CASE Added(p, i)
    <3>1. Len(slice') = Len(slice) + 1
      BY ZenonT(60), <1>2, <2>2, AddedRow
    <3> QED BY SMTT(40), <2>2, <3>1 DEF Added, TypeOK
  <2> QED BY Zenon, <1>2, <2>1, <2>2
<1> QED BY ZenonT(60), <1>1, <1>2, <1>6, <1>7, <1>8 DEF IngestProgress

(* Each step of a call keeps what is said of its own progress.             *)
LEMMA OwnProgress ==
    ASSUME IInv, NEW p \in Ingests, ingest(p)
    PROVE  IngestProgress(p)'
<1>0. TypeOK /\ IngestProgress(p)
  BY Zenon DEF IInv
<1>1. CASE RLock(p)
  <2>1. /\ pc'[p] = "lookup" /\ pos'[p] = 1 /\ elems'[p] \in Batches
        /\ missing'[p] = <<>> /\ DOMAIN rewritingMap'[p] = {}
    BY ZenonT(60), <1>0, <1>1 DEF RLock, TypeOK, IngestProgress
  <2>2. Len(elems'[p]) \in Nat
    BY <2>1 DEF IsBatch
  <2> QED BY <2>1, <2>2 DEF IngestProgress
<1>2. CASE LookupNext(p)
  BY Zenon, <1>0, <1>2, LookupProgress
<1>3. CASE RUnlock(p)
  <2>1. /\ pc[p] = "lookup" /\ pos'[p] = pos[p] /\ elems'[p] = elems[p]
        /\ missing'[p] = missing[p] /\ rewritingMap'[p] = rewritingMap[p]
        /\ lookup' = lookup
        /\ pc'[p] = IF missing[p] = <<>> THEN "done" ELSE "lock"
    BY SMTT(40), <1>0, <1>3 DEF RUnlock, TypeOK
  <2>2. Len(elems[p]) \in Nat /\ pos[p] = Len(elems[p]) + 1
    <3>1. Len(elems[p]) \in Nat
      BY Zenon, <1>0, BatchType, LenProperties
    <3>2. pos[p] \in Nat
      BY Zenon, <1>0 DEF TypeOK
    <3>3. pos[p] > Len(elems[p])
      BY <1>3 DEF RUnlock
    <3>4. pos[p] <= Len(elems[p]) + 1
      BY Zenon, <1>0, <2>1 DEF IngestProgress
    <3> QED BY ONLY <3>1, <3>2, <3>3, <3>4
  <2>3. \A i \in 1..Len(elems[p]) : Handled(p, i) \/ StillMissing(p, i, 1)
    <3>1. \A i \in 1..(pos[p] - 1) : Handled(p, i) \/ StillMissing(p, i, 1)
      BY Zenon, <1>0, <2>1 DEF IngestProgress
    <3>2. pos[p] - 1 = Len(elems[p])
      BY <2>2
    <3> QED BY Zenon, <3>1, <3>2
  <2>4. \A i : (Handled(p, i) => Handled(p, i)') /\ (StillMissing(p, i, 1) => StillMissing(p, i, 1)')
    BY Zenon, <2>1 DEF Handled, StillMissing
  <2>5. missing[p] = <<>> => \A i : ~StillMissing(p, i, 1)
    BY SMTT(40) DEF StillMissing
  <2>6. \A i \in 1..Len(elems'[p]) : Handled(p, i)' \/ StillMissing(p, i, 1)'
    BY Zenon, <2>1, <2>3, <2>4
  <2>7. missing[p] = <<>> => \A i \in 1..Len(elems'[p]) : Handled(p, i)'
    BY Zenon, <2>1, <2>3, <2>4, <2>5
  <2>8. elems[p] \in Batches
    BY Zenon, <1>0, <2>1 DEF IngestProgress
  <2> QED BY Zenon, <1>0, <2>1, <2>6, <2>7, <2>8 DEF IngestProgress
<1>4. CASE Lock(p)
  <2>1. /\ pc[p] = "lock" /\ pc'[p] = "insert" /\ pos'[p] = 1 /\ elems'[p] = elems[p]
        /\ missing'[p] = missing[p] /\ rewritingMap'[p] = rewritingMap[p]
        /\ lookup' = lookup /\ posSlice'[p] = Len(slice')
    BY Zenon, <1>0, <1>4 DEF Lock, nextRow, TypeOK
  <2>2. \A i : (Handled(p, i) => Handled(p, i)')
    BY <2>1 DEF Handled
  <2>3. \A i : (StillMissing(p, i, 1) => StillMissing(p, i, pos[p])')
    BY Zenon, <2>1 DEF StillMissing
  <2>4. \A i \in 1..Len(elems[p]) : Handled(p, i) \/ StillMissing(p, i, 1)
    BY Zenon, <1>0, <2>1 DEF IngestProgress
  <2>5. \A i \in 1..Len(elems'[p]) : Handled(p, i)' \/ StillMissing(p, i, pos[p])'
    BY Zenon, <2>1, <2>2, <2>3, <2>4
  <2> QED BY ZenonT(60), <1>0, <2>1, <2>5 DEF IngestProgress
<1>5. CASE InsertNext(p)
  BY <1>0, <1>5, InsertProgress
<1>6. CASE Unlock(p)
  <2>1. /\ pc[p] = "insert" /\ pc'[p] = "done" /\ pos[p] > Len(missing[p])
        /\ elems'[p] = elems[p] /\ missing'[p] = missing[p]
        /\ rewritingMap'[p] = rewritingMap[p] /\ lookup' = lookup
    BY Zenon, <1>0, <1>6 DEF Unlock, TypeOK
  <2>2. \A i : ~StillMissing(p, i, pos[p])
    BY SMTT(40), <1>0, <2>1 DEF StillMissing, TypeOK
  <2>3. \A i \in 1..Len(elems[p]) : Handled(p, i)
    BY Zenon, <1>0, <2>1, <2>2 DEF IngestProgress
  <2>4. \A i : Handled(p, i) => Handled(p, i)'
    BY SMTT(40), <2>1 DEF Handled
  <2> QED BY ZenonT(60), <1>0, <2>1, <2>3, <2>4 DEF IngestProgress
<1> QED BY <1>1, <1>2, <1>3, <1>4, <1>5, <1>6 DEF ingest

----------------------------------------------------------------------------
(* The theorems                                                            *)

(* A step of ingest keeps what is said of the table and the file.          *)
LEMMA IngestIInv ==
    ASSUME IInv, NEW p \in Ingests, ingest(p)
    PROVE  TypeOK' /\ LookupMatchesSlice' /\ FileRowsAreIds'
<1>0. /\ TypeOK /\ LockDiscipline /\ LookupMatchesSlice /\ FileRowsAreIds
      /\ IngestProgress(p)
  BY DEF IInv
<1>1. TypeOK'
  BY SMTT(40), <1>0, TypeOKIngest
<1>2. CASE InsertNext(p)
  <2>0. PICK i \in 1..Len(elems[p]) : Known(p, i) \/ Added(p, i)
    BY ZenonT(60), <1>0, <1>2, InsertOutcome
  <2>f. file' = file
    BY ZenonT(60), <1>2 DEF InsertNext, flushVars
  <2>1. CASE Known(p, i)
    BY ZenonT(60), <1>0, <1>1, <2>1, <2>f DEF Known, LookupMatchesSlice, FileRowsAreIds
  <2>2. CASE Added(p, i)
    BY Zenon, <1>0, <1>1, <2>0, <2>2, <2>f, LookupMatchesAdded, FileRowsAdded
  <2> QED BY SMTT(40), <1>1, <2>0, <2>1, <2>2
<1>3. CASE UNCHANGED <<slice, lookup, file>>
  BY Zenon, <1>0, <1>1, <1>3 DEF LookupMatchesSlice, FileRowsAreIds
<1> QED BY ZenonT(60), <1>2, <1>1, <1>3 DEF ingest, RLock, LookupNext, RUnlock, Lock, Unlock, flushVars

(* Every step keeps the invariant.                                         *)
LEMMA NextIInv == IInv /\ [Next]_vars => IInv'
<1> SUFFICES ASSUME IInv, [Next]_vars PROVE IInv'
  OBVIOUS
<1>l. LockDiscipline'
  BY LockDisciplineStep DEF IInv
<1>1. ASSUME NEW p \in Ingests, ingest(p) PROVE IInv'
  <2>1. TypeOK' /\ LookupMatchesSlice' /\ FileRowsAreIds'
    BY SMTT(40), <1>1, IngestIInv
  <2>2. ASSUME NEW q \in Ingests PROVE IngestProgress(q)'
    <3>1. CASE q = p
      BY SMTT(40), <1>1, <3>1, OwnProgress
    <3>2. CASE q # p
      BY SMTT(40), <1>1, <3>2, OthersProgress
    <3> QED BY <3>1, <3>2
  <2> QED BY Zenon, <1>l, <2>1, <2>2 DEF IInv
<1>2. ASSUME UNCHANGED <<slice, lookup, ingestVars>>
      PROVE  LookupMatchesSlice' /\ \A q \in Ingests : IngestProgress(q)'
  <2>1. LookupMatchesSlice'
    BY ZenonT(60), <1>2 DEF IInv, LookupMatchesSlice
  <2>2. LookupGrows
    BY <1>2 DEF LookupGrows
  <2>3. ASSUME NEW q \in Ingests PROVE IngestProgress(q)'
    BY SMTT(40), <1>2, <2>2, ProgressKept DEF IInv, ingestVars
  <2> QED BY Zenon, <2>1, <2>3
<1>3. CASE Flush
  <2>1. TypeOK' /\ FileRowsAreIds'
    BY Zenon, <1>3, TypeOKFlush, FileRowsFlush DEF IInv
  <2>2. UNCHANGED <<slice, lookup, ingestVars>>
    BY <1>3 DEF Flush, FlushLock, FlushPanic, FlushRowGroup, FlushError, FlushUnlock
  <2> QED BY <1>l, <1>2, <2>1, <2>2 DEF IInv
<1>4. CASE Finished \/ UNCHANGED vars
  <2>0. UNCHANGED vars
    BY <1>4 DEF Finished
  <2>1. FileRowsAreIds'
    BY <2>0 DEF IInv, vars, flushVars, FileRowsAreIds
  <2>2. UNCHANGED <<slice, lookup, ingestVars>>
    BY Zenon, <2>0 DEF vars, ingestVars
  <2>3. TypeOK'
    BY <2>0 DEF IInv, vars, ingestVars, flushVars, TypeOK
  <2> QED BY <1>l, <1>2, <2>1, <2>2, <2>3 DEF IInv
<1> QED BY SMTT(40), <1>1, <1>3, <1>4 DEF Next

(* The inductive invariant holds of the table, however many calls there    *)
(* are, whatever their batches: the RWMutex and the second look at lookup  *)
(* under the write lock are enough.                                        *)
THEOREM TableInvariant == Spec => []IInv
<1>1. Init => IInv
  BY InitIInv
<1>2. IInv /\ [Next]_vars => IInv'
  BY NextIInv
<1> QED BY <1>1, <1>2, PTL DEF Spec

(* No value ever has two rows, and the id of a stored element is its row.  *)
THEOREM LookupMatches == Spec => []LookupMatchesSlice
<1>1. IInv => LookupMatchesSlice
  BY Zenon DEF IInv
<1> QED BY <1>1, TableInvariant, PTL

(* Every reference of a profile is rewritten to the row with its value,    *)
(* and stays right while other profiles are ingested.                      *)
THEOREM Rewrites == Spec => []RewritesAreFaithful
<1>1. IInv => RewritesAreFaithful
  <2> SUFFICES ASSUME IInv, NEW p \in Ingests, pc[p] = "done",
                      NEW i \in 1..Len(elems[p])
               PROVE  Rewritten(p, i)
    BY DEF RewritesAreFaithful
  <2>1. Handled(p, i)
    BY Zenon DEF IInv, IngestProgress
  <2> QED BY Zenon, <2>1 DEF IInv, Handled, Rewritten, LookupMatchesSlice
<1> QED BY <1>1, TableInvariant, PTL

(* The file Flush writes has row i of the table at row number i, whatever  *)
(* row groups the configured limits give.                                  *)
THEOREM FileRows == Spec => []FileRowsAreIds
<1>1. IInv => FileRowsAreIds
  BY DEF IInv
<1> QED BY <1>1, TableInvariant, PTL

(* Rows are never moved, changed or removed, by any step.                  *)
THEOREM StableRows == Spec => RowsAreStable
<1> DEFINE Stable == Len(slice) <= Len(slice') /\ SubSeq(slice', 1, Len(slice)) = slice
<1>1. ASSUME IInv, [Next]_vars
      PROVE  Stable
  <2>0. slice \in Seq(Row) /\ Len(slice) \in Nat
    BY <1>1 DEF IInv, TypeOK
  <2>1. CASE UNCHANGED slice
    BY <2>0, <2>1, SubSeqFull
  <2>2. ASSUME NEW p \in Ingests, InsertNext(p) PROVE Stable
    <3>0. PICK i \in 1..Len(elems[p]) : Known(p, i) \/ Added(p, i)
      BY Zenon, <1>1, <2>2, InsertOutcome DEF IInv
    <3>1. CASE Known(p, i)
      BY SMTT(40), <3>1, <2>1 DEF Known
    <3>2. CASE Added(p, i)
      <4>1. /\ Len(slice') = Len(slice) + 1
            /\ \A j \in 1..Len(slice) : slice'[j] = slice[j]
        BY Zenon, <1>1, <3>0, <3>2, AddedRow DEF IInv
      <4> DEFINE rows == SubSeq(slice', 1, Len(slice))
      <4>2. \A j \in 1..Len(slice) : slice'[j] \in Row
        BY <2>0, <4>1
      <4>3. rows \in Seq(Row) /\ Len(rows) = Len(slice)
            /\ \A j \in 1..Len(slice) : rows[j] = slice'[j]
        BY <2>0, <4>2, SubSeqProperties
      <4> HIDE DEF rows
      <4>4. rows = slice
        BY Zenon, <2>0, <4>1, <4>3, SeqEqual
      <4> QED BY SMTT(40), <2>0, <4>1, <4>4 DEF rows
    <3> QED BY Zenon, <3>0, <3>1, <3>2
  <2> HIDE DEF Stable
  <2> QED
    BY ZenonT(60), <1>1, <2>1, <2>2 DEF Next, ingest, RLock, LookupNext, RUnlock, Lock, Unlock,
       Flush, FlushLock, FlushPanic, FlushRowGroup, FlushError, FlushUnlock,
       Finished, vars
<1> QED BY <1>1, TableInvariant, PTL DEF Spec, RowsAreStable

----------------------------------------------------------------------------
(* Refinement                                                              *)

(* The keys of the slice are the abstract table.                           *)
LEMMA BarTypes ==
    ASSUME TypeOK
    PROVE  /\ tableBar \in Seq(Keys) /\ Len(tableBar) = Len(slice)
           /\ \A i \in 1..Len(slice) : tableBar[i] = slice[i].key
<1>1. slice \in Seq(Row) /\ Len(slice) \in Nat
  BY DEF TypeOK
<1>2. \A i \in 1..Len(slice) : slice[i] \in Row
  BY SMTT(40), <1>1
<1>3. \A i \in 1..Len(slice) : slice[i].key \in Keys
  BY <1>2 DEF Row
<1> QED BY SMTT(40), <1>1, <1>3 DEF tableBar

(* A row added is a value interned.                                        *)
LEMMA AddedBar ==
    ASSUME TypeOK, TypeOK', LookupMatchesSlice, UNCHANGED resultBar,
           NEW p \in Ingests, NEW i \in 1..Len(elems[p]), Added(p, i)
    PROVE  Abstract!ANext
<1>0. PICK k \in Keys : k = elems[p][i].key /\ k \notin DOMAIN lookup
  BY Zenon DEF Added
<1>1. /\ tableBar \in Seq(Keys) /\ Len(tableBar) = Len(slice)
      /\ \A j \in 1..Len(slice) : tableBar[j] = slice[j].key
  BY BarTypes
<1>2. /\ tableBar' \in Seq(Keys) /\ Len(tableBar') = Len(slice')
      /\ \A j \in 1..Len(slice') : tableBar'[j] = slice'[j].key
  <2>1. slice' \in Seq(Row) /\ Len(slice') \in Nat
    BY SMTT(30) DEF TypeOK
  <2>2. \A j \in 1..Len(slice') : slice'[j] \in Row
    BY <2>1
  <2>3. \A j \in 1..Len(slice') : slice'[j].key \in Keys
    BY SMTT(40), <2>2 DEF Row
  <2> QED BY SMTT(40), <2>1, <2>3 DEF tableBar
<1>3. /\ Len(slice') = Len(slice) + 1 /\ Len(slice) \in Nat
      /\ \A j \in 1..Len(slice) : slice'[j] = slice[j]
      /\ slice'[Len(slice) + 1].key = k
  <2>1. slice'[Len(slice) + 1] = [id |-> Len(slice), key |-> elems[p][i].key]
    BY Zenon, AddedRow
  <2>2. slice'[Len(slice) + 1].key = k
    BY <1>0, <2>1
  <2>3. Len(slice) \in Nat
    BY SMTT(30) DEF TypeOK
  <2> QED BY ZenonT(60), <2>2, <2>3, AddedRow
<1>4. \A j \in 1..Len(tableBar) : tableBar[j] # k
  BY ZenonT(60), <1>0, <1>1 DEF LookupMatchesSlice
<1>5. tableBar' = Append(tableBar, k)
  <2>1. /\ Append(tableBar, k) \in Seq(Keys)
        /\ Len(Append(tableBar, k)) = Len(slice) + 1
        /\ \A j \in 1..Len(slice) : Append(tableBar, k)[j] = tableBar[j]
        /\ Append(tableBar, k)[Len(slice) + 1] = k
    BY SMTT(40), <1>1, <1>3
  <2>2. \A j \in 1..Len(tableBar') : tableBar'[j] = Append(tableBar, k)[j]
    <3> SUFFICES ASSUME NEW j \in 1..Len(tableBar')
                 PROVE  tableBar'[j] = Append(tableBar, k)[j]
      BY Zenon
    <3>1. CASE j \in 1..Len(slice)
      <4>1. tableBar'[j] = slice'[j].key
        BY SMTT(40), <1>2
      <4>2. slice'[j] = slice[j] /\ tableBar[j] = slice[j].key
        BY SMTT(40), <1>1, <1>3, <3>1
      <4> QED BY <2>1, <3>1, <4>1, <4>2
    <3>2. CASE j = Len(slice) + 1
      BY Zenon, <1>2, <1>3, <2>1, <3>2
    <3>3. j \in 1..Len(slice) \/ j = Len(slice) + 1
      BY ONLY SMTT(40), <1>2, <1>3, j \in 1..Len(tableBar')
    <3> QED BY Zenon, <3>1, <3>2, <3>3
  <2> QED BY ONLY Zenon, <1>2, <1>3, <2>1, <2>2, SeqEqual
<1>6. Abstract!Add(k)
  BY Zenon, <1>4, <1>5 DEF Abstract!Add
<1> QED BY Zenon, <1>6 DEF Abstract!ANext

(* A call that returns has an id for every id of its batch.                *)
LEMMA ReturnBar ==
    ASSUME IInv, IInv', NEW p \in Ingests, pc[p] # "done", pc'[p] = "done",
           UNCHANGED <<slice, elems, rewritingMap>>,
           \A q \in Ingests : q # p => pc'[q] = pc[q]
    PROVE  Abstract!ANext
<1> DEFINE b == elems[p]
           ids == rewritingMap[p]
<1>0. /\ \A i \in 1..Len(b) : b[i].id \in DOMAIN ids
      /\ \A x \in DOMAIN ids : \E i \in 1..Len(b) : b[i].id = x
      /\ \A i \in 1..Len(b) : /\ ids[b[i].id] + 1 \in 1..Len(slice)
                              /\ slice[ids[b[i].id] + 1].key = b[i].key
      /\ b \in Batches
  <2>1. /\ IngestProgress(p)' /\ LookupMatchesSlice' /\ elems' = elems
        /\ rewritingMap' = rewritingMap /\ slice' = slice
    BY Zenon DEF IInv
  <2>2. \A i \in 1..Len(b) : Handled(p, i)'
    BY Zenon, <2>1 DEF IngestProgress
  <2>3. \A i \in 1..Len(b) : /\ b[i].id \in DOMAIN ids
                             /\ ids[b[i].id] + 1 \in 1..Len(slice)
                             /\ slice[ids[b[i].id] + 1].key = b[i].key
    <3> TAKE i \in 1..Len(b)
    <3>1. /\ b[i].id \in DOMAIN ids /\ b[i].key \in DOMAIN lookup'
          /\ ids[b[i].id] = lookup'[b[i].key]
      BY Zenon, <2>1, <2>2 DEF Handled
    <3>2. /\ lookup'[b[i].key] + 1 \in 1..Len(slice)
          /\ slice[lookup'[b[i].key] + 1].key = b[i].key
      BY ZenonT(60), <2>1, <3>1 DEF LookupMatchesSlice
    <3> QED BY ZenonT(60), <3>1, <3>2
  <2> QED BY ZenonT(60), <2>1, <2>3 DEF IngestProgress
<1>1. ids = [x \in DOMAIN ids |-> ids[x]]
  BY DEF IInv, TypeOK, IsMaps
<1>2. /\ Len(tableBar) = Len(slice) /\ Len(slice) \in Nat
      /\ \A i \in 1..Len(slice) : tableBar[i] = slice[i].key
  <2>1. TypeOK /\ slice \in Seq(Row)
    BY ZenonT(60) DEF IInv, TypeOK
  <2> QED BY ZenonT(60), <2>1, BarTypes, LenProperties
<1>3. tableBar' = tableBar
  BY DEF tableBar
<1>4. resultBar' = [resultBar EXCEPT ![p] = [batch |-> b, ids |-> ids]]
  BY Zenon DEF resultBar
<1>5. resultBar[p] = NoOne
  BY Zenon DEF resultBar
<1> HIDE DEF b, ids
<1>6. Abstract!Correct(b, ids)
  BY Zenon, <1>0, <1>2 DEF Abstract!Correct
<1>7. ids \in [{b[i].id : i \in 1..Len(b)} -> 0..(Len(tableBar) - 1)]
  <2>1. DOMAIN ids = {b[i].id : i \in 1..Len(b)}
    <3>1. \A x \in DOMAIN ids : x \in {b[i].id : i \in 1..Len(b)}
      BY Zenon, <1>0
    <3>2. \A x \in {b[i].id : i \in 1..Len(b)} : x \in DOMAIN ids
      BY SMTT(40), <1>0
    <3> QED BY Zenon, <3>1, <3>2
  <2>2. ASSUME NEW x \in DOMAIN ids PROVE ids[x] \in 0..(Len(tableBar) - 1)
    <3>1. ids[x] + 1 \in 1..Len(slice)
      BY ZenonT(60), <1>0
    <3>2. ids[x] \in Nat
      BY DEF ids, IInv, TypeOK, IsMaps
    <3> QED BY SMTT(40), <1>2, <3>1, <3>2
  <2> QED BY <1>1, <2>1, <2>2
<1>8. Abstract!Return(p)
  BY Zenon, <1>0, <1>3, <1>4, <1>5, <1>6, <1>7 DEF Abstract!Return
<1> QED BY SMTT(40), <1>8 DEF Abstract!ANext

(* Every step is a step of the abstract table or leaves it alone.          *)
LEMMA StepBar ==
    ASSUME IInv, IInv', [Next]_vars
    PROVE  Abstract!ANext \/ UNCHANGED Abstract!avars
<1>0. TypeOK /\ TypeOK' /\ LookupMatchesSlice
  BY DEF IInv
<1>1. ASSUME NEW p \in Ingests, ingest(p), pc[p] # "done", pc'[p] # "done",
             \A q \in Ingests : q # p => /\ pc'[q] = pc[q] /\ elems'[q] = elems[q]
                                        /\ rewritingMap'[q] = rewritingMap[q]
      PROVE  UNCHANGED resultBar
  BY ZenonT(60), <1>1 DEF resultBar
<1>2. ASSUME NEW p \in Ingests, RLock(p) \/ LookupNext(p) \/ Lock(p)
      PROVE  UNCHANGED Abstract!avars
  <2>1. UNCHANGED resultBar
    BY ZenonT(60), <1>0, <1>1, <1>2 DEF RLock, LookupNext, Lock, ingest, TypeOK, IsMaps
  <2>2. UNCHANGED tableBar
    BY ZenonT(60), <1>2 DEF RLock, LookupNext, Lock, tableBar
  <2> QED BY Zenon, <2>1, <2>2 DEF Abstract!avars
<1>3. ASSUME NEW p \in Ingests, RUnlock(p)
      PROVE  Abstract!ANext \/ UNCHANGED Abstract!avars
  <2>0. /\ pc[p] = "lookup" /\ UNCHANGED <<slice, elems, rewritingMap>>
        /\ pc'[p] \in {"done", "lock"}
        /\ \A q \in Ingests : q # p => pc'[q] = pc[q]
    BY Zenon, <1>0, <1>3 DEF RUnlock, TypeOK
  <2>1. CASE pc'[p] = "done"
    BY Zenon, <2>0, <2>1, ReturnBar
  <2>2. CASE pc'[p] = "lock"
    BY Zenon, <2>0, <2>2 DEF Abstract!avars, tableBar, resultBar
  <2> QED BY Zenon, <2>0, <2>1, <2>2
<1>4. ASSUME NEW p \in Ingests, InsertNext(p)
      PROVE  Abstract!ANext \/ UNCHANGED Abstract!avars
  <2>0. PICK i \in 1..Len(elems[p]) : Known(p, i) \/ Added(p, i)
    BY ZenonT(60), <1>4, InsertOutcome DEF IInv
  <2>1. UNCHANGED resultBar
    BY ZenonT(60), <1>0, <1>1, <1>4 DEF InsertNext, ingest, TypeOK, IsMaps
  <2>2. CASE Known(p, i)
    BY SMTT(40), <2>1, <2>2 DEF Known, Abstract!avars, tableBar
  <2>3. CASE Added(p, i)
    BY ZenonT(60), <1>0, <2>0, <2>1, <2>3, AddedBar
  <2> QED BY SMTT(40), <2>0, <2>2, <2>3
<1>5. ASSUME NEW p \in Ingests, Unlock(p) PROVE Abstract!ANext
  <2>0. /\ pc[p] = "insert" /\ UNCHANGED <<slice, elems, rewritingMap>>
        /\ pc'[p] = "done"
        /\ \A q \in Ingests : q # p => pc'[q] = pc[q]
    BY ZenonT(60), <1>0, <1>5 DEF Unlock, TypeOK
  <2> QED BY SMTT(40), <2>0, ReturnBar
<1>6. CASE UNCHANGED <<slice, ingestVars>>
  BY ZenonT(60), <1>6 DEF Abstract!avars, tableBar, resultBar, ingestVars
<1>7. CASE Flush \/ Finished \/ UNCHANGED vars
  BY <1>6, <1>7 DEF Flush, FlushLock, FlushPanic, FlushRowGroup, FlushError,
     FlushUnlock, Finished, vars
<1> QED BY Zenon, <1>2, <1>3, <1>4, <1>5, <1>7 DEF Next, ingest

(* A table with its two locked passes implements one that interns values   *)
(* atomically: whoever calls ingest may ignore the lock.                   *)
THEOREM Refinement == Spec => ImplementsInternTable
<1>1. Init => Abstract!AInit
  BY DEF Init, Abstract!AInit, tableBar, resultBar
<1>2. IInv /\ IInv' /\ [Next]_vars => [Abstract!ANext]_(Abstract!avars)
  BY StepBar
<1> QED BY <1>1, <1>2, TableInvariant, PTL DEF Spec, ImplementsInternTable, Abstract!ASpec
=============================================================================

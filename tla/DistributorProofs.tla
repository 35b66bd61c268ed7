------------------------- MODULE DistributorProofs --------------------------
(***************************************************************************)
(* Theorems about Distributor for every ring, request and order in which   *)
(* the goroutines run.                                                     *)
(***************************************************************************)
EXTENDS Distributor, FiniteSetTheorems, TLAPS

(* The sets the counters count are finite.                                 *)
LEMMA Finite ==
    ASSUME TypeOK
    PROVE  /\ IsFiniteSet(request)
           /\ IsFiniteSet(quorate)
           /\ \A s \in Series :
                /\ IsFiniteSet(replicationSet[s].instances)
                /\ replicationSet[s].instances \subseteq Ingesters
                /\ Cardinality(replicationSet[s].instances) \in Nat
                /\ replicationSet[s].maxErrors \in Nat
                /\ replicationSet[s].maxErrors < Cardinality(replicationSet[s].instances)
                /\ minSuccess(s) \in Nat
                /\ maxFailures(s) \in Nat
                /\ minSuccess(s) > 0
                /\ \A r : /\ IsFiniteSet(Counted(s, r))
                          /\ Cardinality(Counted(s, r)) \in Nat
<1>1. request \subseteq Series /\ quorate \subseteq Series
  BY Zenon DEF TypeOK
<1>2. IsFiniteSet(request) /\ IsFiniteSet(quorate)
  BY Zenon, <1>1, SeriesAssumption, FS_Subset
<1>3. ASSUME NEW s \in Series
      PROVE  /\ IsFiniteSet(replicationSet[s].instances)
             /\ replicationSet[s].instances \subseteq Ingesters
             /\ Cardinality(replicationSet[s].instances) \in Nat
             /\ replicationSet[s].maxErrors \in Nat
             /\ replicationSet[s].maxErrors < Cardinality(replicationSet[s].instances)
             /\ minSuccess(s) \in Nat
             /\ maxFailures(s) \in Nat
             /\ minSuccess(s) > 0
  <2>1. replicationSet[s] \in ReplicationSets
    BY Zenon DEF TypeOK
  <2>2. /\ replicationSet[s].instances \subseteq Ingesters
        /\ replicationSet[s].maxErrors \in Nat
        /\ replicationSet[s].maxErrors < Cardinality(replicationSet[s].instances)
    BY Zenon, <2>1, RingAssumption
  <2>3. IsFiniteSet(replicationSet[s].instances)
    BY Zenon, <2>2, RingAssumption, FS_Subset
  <2>4. Cardinality(replicationSet[s].instances) \in Nat
    BY Zenon, <2>3, FS_CardinalityType
  <2> QED BY ONLY <2>2, <2>3, <2>4 DEF minSuccess, maxFailures
<1>4. ASSUME NEW s \in Series, NEW r
      PROVE  IsFiniteSet(Counted(s, r)) /\ Cardinality(Counted(s, r)) \in Nat
  <2>1. Counted(s, r) \subseteq replicationSet[s].instances
    BY Zenon DEF Counted
  <2>2. IsFiniteSet(Counted(s, r))
    BY Zenon, <1>3, <2>1, FS_Subset
  <2> QED BY Zenon, <2>2, FS_CardinalityType
<1> QED BY Zenon, <1>2, <1>3, <1>4

(* A series cannot both reach its quorum and have too many failures.       *)
LEMMA Exclusive ==
    ASSUME TypeOK, CountersCount, NEW s \in request,
           succeeded[s] >= minSuccess(s), failed[s] > maxFailures(s)
    PROVE  FALSE
<1> DEFINE A == Counted(s, "ok")
           B == Counted(s, "error")
           I == replicationSet[s].instances
<1>1. s \in Series
  BY Zenon DEF TypeOK
<1>2. /\ IsFiniteSet(A) /\ IsFiniteSet(B) /\ IsFiniteSet(I)
      /\ Cardinality(A) \in Nat /\ Cardinality(B) \in Nat /\ Cardinality(I) \in Nat
      /\ replicationSet[s].maxErrors \in Nat
  BY Zenon, <1>1, Finite
<1>3. A \cup B \subseteq I /\ A \cap B = {}
  BY DEF Counted
<1>4. Cardinality(A \cup B) <= Cardinality(I)
  BY Zenon, <1>2, <1>3, FS_Subset
<1>5. Cardinality(A \cup B) = Cardinality(A) + Cardinality(B) - Cardinality(A \cap B)
  BY Zenon, <1>2, FS_Union
<1>6. Cardinality(A \cap B) = 0
  BY Zenon, <1>3, FS_EmptySet
<1>7. Cardinality(A) >= Cardinality(I) - replicationSet[s].maxErrors
      /\ Cardinality(B) > replicationSet[s].maxErrors
  BY Zenon DEF CountersCount, minSuccess, maxFailures
<1> HIDE DEF A, B, I
<1> QED BY ONLY <1>2, <1>4, <1>5, <1>6, <1>7

(* Before a push all counters and channels are empty.                      *)
LEMMA InitIInv == Init => IInv
<1> SUFFICES ASSUME Init PROVE IInv
  OBVIOUS
<1>1. TypeOK
  BY DEF Init, TypeOK
<1>2. \A i \in Ingesters : GoroutineProgress(i)
  BY DEF Init, GoroutineProgress, Assigned
<1>3. CountersCount /\ OneSignaller /\ DoneMeansQuorate /\ ErrMeansFailed /\ SingleWriter
  BY DEF Init, CountersCount, OneSignaller, DoneMeansQuorate, ErrMeansFailed, SingleWriter
<1>4. PendingCounts
  BY FS_EmptySet DEF Init, PendingCounts
<1> QED BY Zenon, <1>1, <1>2, <1>3, <1>4 DEF IInv, Init

(* The steps of Push after the goroutines were started, and the steps of a *)
(* goroutine that change no counter, leave the counting alone.             *)
LEMMA CountersKept ==
    ASSUME CountersCount, PendingCounts,
           UNCHANGED <<request, replicationSet, todo, result, succeeded, failed,
                       samplesPending, quorate>>
    PROVE  CountersCount' /\ PendingCounts'
BY Zenon DEF CountersCount, PendingCounts, Counted, minSuccess, maxFailures

(* What is left of a goroutine's progress when it only moves on.           *)
LEMMA ProgressKept ==
    ASSUME NEW i \in Ingesters, GoroutineProgress(i),
           UNCHANGED <<request, replicationSet, quorate>>,
           todo'[i] = todo[i], result'[i] = result[i], stored'[i] = stored[i],
           \/ gopc'[i] = gopc[i] /\ current'[i] = current[i]
              /\ \A s \in request : /\ succeeded[s] >= minSuccess(s)
                                       => succeeded'[s] >= minSuccess(s)
                                    /\ failed[s] > maxFailures(s)
                                       => failed'[s] > maxFailures(s)
           \/ gopc'[i] \in {"idle", "count", "write"} /\ result[i] # "none"
    PROVE  GoroutineProgress(i)'
BY Zenon DEF GoroutineProgress, Assigned, minSuccess, maxFailures

(* The steps of Push itself, and the end of its context, keep the          *)
(* invariant.                                                              *)
LEMMA PushIInv ==
    ASSUME IInv, Push \/ ContextDone
    PROVE  IInv'
<1>1. CASE Reject
  <2>1. TypeOK'
    BY <1>1 DEF IInv, Reject, TypeOK, goVars, counters
  <2>2. CountersCount' /\ PendingCounts'
    BY Zenon, <1>1, CountersKept DEF IInv, Reject, goVars, counters
  <2>3. \A i \in Ingesters : GoroutineProgress(i)'
    BY Zenon, <1>1 DEF IInv, Reject, GoroutineProgress, Assigned, minSuccess, maxFailures, goVars, counters
  <2>4. OneSignaller'
    BY Zenon, <1>1 DEF IInv, Reject, OneSignaller, goVars
  <2>5. request = {} /\ done = 0 /\ err = 0 /\ \A i \in Ingesters : gopc[i] # "write"
    <3>1. request = {} /\ \A i \in Ingesters : gopc[i] # "write"
      BY <1>1 DEF IInv, Reject, SingleWriter
    <3>2. ~(done > 0) /\ ~(err > 0)
      BY Zenon, <3>1 DEF IInv, DoneMeansQuorate, ErrMeansFailed
    <3> QED BY <3>1, <3>2 DEF IInv, TypeOK
  <2>6. DoneMeansQuorate' /\ ErrMeansFailed' /\ SingleWriter'
    BY <1>1, <2>5 DEF IInv, Reject, DoneMeansQuorate, ErrMeansFailed, SingleWriter, goVars, counters, maxFailures
  <2>7. (pc = "start")' => FALSE
    BY Zenon, <1>1 DEF Reject
  <2> QED BY Zenon, <2>1, <2>2, <2>3, <2>4, <2>6, <2>7 DEF IInv
<1>2. CASE FanOut
  <2>1. PICK R \in SUBSET Series :
          /\ request' = R
          /\ samplesPending' = Cardinality(R)
          /\ todo' = [i \in Ingesters |->
                        {s \in R : i \in replicationSet[s].instances}]
          /\ gopc' = [i \in Ingesters |->
                        IF \E s \in R : i \in replicationSet[s].instances
                          THEN "send" ELSE "idle"]
    BY Zenon, <1>2 DEF FanOut
  <2>2. /\ request = {} /\ quorate = {} /\ pc' = "wait"
        /\ \A i \in Ingesters : result[i] = "none" /\ stored[i] = {}
        /\ \A s \in Series : succeeded[s] = 0 /\ failed[s] = 0
        /\ UNCHANGED <<replicationSet, current, result, succeeded, failed,
                       samplesFailed, done, err, stored, quorate>>
    BY <1>2 DEF IInv, FanOut, PendingCounts, GoroutineProgress
  <2>3. done = 0 /\ err = 0 /\ samplesFailed = 0
    <3>1. ~(done > 0) /\ ~(err > 0) /\ ~(samplesFailed > 0)
      BY Zenon, <2>2 DEF IInv, DoneMeansQuorate, ErrMeansFailed
    <3> QED BY <3>1 DEF IInv, TypeOK
  <2>4. IsFiniteSet(R) /\ Cardinality(R) \in Nat
    BY Zenon, SeriesAssumption, FS_Subset, FS_CardinalityType
  <2>5. TypeOK'
    BY <2>1, <2>2, <2>4 DEF IInv, TypeOK
  <2>6. \A i \in Ingesters : GoroutineProgress(i)'
    BY <2>1, <2>2 DEF GoroutineProgress, Assigned
  <2>7. CountersCount'
    <3>1. ASSUME NEW s \in R, NEW r \in {"ok", "error"}
          PROVE  Counted(s, r)' = {}
      <4>1. replicationSet[s].instances \subseteq Ingesters
        BY Zenon, Finite DEF IInv
      <4> QED BY <2>2, <4>1 DEF Counted
    <3>2. \A s \in R : succeeded'[s] = 0 /\ failed'[s] = 0
      BY Zenon, <2>2
    <3>3. Cardinality({}) = 0
      BY Zenon, FS_EmptySet
    <3>4. \A s \in R : /\ Cardinality(Counted(s, "ok")') = 0
                        /\ Cardinality(Counted(s, "error")') = 0
      BY Zenon, <3>1, <3>3
    <3> QED BY Zenon, <2>1, <3>2, <3>4 DEF CountersCount
  <2>8. \A i \in Ingesters : gopc'[i] \in {"send", "idle"}
    BY <2>1
  <2>9. OneSignaller' /\ SingleWriter'
    BY <2>2, <2>3, <2>8 DEF OneSignaller, SingleWriter
  <2>10. PendingCounts'
    BY <2>1, <2>2, <2>4, FS_EmptySet DEF PendingCounts
  <2>11. DoneMeansQuorate' /\ ErrMeansFailed'
    BY <2>2, <2>3, <2>8 DEF DoneMeansQuorate, ErrMeansFailed
  <2>12. (pc = "start")' => FALSE
    BY Zenon, <2>2
  <2> QED BY Zenon, <2>5, <2>6, <2>7, <2>9, <2>10, <2>11, <2>12 DEF IInv
<1>3. CASE ReturnError \/ ReturnDone \/ ContextDone
  <2>1. /\ pc = "wait" /\ pc' \in {"ok", "error", "canceled"}
        /\ UNCHANGED <<request, replicationSet, gopc, todo, current, result,
                       succeeded, failed, samplesPending, samplesFailed,
                       stored, quorate>>
    BY <1>3 DEF ReturnError, ReturnDone, ContextDone, goVars, counters
  <2>2. TypeOK'
    BY <1>3, <2>1 DEF IInv, TypeOK, ReturnError, ReturnDone, ContextDone
  <2>3. CountersCount' /\ PendingCounts'
    BY Zenon, <2>1, CountersKept DEF IInv
  <2>4. \A i \in Ingesters : GoroutineProgress(i)'
    BY Zenon, <2>1 DEF IInv, GoroutineProgress, Assigned, minSuccess, maxFailures
  <2>5. OneSignaller'
    BY Zenon, <2>1 DEF IInv, OneSignaller
  <2>6. SingleWriter'
    BY <1>3, <2>1 DEF IInv, TypeOK, SingleWriter, ReturnError, ReturnDone, ContextDone
  <2>7. DoneMeansQuorate'
    BY <1>3, <2>1 DEF IInv, TypeOK, DoneMeansQuorate, ReturnError, ReturnDone, ContextDone
  <2>8. ErrMeansFailed'
    BY <1>3, <2>1 DEF IInv, TypeOK, ErrMeansFailed, maxFailures, ReturnError, ReturnDone, ContextDone
  <2>9. (pc = "start")' => FALSE
    BY <2>1
  <2> QED BY Zenon, <2>2, <2>3, <2>4, <2>5, <2>6, <2>7, <2>8, <2>9 DEF IInv
<1> QED BY Zenon, <1>1, <1>2, <1>3 DEF Push

(* A step of a goroutine is taken while Push waits or after it returned,   *)
(* and leaves Push and the request alone.                                  *)
LEMMA GoroutineFrame ==
    ASSUME IInv, NEW i \in Ingesters, sendProfiles(i)
    PROVE  /\ pc # "start"
           /\ UNCHANGED <<pc, request, replicationSet>>
           /\ \A j \in Ingesters \ {i} :
                 /\ gopc'[j] = gopc[j] /\ todo'[j] = todo[j]
                 /\ current'[j] = current[j] /\ result'[j] = result[j]
                 /\ stored'[j] = stored[j]
<1>1. gopc[i] # "idle" /\ UNCHANGED <<pc, request, replicationSet>>
  BY DEF sendProfiles, Send, CountFailure, CountSuccess, SignalFailure,
         SignalSuccess, WriteChannel, End
<1>2. pc # "start"
  BY Zenon, <1>1 DEF IInv
<1>3. ASSUME NEW j \in Ingesters \ {i}
      PROVE  /\ gopc'[j] = gopc[j] /\ todo'[j] = todo[j]
             /\ current'[j] = current[j] /\ result'[j] = result[j]
             /\ stored'[j] = stored[j]
  BY DEF IInv, TypeOK, sendProfiles, Send, CountFailure, CountSuccess, SignalFailure,
         SignalSuccess, WriteChannel, End, goVars
<1> QED BY Zenon, <1>1, <1>2, <1>3

(* The ingester's answer: nothing is counted yet.                          *)
LEMMA SendIInv ==
    ASSUME IInv, NEW i \in Ingesters, Send(i)
    PROVE  IInv'
<1>1. /\ gopc[i] = "send" /\ result[i] = "none" /\ todo[i] = Assigned(i)
      /\ gopc' = [gopc EXCEPT ![i] = "count"]
      /\ UNCHANGED <<pc, request, replicationSet, todo, current, succeeded, failed,
                     samplesPending, samplesFailed, done, err, quorate>>
  BY DEF IInv, Send, GoroutineProgress, counters
<1>2. PICK r \in {"ok", "error"}, S \in SUBSET todo[i] :
        /\ result' = [result EXCEPT ![i] = r]
        /\ stored' = [stored EXCEPT ![i] = S]
        /\ r = "ok" => S = todo[i]
  BY Zenon DEF Send
<1>3. TypeOK'
  BY <1>1, <1>2 DEF IInv, TypeOK
<1>4. ASSUME NEW j \in Ingesters
      PROVE  GoroutineProgress(j)'
  <2>1. CASE j = i
    <3>1. gopc'[i] = "count" /\ result'[i] = r /\ stored'[i] = S
      BY <1>1, <1>2 DEF IInv, TypeOK
    <3>2. Assigned(i)' = Assigned(i)
      BY Zenon, <1>1 DEF Assigned
    <3> QED BY <1>1, <1>2, <2>1, <3>1, <3>2 DEF GoroutineProgress
  <2>2. CASE j # i
    <3>1. gopc'[j] = gopc[j] /\ result'[j] = result[j] /\ stored'[j] = stored[j]
      BY <1>1, <1>2, <2>2 DEF IInv, TypeOK
    <3> QED BY Zenon, <1>1, <3>1 DEF IInv, GoroutineProgress, Assigned, minSuccess, maxFailures
  <2> QED BY Zenon, <2>1, <2>2
<1>5. ASSUME NEW s \in request, NEW q \in {"ok", "error"}
      PROVE  Counted(s, q)' = Counted(s, q)
  <2>1. replicationSet[s].instances \subseteq Ingesters
    BY Zenon, Finite DEF IInv, TypeOK
  <2>2. i \in replicationSet[s].instances => s \in todo[i]
    BY Zenon, <1>1 DEF Assigned
  <2>3. \A j \in Ingesters : j # i => result'[j] = result[j]
    BY <1>2 DEF IInv, TypeOK
  <2> QED BY <1>1, <2>1, <2>2, <2>3 DEF Counted
<1>6. CountersCount'
  BY Zenon, <1>1, <1>5 DEF IInv, CountersCount
<1>7. PendingCounts'
  BY Zenon, <1>1 DEF IInv, PendingCounts, minSuccess
<1>8. \A j \in Ingesters : /\ gopc'[j] \in {"signal", "write"} => j # i
                           /\ j # i => gopc'[j] = gopc[j] /\ result'[j] = result[j]
  BY <1>1, <1>2 DEF IInv, TypeOK
<1>9. OneSignaller'
  BY <1>1, <1>8 DEF IInv, OneSignaller
<1>10. DoneMeansQuorate'
  BY <1>1, <1>8 DEF IInv, DoneMeansQuorate
<1>11. ErrMeansFailed'
  BY <1>1, <1>8 DEF IInv, ErrMeansFailed, maxFailures
<1>12. SingleWriter'
  BY <1>1, <1>8 DEF IInv, SingleWriter
<1>13. (pc = "start")' => FALSE
  BY Zenon, <1>1, GoroutineFrame DEF sendProfiles
<1> QED BY Zenon, <1>3, <1>4, <1>6, <1>7, <1>9, <1>10, <1>11, <1>12, <1>13 DEF IInv

(* A tracker is counted: the set its counter counts has one more ingester. *)
LEMMA CountIInv ==
    ASSUME IInv, NEW i \in Ingesters, CountFailure(i) \/ CountSuccess(i)
    PROVE  IInv'
<1>1. PICK s \in Series :
        /\ NextTracker(i, s)
        /\ current' = [current EXCEPT ![i] = s]
        /\ todo' = [todo EXCEPT ![i] = @ \ {s}]
        /\ gopc[i] = "count"
        /\ UNCHANGED <<pc, request, replicationSet, result, samplesPending,
                       samplesFailed, done, err, stored, quorate>>
        /\ \/ /\ result[i] = "error"
              /\ failed' = [failed EXCEPT ![s] = @ + 1]
              /\ succeeded' = succeeded
              /\ gopc' = [gopc EXCEPT ![i] = IF failed'[s] > maxFailures(s)
                                             THEN "signal" ELSE "count"]
           \/ /\ result[i] = "ok"
              /\ succeeded' = [succeeded EXCEPT ![s] = @ + 1]
              /\ failed' = failed
              /\ gopc' = [gopc EXCEPT ![i] = IF succeeded'[s] = minSuccess(s)
                                             THEN "signal" ELSE "count"]
  BY Zenon DEF CountFailure, CountSuccess, tooManyFailures, reachedMinSuccess
<1>2. /\ s \in todo[i] /\ s \in request /\ i \in replicationSet[s].instances
      /\ i \in Ingesters
  BY Zenon, <1>1 DEF IInv, NextTracker, GoroutineProgress, Assigned
<1>3. TypeOK'
  BY <1>1, SeriesAssumption DEF IInv, TypeOK
<1>4. /\ minSuccess(s) \in Nat /\ maxFailures(s) \in Nat
      /\ \A t \in Series : minSuccess(t)' = minSuccess(t) /\ maxFailures(t)' = maxFailures(t)
      /\ \A t \in Series : minSuccess(t) \in Nat /\ maxFailures(t) \in Nat
  <2>1. \A t \in Series : minSuccess(t) \in Nat /\ maxFailures(t) \in Nat
    BY Zenon, Finite DEF IInv
  <2> QED BY Zenon, <1>1, <2>1 DEF minSuccess, maxFailures
<1>5. \A t \in Series : /\ succeeded[t] \in Nat /\ failed[t] \in Nat
                        /\ succeeded'[t] \in Nat /\ failed'[t] \in Nat
                        /\ succeeded'[t] >= succeeded[t] /\ failed'[t] >= failed[t]
                        /\ t # s => succeeded'[t] = succeeded[t] /\ failed'[t] = failed[t]
  BY <1>1 DEF IInv, TypeOK
<1>6. /\ result[i] = "ok" => succeeded'[s] = succeeded[s] + 1 /\ failed'[s] = failed[s]
      /\ result[i] = "error" => failed'[s] = failed[s] + 1 /\ succeeded'[s] = succeeded[s]
  BY <1>1 DEF IInv, TypeOK
<1>7. /\ result[i] \in {"ok", "error"}
      /\ todo'[i] = todo[i] \ {s} /\ current'[i] = s
      /\ gopc'[i] \in {"count", "signal"}
      /\ gopc'[i] = "signal" /\ result[i] = "ok" => succeeded'[s] = minSuccess(s)
      /\ gopc'[i] = "signal" /\ result[i] = "error" => failed'[s] > maxFailures(s)
      /\ \A j \in Ingesters \ {i} : /\ todo'[j] = todo[j] /\ current'[j] = current[j]
                                    /\ gopc'[j] = gopc[j]
  BY <1>1 DEF IInv, TypeOK
<1>8. gopc'[i] = "signal" /\ result[i] = "ok" =>
        /\ s \notin quorate
        /\ \A j \in Ingesters \ {i} :
              gopc[j] = "signal" /\ result[j] = "ok" => current[j] # s
  <2> SUFFICES ASSUME gopc'[i] = "signal", result[i] = "ok"
               PROVE  /\ s \notin quorate
                      /\ \A j \in Ingesters \ {i} :
                            gopc[j] = "signal" /\ result[j] = "ok" => current[j] # s
    OBVIOUS
  <2>1. ~(succeeded[s] >= minSuccess(s))
    BY ONLY <1>4, <1>5, <1>6, <1>7, s \in Series, result[i] = "ok", gopc'[i] = "signal"
  <2> QED BY Zenon, <2>1 DEF IInv, PendingCounts, GoroutineProgress
<1>9. ASSUME NEW j \in Ingesters
      PROVE  GoroutineProgress(j)'
  <2>1. CASE j = i
    <3>1. Assigned(i)' = Assigned(i)
      BY Zenon, <1>1 DEF Assigned
    <3>2. /\ todo[i] \subseteq Assigned(i)
          /\ result[i] = "ok" => stored[i] = Assigned(i)
      BY Zenon DEF IInv, GoroutineProgress
    <3>3. gopc'[i] = "signal" => /\ result[i] = "ok" => succeeded'[s] >= minSuccess(s)'
                                 /\ result[i] = "error" => failed'[s] > maxFailures(s)'
      <4>1. succeeded'[s] = minSuccess(s) => succeeded'[s] >= minSuccess(s)
        BY ONLY <1>4, <1>5, s \in Series
      <4> QED BY Zenon, <1>4, <1>7, <4>1
    <3>4. minSuccess(current[i])' = minSuccess(s)' /\ maxFailures(current[i])' = maxFailures(s)'
      BY Zenon, <1>1, <1>7 DEF minSuccess, maxFailures
    <3>5. todo'[i] \subseteq Assigned(i)' /\ result'[i] # "none" /\ gopc'[i] # "send"
          /\ (result'[i] = "ok" => stored'[i] = Assigned(i)')
      BY <1>1, <1>7, <3>1, <3>2
    <3>6. gopc'[i] = "signal" =>
            /\ current'[i] \in request'
            /\ result'[i] = "ok" =>
                 /\ current'[i] \notin quorate'
                 /\ succeeded'[current'[i]] >= minSuccess(current[i])'
            /\ result'[i] = "error" => failed'[current'[i]] > maxFailures(current[i])'
      <4>1. /\ current'[i] = s /\ request' = request /\ quorate' = quorate
            /\ result' = result
        BY Zenon, <1>1, <1>7
      <4> QED BY Zenon, <1>2, <1>8, <3>3, <3>4, <4>1
    <3>7. GoroutineProgress(i)'
      BY Zenon, <3>5, <3>6 DEF GoroutineProgress
    <3> QED BY Zenon, <2>1, <3>7
  <2>2. CASE j # i
    <3>1. \A t \in request : /\ succeeded[t] >= minSuccess(t) => succeeded'[t] >= minSuccess(t)
                             /\ failed[t] > maxFailures(t) => failed'[t] > maxFailures(t)
      <4>1. request \subseteq Series
        BY Zenon DEF IInv, TypeOK
      <4> QED BY ONLY <1>4, <1>5, <4>1
    <3>2. /\ UNCHANGED <<request, replicationSet, quorate>>
          /\ todo'[j] = todo[j] /\ result'[j] = result[j] /\ stored'[j] = stored[j]
          /\ gopc'[j] = gopc[j] /\ current'[j] = current[j]
      BY Zenon, <1>1, <1>7, <2>2
    <3> QED BY Zenon, <3>1, <3>2, ProgressKept DEF IInv
  <2> QED BY Zenon, <2>1, <2>2
<1>10. CountersCount'
  <2>1. ASSUME NEW t \in request, NEW q \in {"ok", "error"}
        PROVE  /\ (t = s /\ q = result[i]) =>
                     Cardinality(Counted(t, q)') = Cardinality(Counted(t, q)) + 1
               /\ ~(t = s /\ q = result[i]) => Counted(t, q)' = Counted(t, q)
    <3>1. t \in Series /\ replicationSet[t].instances \subseteq Ingesters
          /\ IsFiniteSet(Counted(t, q))
      BY Zenon, Finite DEF IInv, TypeOK
    <3>2. (t = s /\ q = result[i]) => Counted(t, q)' = Counted(t, q) \cup {i}
                                      /\ i \notin Counted(t, q)
      BY <1>1, <1>2, <1>7, <3>1 DEF Counted
    <3>3. ~(t = s /\ q = result[i]) => Counted(t, q)' = Counted(t, q)
      BY <1>1, <1>7, <3>1 DEF Counted
    <3>4. i \notin Counted(t, q) =>
             Cardinality(Counted(t, q) \cup {i}) = Cardinality(Counted(t, q)) + 1
      BY Zenon, <3>1, FS_AddElement
    <3> QED BY Zenon, <3>2, <3>3, <3>4
  <2>2. ASSUME NEW t \in request
        PROVE  /\ succeeded'[t] = Cardinality(Counted(t, "ok")')
               /\ failed'[t] = Cardinality(Counted(t, "error")')
    <3>1. /\ succeeded[t] = Cardinality(Counted(t, "ok"))
          /\ failed[t] = Cardinality(Counted(t, "error"))
          /\ t \in Series
      BY Zenon DEF IInv, CountersCount, TypeOK
    <3>2. CASE t # s
      BY Zenon, <1>5, <2>1, <3>1, <3>2
    <3>3. CASE t = s /\ result[i] = "ok"
      <4>1. "error" # result[i]
        BY <3>3
      <4> QED BY Zenon, <1>6, <2>1, <3>1, <3>3, <4>1
    <3>4. CASE t = s /\ result[i] = "error"
      <4>1. "ok" # result[i]
        BY <3>4
      <4> QED BY Zenon, <1>6, <2>1, <3>1, <3>4, <4>1
    <3> QED BY Zenon, <1>7, <3>2, <3>3, <3>4
  <2> QED BY Zenon, <1>1, <2>2 DEF CountersCount
<1>11. PendingCounts'
  <2>1. ASSUME NEW t \in quorate PROVE succeeded'[t] >= minSuccess(t)'
    <3>1. t \in Series /\ succeeded[t] >= minSuccess(t)
      BY Zenon DEF IInv, PendingCounts, TypeOK
    <3> QED BY ONLY <1>4, <1>5, <3>1
  <2> QED BY Zenon, <1>1, <2>1 DEF IInv, PendingCounts
<1>12. OneSignaller'
  <2> SUFFICES ASSUME NEW j \in Ingesters, NEW k \in Ingesters,
                      gopc'[j] = "signal", gopc'[k] = "signal",
                      result'[j] = "ok", result'[k] = "ok", current'[j] = current'[k]
               PROVE  j = k
    BY Zenon DEF OneSignaller
  <2>1. result' = result
    BY Zenon, <1>1
  <2>2. CASE j # i /\ k # i
    BY SMTT(30), <1>7, <2>1, <2>2 DEF IInv, OneSignaller
  <2>3. CASE j = i /\ k # i
    BY Zenon, <1>7, <1>8, <2>1, <2>3
  <2>4. CASE k = i /\ j # i
    BY Zenon, <1>7, <1>8, <2>1, <2>4
  <2> QED BY Zenon, <2>2, <2>3, <2>4
<1>13. \A j \in Ingesters : gopc'[j] = "write" => gopc[j] = "write"
  BY <1>7
<1>14. DoneMeansQuorate' /\ SingleWriter'
  BY <1>1, <1>13, <1>7 DEF IInv, DoneMeansQuorate, SingleWriter
<1>15. ErrMeansFailed'
  <2>1. \A t \in request : failed[t] > maxFailures(t) => failed'[t] > maxFailures(t)'
    <3>1. request \subseteq Series
      BY Zenon DEF IInv, TypeOK
    <3> QED BY ONLY <1>4, <1>5, <3>1
  <2> QED BY Zenon, <1>1, <1>13, <2>1 DEF IInv, ErrMeansFailed
<1>16. (pc = "start")' => FALSE
  BY Zenon, <1>1, GoroutineFrame DEF sendProfiles
<1> QED BY Zenon, <1>3, <1>9, <1>10, <1>11, <1>12, <1>14, <1>15, <1>16 DEF IInv

(* A series has too many failures: only the first to say so writes.        *)
LEMMA SignalFailureIInv ==
    ASSUME IInv, NEW i \in Ingesters, SignalFailure(i)
    PROVE  IInv'
<1>1. /\ gopc[i] = "signal" /\ result[i] = "error"
      /\ samplesFailed' = samplesFailed + 1
      /\ gopc' = [gopc EXCEPT ![i] = IF samplesFailed' = 1 THEN "write" ELSE "count"]
      /\ UNCHANGED <<pc, request, replicationSet, todo, current, result,
                     succeeded, failed, samplesPending, done, err, stored, quorate>>
  BY Zenon DEF SignalFailure, firstFailure
<1>2. TypeOK'
  BY <1>1 DEF IInv, TypeOK
<1>3. CountersCount' /\ PendingCounts'
  BY Zenon, <1>1, CountersKept DEF IInv
<1>4. /\ gopc'[i] \in {"write", "count"}
      /\ gopc'[i] = "write" => samplesFailed = 0
      /\ samplesFailed' > 0
      /\ \A j \in Ingesters \ {i} : gopc'[j] = gopc[j]
  BY <1>1 DEF IInv, TypeOK
<1>5. ASSUME NEW j \in Ingesters PROVE GoroutineProgress(j)'
  <2>1. GoroutineProgress(j)
    BY Zenon DEF IInv
  <2>2. /\ UNCHANGED <<request, replicationSet, quorate>>
        /\ todo'[j] = todo[j] /\ result'[j] = result[j] /\ stored'[j] = stored[j]
    BY Zenon, <1>1
  <2>3. CASE j = i
    <3>1. gopc'[j] \in {"idle", "count", "write"} /\ result[j] # "none"
      BY <1>1, <1>4, <2>3
    <3> QED BY Zenon, <2>1, <2>2, <3>1, ProgressKept
  <2>4. CASE j # i
    <3>1. gopc'[j] = gopc[j] /\ current'[j] = current[j]
          /\ succeeded' = succeeded /\ failed' = failed
      BY Zenon, <1>1, <1>4, <2>4
    <3> QED BY Zenon, <2>1, <2>2, <3>1, ProgressKept
  <2> QED BY Zenon, <2>3, <2>4
<1>6. OneSignaller'
  <2>1. \A j \in Ingesters : gopc'[j] = "signal" => gopc[j] = "signal"
    BY <1>1, <1>4
  <2> QED BY Zenon, <1>1, <2>1 DEF IInv, OneSignaller
<1>7. /\ current[i] \in request
      /\ failed[current[i]] > maxFailures(current[i])
  BY Zenon, <1>1 DEF IInv, GoroutineProgress
<1>8. quorate # request
  BY Zenon, <1>7, Exclusive DEF IInv, PendingCounts
<1>9. /\ ~(done > 0) /\ pc # "ok"
      /\ \A j \in Ingesters : ~(gopc[j] = "write" /\ result[j] = "ok")
  BY Zenon, <1>8 DEF IInv, DoneMeansQuorate
<1>10. DoneMeansQuorate'
  <2>1. \A j \in Ingesters : ~(gopc'[j] = "write" /\ result'[j] = "ok")
    BY <1>1, <1>4, <1>9
  <2> QED BY Zenon, <1>1, <1>9, <2>1 DEF DoneMeansQuorate
<1>11. ErrMeansFailed'
  <2>1. maxFailures(current[i])' = maxFailures(current[i])
    BY Zenon, <1>1 DEF maxFailures
  <2>2. PICK c : c = current[i]
    OBVIOUS
  <2>3. c \in request' /\ failed'[c] > maxFailures(c)'
    BY Zenon, <1>1, <1>7, <2>2 DEF maxFailures
  <2> QED BY Zenon, <1>4, <2>3 DEF ErrMeansFailed
<1>12. SingleWriter'
  <2>1. done = 0
    BY <1>9 DEF IInv, TypeOK
  <2>2. CASE gopc'[i] = "count"
    BY <1>1, <1>4, <2>2 DEF IInv, SingleWriter
  <2>3. CASE gopc'[i] = "write"
    <3>1. ~(samplesFailed > 0) /\ request # {}
      BY <1>4, <1>7, <2>3
    <3>2. /\ ~(err > 0) /\ pc # "error"
          /\ \A j \in Ingesters : ~(gopc[j] = "write" /\ result[j] = "error")
      BY Zenon, <3>1 DEF IInv, ErrMeansFailed
    <3>3. err = 0
      BY <3>2 DEF IInv, TypeOK
    <3>4. \A j \in Ingesters : gopc[j] # "write"
      <4> SUFFICES ASSUME NEW j \in Ingesters, gopc[j] = "write" PROVE FALSE
        OBVIOUS
      <4>1. result[j] # "none"
        BY DEF IInv, GoroutineProgress
      <4> QED BY <1>9, <3>2, <4>1 DEF IInv, TypeOK
    <3>5. pc \in {"wait", "canceled"}
      BY <1>1, <1>9, <3>2, GoroutineFrame DEF IInv, TypeOK, sendProfiles
    <3> QED BY <1>1, <1>4, <2>1, <3>3, <3>4, <3>5 DEF SingleWriter
  <2> QED BY Zenon, <1>4, <2>2, <2>3
<1>13. (pc = "start")' => FALSE
  BY Zenon, <1>1, GoroutineFrame DEF sendProfiles
<1> QED BY Zenon, <1>2, <1>3, <1>5, <1>6, <1>10, <1>11, <1>12, <1>13 DEF IInv

(* A series has its quorum: the goroutine that makes it the last one       *)
(* writes.                                                                 *)
LEMMA SignalSuccessIInv ==
    ASSUME IInv, NEW i \in Ingesters, SignalSuccess(i)
    PROVE  IInv'
<1>1. PICK c : c = current[i]
  OBVIOUS
<1>2. /\ gopc[i] = "signal" /\ result[i] = "ok"
      /\ samplesPending' = samplesPending - 1
      /\ quorate' = quorate \cup {c}
      /\ gopc' = [gopc EXCEPT ![i] = IF samplesPending' = 0 THEN "write" ELSE "count"]
      /\ UNCHANGED <<pc, request, replicationSet, todo, current, result,
                     succeeded, failed, samplesFailed, done, err, stored>>
  BY Zenon, <1>1 DEF SignalSuccess
<1>3. c \in request /\ c \notin quorate /\ succeeded[c] >= minSuccess(c)
  BY Zenon, <1>1, <1>2 DEF IInv, GoroutineProgress
<1>4. /\ IsFiniteSet(request) /\ IsFiniteSet(quorate')
      /\ Cardinality(quorate') = Cardinality(quorate) + 1
      /\ Cardinality(request) \in Nat /\ Cardinality(quorate) \in Nat
      /\ quorate' \subseteq request
      /\ Cardinality(quorate') <= Cardinality(request)
      /\ Cardinality(request) = Cardinality(quorate') => request = quorate'
  <2>1. IsFiniteSet(request) /\ IsFiniteSet(quorate)
    BY Zenon, Finite DEF IInv
  <2>2. quorate' \subseteq request
    BY <1>2, <1>3 DEF IInv, PendingCounts
  <2>3. IsFiniteSet(quorate') /\ Cardinality(quorate') = Cardinality(quorate) + 1
    BY Zenon, <1>2, <1>3, <2>1, FS_AddElement
  <2>4. Cardinality(request) \in Nat /\ Cardinality(quorate) \in Nat
    BY Zenon, <2>1, FS_CardinalityType
  <2> QED BY Zenon, <2>1, <2>2, <2>3, <2>4, FS_Subset
<1>5. samplesPending = Cardinality(request) - Cardinality(quorate)
  BY Zenon DEF IInv, PendingCounts
<1>6. /\ samplesPending' = Cardinality(request) - Cardinality(quorate')
      /\ samplesPending' \in Nat
      /\ samplesPending' = 0 => Cardinality(request) = Cardinality(quorate')
  <2>1. samplesPending' = samplesPending - 1
    BY Zenon, <1>2
  <2> QED BY ONLY <1>4, <1>5, <2>1
<1>7. TypeOK'
  BY <1>2, <1>3, <1>6 DEF IInv, TypeOK
<1>8. CountersCount'
  <2>1. UNCHANGED <<request, replicationSet, todo, result, succeeded, failed>>
    BY Zenon, <1>2
  <2>2. CountersCount
    BY Zenon DEF IInv
  <2> QED BY Zenon, <2>1, <2>2 DEF CountersCount, Counted
<1>9. PendingCounts'
  <2>1. \A s \in quorate' : succeeded[s] >= minSuccess(s)
    BY Zenon, <1>2, <1>3 DEF IInv, PendingCounts
  <2> QED BY Zenon, <1>2, <1>4, <1>6, <2>1 DEF PendingCounts, minSuccess
<1>10. /\ gopc'[i] \in {"write", "count"}
       /\ gopc'[i] = "write" => quorate' = request
       /\ \A j \in Ingesters \ {i} : gopc'[j] = gopc[j]
  BY <1>2, <1>4, <1>6 DEF IInv, TypeOK
<1>11. ASSUME NEW j \in Ingesters PROVE GoroutineProgress(j)'
  <2>1. GoroutineProgress(j)
    BY Zenon DEF IInv
  <2>2. CASE j = i
    <3>1. gopc'[j] \in {"count", "write"} /\ result[j] = "ok"
      BY Zenon, <1>2, <1>10, <2>2
    <3>2. Assigned(j)' = Assigned(j)
      BY Zenon, <1>2 DEF Assigned
    <3> QED BY <1>2, <2>1, <3>1, <3>2 DEF GoroutineProgress
  <2>3. CASE j # i
    <3>1. gopc'[j] = gopc[j]
      BY Zenon, <1>10, <2>3
    <3>2. gopc[j] = "signal" /\ result[j] = "ok" => current[j] # c
      BY Zenon, <1>1, <1>2, <2>3 DEF IInv, OneSignaller
    <3>3. gopc[j] = "signal" /\ result[j] = "ok" => current[j] \notin quorate'
      BY <1>2, <2>1, <3>2 DEF GoroutineProgress
    <3> QED BY Zenon, <1>2, <2>1, <3>1, <3>3
            DEF GoroutineProgress, Assigned, minSuccess, maxFailures
  <2> QED BY Zenon, <2>2, <2>3
<1>12. OneSignaller'
  <2>1. \A j \in Ingesters : gopc'[j] = "signal" => gopc[j] = "signal"
    BY <1>2, <1>10
  <2> QED BY Zenon, <1>2, <2>1 DEF IInv, OneSignaller
<1>13. /\ ~(done > 0) /\ pc # "ok"
       /\ \A j \in Ingesters : ~(gopc[j] = "write" /\ result[j] = "ok")
  BY Zenon, <1>3 DEF IInv, DoneMeansQuorate
<1>14. DoneMeansQuorate'
  <2>1. (\E j \in Ingesters : gopc'[j] = "write" /\ result'[j] = "ok")
          => quorate' = request /\ request # {}
    BY <1>2, <1>3, <1>10, <1>13
  <2> QED BY Zenon, <1>2, <1>13, <2>1 DEF DoneMeansQuorate
<1>15. ErrMeansFailed'
  <2>1. \A j \in Ingesters : gopc'[j] = "write" /\ result'[j] = "error"
                             => gopc[j] = "write" /\ result[j] = "error"
    BY <1>2, <1>10
  <2> QED BY Zenon, <1>2, <2>1 DEF IInv, ErrMeansFailed, maxFailures
<1>16. SingleWriter'
  <2>1. done = 0
    BY <1>13 DEF IInv, TypeOK
  <2>2. CASE gopc'[i] = "count"
    BY <1>2, <1>10, <2>2 DEF IInv, SingleWriter
  <2>3. CASE gopc'[i] = "write"
    <3>1. \A s \in request : ~(failed[s] > maxFailures(s))
      <4> SUFFICES ASSUME NEW s \in request, failed[s] > maxFailures(s) PROVE FALSE
        OBVIOUS
      <4>1. s \in quorate'
        BY Zenon, <1>10, <2>3
      <4>2. succeeded[s] >= minSuccess(s)
        BY <1>2, <1>3, <4>1 DEF IInv, PendingCounts
      <4> QED BY Zenon, <4>2, Exclusive DEF IInv
    <3>2. request # {}
      BY Zenon, <1>3
    <3>3. /\ ~(err > 0) /\ pc # "error"
          /\ \A j \in Ingesters : ~(gopc[j] = "write" /\ result[j] = "error")
      BY Zenon, <3>1, <3>2 DEF IInv, ErrMeansFailed
    <3>4. err = 0
      BY <3>3 DEF IInv, TypeOK
    <3>5. \A j \in Ingesters : gopc[j] # "write"
      <4> SUFFICES ASSUME NEW j \in Ingesters, gopc[j] = "write" PROVE FALSE
        OBVIOUS
      <4>1. result[j] # "none"
        BY DEF IInv, GoroutineProgress
      <4> QED BY <1>13, <3>3, <4>1 DEF IInv, TypeOK
    <3>6. pc \in {"wait", "canceled"}
      BY <1>13, <3>3, GoroutineFrame DEF IInv, TypeOK, sendProfiles
    <3> QED BY <1>2, <1>10, <2>1, <3>4, <3>5, <3>6 DEF SingleWriter
  <2> QED BY Zenon, <1>10, <2>2, <2>3
<1>17. (pc = "start")' => FALSE
  BY Zenon, <1>2, GoroutineFrame DEF sendProfiles
<1> QED BY Zenon, <1>7, <1>8, <1>9, <1>11, <1>12, <1>14, <1>15, <1>16, <1>17 DEF IInv

(* The value is written to its channel, and a goroutine ends.              *)
LEMMA WriteEndIInv ==
    ASSUME IInv, NEW i \in Ingesters, WriteChannel(i) \/ End(i)
    PROVE  IInv'
<1>1. /\ gopc[i] \in {"write", "count"}
      /\ gopc' = [gopc EXCEPT ![i] = IF gopc[i] = "write" THEN "count" ELSE "idle"]
      /\ UNCHANGED <<pc, request, replicationSet, todo, current, result, succeeded,
                     failed, samplesPending, samplesFailed, stored, quorate>>
  BY DEF WriteChannel, End, counters
<1>2. \/ done' = done /\ err' = err
      \/ gopc[i] = "write" /\ result[i] = "error" /\ err' = err + 1 /\ done' = done
      \/ gopc[i] = "write" /\ result[i] = "ok" /\ done' = done + 1 /\ err' = err
  BY Zenon DEF WriteChannel, End
<1>3. gopc[i] = "write" => /\ done = 0 /\ err = 0
                           /\ pc \in {"wait", "canceled"}
                           /\ \A j \in Ingesters \ {i} : gopc[j] # "write"
  BY Zenon DEF IInv, SingleWriter
<1>4. TypeOK'
  BY <1>1, <1>2, <1>3 DEF IInv, TypeOK
<1>5. CountersCount' /\ PendingCounts'
  BY Zenon, <1>1, CountersKept DEF IInv
<1>6. /\ gopc'[i] \in {"count", "idle"}
      /\ \A j \in Ingesters \ {i} : gopc'[j] = gopc[j]
  BY <1>1 DEF IInv, TypeOK
<1>7. ASSUME NEW j \in Ingesters PROVE GoroutineProgress(j)'
  <2>1. GoroutineProgress(j)
    BY Zenon DEF IInv
  <2>2. /\ UNCHANGED <<request, replicationSet, quorate>>
        /\ todo'[j] = todo[j] /\ result'[j] = result[j] /\ stored'[j] = stored[j]
    BY Zenon, <1>1
  <2>3. CASE j = i
    <3>1. gopc'[j] \in {"idle", "count", "write"} /\ result[j] # "none"
      BY <1>1, <1>6, <2>1, <2>3 DEF GoroutineProgress
    <3> QED BY Zenon, <2>1, <2>2, <3>1, ProgressKept
  <2>4. CASE j # i
    <3>1. gopc'[j] = gopc[j] /\ current'[j] = current[j]
          /\ succeeded' = succeeded /\ failed' = failed
      BY Zenon, <1>1, <1>6, <2>4
    <3> QED BY Zenon, <2>1, <2>2, <3>1, ProgressKept
  <2> QED BY Zenon, <2>3, <2>4
<1>8. \A j \in Ingesters : /\ gopc'[j] = "signal" => gopc[j] = "signal"
                           /\ gopc'[j] = "write" => gopc[j] = "write" /\ j # i
  BY <1>1, <1>6
<1>9. OneSignaller'
  BY Zenon, <1>1, <1>8 DEF IInv, OneSignaller
<1>10. DoneMeansQuorate'
  <2>1. done' > 0 => done > 0 \/ (gopc[i] = "write" /\ result[i] = "ok")
    BY <1>2
  <2> QED BY Zenon, <1>1, <1>8, <2>1 DEF IInv, DoneMeansQuorate
<1>11. ErrMeansFailed'
  <2>1. err' > 0 => err > 0 \/ (gopc[i] = "write" /\ result[i] = "error")
    BY <1>2
  <2> QED BY Zenon, <1>1, <1>8, <2>1 DEF IInv, ErrMeansFailed, maxFailures
<1>12. SingleWriter'
  <2>1. CASE gopc[i] = "write"
    BY <1>1, <1>2, <1>3, <1>8, <2>1 DEF SingleWriter
  <2>2. CASE gopc[i] # "write"
    <3>1. done' = done /\ err' = err
      BY Zenon, <1>2, <2>2
    <3> QED BY <1>1, <1>8, <3>1 DEF IInv, SingleWriter
  <2> QED BY Zenon, <2>1, <2>2
<1>13. (pc = "start")' => FALSE
  BY Zenon, <1>1, GoroutineFrame DEF sendProfiles
<1> QED BY Zenon, <1>4, <1>5, <1>7, <1>9, <1>10, <1>11, <1>12, <1>13 DEF IInv

(* The invariant is about these variables only.                            *)
LEMMA StutterIInv ==
    ASSUME IInv, UNCHANGED vars
    PROVE  IInv'
<1>1. UNCHANGED <<pc, request, replicationSet, gopc, todo, current, result,
                  succeeded, failed, samplesPending, samplesFailed, done, err,
                  stored, quorate>>
  BY DEF vars, goVars, counters
<1>2. TypeOK'
  BY Zenon, <1>1 DEF IInv, TypeOK
<1>3. CountersCount' /\ PendingCounts'
  BY Zenon, <1>1, CountersKept DEF IInv
<1>4. \A i \in Ingesters : GoroutineProgress(i)'
  BY Zenon, <1>1 DEF IInv, GoroutineProgress, Assigned, minSuccess, maxFailures
<1>5. OneSignaller' /\ DoneMeansQuorate' /\ SingleWriter'
  BY Zenon, <1>1 DEF IInv, OneSignaller, DoneMeansQuorate, SingleWriter
<1>6. ErrMeansFailed'
  BY Zenon, <1>1 DEF IInv, ErrMeansFailed, maxFailures
<1> QED BY Zenon, <1>1, <1>2, <1>3, <1>4, <1>5, <1>6 DEF IInv

(* The counters count sets of ingesters, one goroutine signals a series,   *)
(* and a value is written to a channel only when the counters justify it:  *)
(* an invariant of Push and its goroutines for every ring and request.     *)
THEOREM PushInvariant == Spec => []IInv
<1>1. Init => IInv
  BY Zenon, InitIInv
<1>2. IInv /\ [Next]_vars => IInv'
  BY Zenon, PushIInv, SendIInv, CountIInv, SignalFailureIInv, SignalSuccessIInv,
     WriteEndIInv, StutterIInv DEF Next, sendProfiles, Finished
<1> QED BY <1>1, <1>2, PTL DEF Spec

(* Push returns success only when every series of the request is stored by *)
(* as many ingesters of its replication set as the ring asks for.          *)
THEOREM Quorate == Spec => []SuccessIsQuorate
<1>1. ASSUME IInv PROVE SuccessIsQuorate
  <2> SUFFICES ASSUME pc = "ok", NEW s \in request
               PROVE  Cardinality(Holders(s)) >= minSuccess(s)
    BY Zenon DEF SuccessIsQuorate
  <2>1. s \in Series /\ s \in quorate /\ succeeded[s] >= minSuccess(s)
        /\ succeeded[s] = Cardinality(Counted(s, "ok"))
    BY Zenon, <1>1 DEF IInv, TypeOK, DoneMeansQuorate, PendingCounts, CountersCount
  <2>2. /\ replicationSet[s].instances \subseteq Ingesters
        /\ IsFiniteSet(replicationSet[s].instances)
        /\ minSuccess(s) \in Nat /\ Cardinality(Counted(s, "ok")) \in Nat
    BY Zenon, <1>1, <2>1, Finite DEF IInv
  <2>3. Counted(s, "ok") \subseteq Holders(s)
    BY <1>1, <2>2 DEF IInv, Counted, Holders, GoroutineProgress, Assigned
  <2>4. IsFiniteSet(Holders(s))
    <3>1. Holders(s) \subseteq replicationSet[s].instances
      BY Zenon DEF Holders
    <3> QED BY Zenon, <2>2, <3>1, FS_Subset
  <2>5. Cardinality(Counted(s, "ok")) <= Cardinality(Holders(s))
        /\ Cardinality(Holders(s)) \in Nat
    BY Zenon, <2>3, <2>4, FS_Subset, FS_CardinalityType
  <2> QED BY ONLY <2>1, <2>2, <2>5
<1> QED BY <1>1, PushInvariant, PTL

(* A request that was sent is answered with an error only when one of its  *)
(* series can no longer be stored by enough ingesters.                     *)
THEOREM Final == Spec => []ErrorIsFinal
<1>1. ASSUME IInv PROVE ErrorIsFinal
  <2> SUFFICES ASSUME pc = "error", request # {}
               PROVE  \E s \in request : Cardinality(Failures(s)) > maxFailures(s)
    BY Zenon DEF ErrorIsFinal
  <2>1. PICK s \in request : failed[s] > maxFailures(s)
    BY Zenon, <1>1 DEF IInv, ErrMeansFailed
  <2>2. s \in Series /\ failed[s] = Cardinality(Counted(s, "error"))
    BY Zenon, <1>1 DEF IInv, TypeOK, CountersCount
  <2>3. /\ IsFiniteSet(replicationSet[s].instances)
        /\ maxFailures(s) \in Nat /\ Cardinality(Counted(s, "error")) \in Nat
    BY Zenon, <1>1, <2>2, Finite DEF IInv
  <2>4. /\ Counted(s, "error") \subseteq Failures(s)
        /\ Failures(s) \subseteq replicationSet[s].instances
    BY Zenon DEF Counted, Failures
  <2>5. IsFiniteSet(Failures(s))
    BY Zenon, <2>3, <2>4, FS_Subset
  <2>6. Cardinality(Counted(s, "error")) <= Cardinality(Failures(s))
        /\ Cardinality(Failures(s)) \in Nat
    BY Zenon, <2>4, <2>5, FS_Subset, FS_CardinalityType
  <2>7. Cardinality(Failures(s)) > maxFailures(s)
    BY ONLY <2>1, <2>2, <2>3, <2>6
  <2> QED BY Zenon, <2>7
<1> QED BY <1>1, PushInvariant, PTL

(* "only a single sendSamples goroutine will write to either channel": no  *)
(* goroutine ever waits for a reader, and Push never has two answers to    *)
(* choose from.                                                            *)
THEOREM OneWriter == Spec => []SingleWriter
<1>1. IInv => SingleWriter
  BY Zenon DEF IInv
<1> QED BY <1>1, PushInvariant, PTL
=============================================================================

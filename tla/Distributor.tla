---------------------------- MODULE Distributor -----------------------------
(***************************************************************************)
(* One call of Distributor.Push: the series of a request are sent to the   *)
(* ingesters of their replication sets by one goroutine per ingester, and  *)
(* the goroutines count successes and failures with atomic counters until  *)
(* one of them wakes up the waiting call.  Every atomic operation on a     *)
(* counter and every channel operation is a step.                          *)
(*                                                                         *)
(* An ingester that answers with an error, or not before PushTimeout, may  *)
(* have stored any part of what it was sent.                               *)
(***************************************************************************)
EXTENDS Integers, FiniteSets

CONSTANTS
    Ingesters,
    Series,           \* the positions a series can have in a request
    ReplicationSets   \* what ring.Get can return: [instances, maxErrors]

ASSUME SeriesAssumption == Series \subseteq Nat /\ IsFiniteSet(Series)
ASSUME RingAssumption ==
    /\ IsFiniteSet(Ingesters)
    /\ \A r \in ReplicationSets : /\ r.instances \subseteq Ingesters
                                  /\ r.maxErrors \in Nat
                                  /\ r.maxErrors < Cardinality(r.instances)

VARIABLES
    pc,              \* where Push is
    request,         \* the series of the request
    replicationSet,  \* what ring.Get returns for each series
    gopc,            \* where the goroutine of each ingester is
    todo,            \* the trackers of each goroutine it has not counted yet
    current,         \* the tracker each goroutine is at
    result,          \* whether the call of each ingester returned an error
    succeeded,       \* profileTracker.succeeded of each series
    failed,          \* profileTracker.failed of each series
    samplesPending,  \* pushTracker.samplesPending
    samplesFailed,   \* pushTracker.samplesFailed
    done,            \* the number of values in the channel pushTracker.done
    err,             \* the number of values in the channel pushTracker.err
    stored,          \* the series each ingester has stored
    quorate          \* history: the series that decremented samplesPending

goVars == <<gopc, todo, current, result>>
counters == <<succeeded, failed, samplesPending, samplesFailed>>
vars == <<pc, request, replicationSet, goVars, counters, done, err, stored,
          quorate>>

minSuccess(s) ==
    Cardinality(replicationSet[s].instances) - replicationSet[s].maxErrors

maxFailures(s) == replicationSet[s].maxErrors

Init ==
    /\ pc = "start"
    /\ request = {}
    /\ replicationSet \in [Series -> ReplicationSets]
    /\ gopc = [i \in Ingesters |-> "idle"]
    /\ todo = [i \in Ingesters |-> {}]
    /\ current = [i \in Ingesters |-> 0]
    /\ result = [i \in Ingesters |-> "none"]
    /\ succeeded = [s \in Series |-> 0]
    /\ failed = [s \in Series |-> 0]
    /\ samplesPending = 0
    /\ samplesFailed = 0
    /\ done = 0
    /\ err = 0
    /\ stored = [i \in Ingesters |-> {}]
    /\ quorate = {}

----------------------------------------------------------------------------
(* Push                                                                    *)

(* A profile that does not parse, or a series the ring has no replication  *)
(* set for: nothing is sent.                                               *)
Reject ==
    /\ pc = "start"
    /\ pc' = "error"
    /\ UNCHANGED <<request, replicationSet, goVars, counters, done, err, stored,
                   quorate>>

(* The series are grouped by ingester and one goroutine is started for     *)
(* each ingester that has any.                                             *)
FanOut ==
    /\ pc = "start"
    /\ pc' = "wait"
    /\ \E R \in SUBSET Series :
          /\ request' = R
          /\ samplesPending' = Cardinality(R)
          /\ todo' = [i \in Ingesters |->
                        {s \in R : i \in replicationSet[s].instances}]
          /\ gopc' = [i \in Ingesters |->
                        IF \E s \in R : i \in replicationSet[s].instances
                          THEN "send" ELSE "idle"]
    /\ UNCHANGED <<replicationSet, current, result, succeeded, failed,
                   samplesFailed, done, err, stored, quorate>>

(* The select: one of the channels is ready or the caller has gone.        *)
ReturnError ==
    /\ pc = "wait"
    /\ err > 0
    /\ err' = err - 1
    /\ pc' = "error"
    /\ UNCHANGED <<request, replicationSet, goVars, counters, done, stored,
                   quorate>>

ReturnDone ==
    /\ pc = "wait"
    /\ done > 0
    /\ done' = done - 1
    /\ pc' = "ok"
    /\ UNCHANGED <<request, replicationSet, goVars, counters, err, stored,
                   quorate>>

ContextDone ==
    /\ pc = "wait"
    /\ pc' = "canceled"
    /\ UNCHANGED <<request, replicationSet, goVars, counters, done, err, stored,
                   quorate>>

Push == Reject \/ FanOut \/ ReturnError \/ ReturnDone

----------------------------------------------------------------------------
(* sendProfiles                                                            *)

(* sendProfilesErr: the ingester has stored everything, or there is an     *)
(* error.  Its context is not the caller's.                                *)
Send(i) ==
    /\ gopc[i] = "send"
    /\ \/ /\ result' = [result EXCEPT ![i] = "ok"]
          /\ stored' = [stored EXCEPT ![i] = todo[i]]
       \/ /\ result' = [result EXCEPT ![i] = "error"]
          /\ \E S \in SUBSET todo[i] : stored' = [stored EXCEPT ![i] = S]
    /\ gopc' = [gopc EXCEPT ![i] = "count"]
    /\ UNCHANGED <<pc, request, replicationSet, todo, current, counters, done,
                   err, quorate>>

(* The next tracker of the loop, in the order of the request.              *)
NextTracker(i, s) == s \in todo[i] /\ \A t \in todo[i] : s <= t

OneFailureMore(s) == failed'[s] > maxFailures(s) + 1

AtLeastMaxFailures(s) == failed'[s] >= maxFailures(s)

(* failed.Inc() <= maxFailures continues the loop.                         *)
tooManyFailures(s) == failed'[s] > maxFailures(s)

(* failed.Inc()                                                            *)
CountFailure(i) ==
    /\ gopc[i] = "count"
    /\ result[i] = "error"
    /\ \E s \in Series :
          /\ NextTracker(i, s)
          /\ failed' = [failed EXCEPT ![s] = @ + 1]
          /\ gopc' = [gopc EXCEPT ![i] = IF tooManyFailures(s) THEN "signal"
                                         ELSE "count"]
          /\ current' = [current EXCEPT ![i] = s]
          /\ todo' = [todo EXCEPT ![i] = @ \ {s}]
    /\ UNCHANGED <<pc, request, replicationSet, result, succeeded,
                   samplesPending, samplesFailed, done, err, stored, quorate>>

BeforeMinSuccess(s) == succeeded'[s] = minSuccess(s) - 1

(* succeeded.Inc() != minSuccess continues the loop.                       *)
reachedMinSuccess(s) == succeeded'[s] = minSuccess(s)

(* succeeded.Inc()                                                         *)
CountSuccess(i) ==
    /\ gopc[i] = "count"
    /\ result[i] = "ok"
    /\ \E s \in Series :
          /\ NextTracker(i, s)
          /\ succeeded' = [succeeded EXCEPT ![s] = @ + 1]
          /\ gopc' = [gopc EXCEPT ![i] = IF reachedMinSuccess(s) THEN "signal"
                                         ELSE "count"]
          /\ current' = [current EXCEPT ![i] = s]
          /\ todo' = [todo EXCEPT ![i] = @ \ {s}]
    /\ UNCHANGED <<pc, request, replicationSet, result, failed,
                   samplesPending, samplesFailed, done, err, stored, quorate>>

AnyFailure == samplesFailed' >= 1

(* samplesFailed.Inc() == 1                                                *)
firstFailure == samplesFailed' = 1

SignalFailure(i) ==
    /\ gopc[i] = "signal"
    /\ result[i] = "error"
    /\ samplesFailed' = samplesFailed + 1
    /\ gopc' = [gopc EXCEPT ![i] = IF firstFailure THEN "write" ELSE "count"]
    /\ UNCHANGED <<pc, request, replicationSet, todo, current, result,
                   succeeded, failed, samplesPending, done, err, stored,
                   quorate>>

(* samplesPending.Dec() == 0                                               *)
SignalSuccess(i) ==
    /\ gopc[i] = "signal"
    /\ result[i] = "ok"
    /\ samplesPending' = samplesPending - 1
    /\ quorate' = quorate \cup {current[i]}
    /\ gopc' = [gopc EXCEPT ![i] = IF samplesPending' = 0 THEN "write"
                                   ELSE "count"]
    /\ UNCHANGED <<pc, request, replicationSet, todo, current, result,
                   succeeded, failed, samplesFailed, done, err, stored>>

(* The channels have a buffer of one value.                                *)
WriteChannel(i) ==
    /\ gopc[i] = "write"
    /\ \/ result[i] = "error" /\ err < 1 /\ err' = err + 1 /\ UNCHANGED done
       \/ result[i] = "ok" /\ done < 1 /\ done' = done + 1 /\ UNCHANGED err
    /\ gopc' = [gopc EXCEPT ![i] = "count"]
    /\ UNCHANGED <<pc, request, replicationSet, todo, current, result, counters,
                   stored, quorate>>

(* The loop is over and the goroutine ends.                                *)
End(i) ==
    /\ gopc[i] = "count"
    /\ todo[i] = {}
    /\ gopc' = [gopc EXCEPT ![i] = "idle"]
    /\ UNCHANGED <<pc, request, replicationSet, todo, current, result, counters,
                   done, err, stored, quorate>>

sendProfiles(i) ==
    \/ Send(i)
    \/ CountFailure(i)
    \/ CountSuccess(i)
    \/ SignalFailure(i)
    \/ SignalSuccess(i)
    \/ WriteChannel(i)
    \/ End(i)

----------------------------------------------------------------------------
(* Push has returned, and its process goes on.                             *)
Finished == pc \in {"ok", "error", "canceled"} /\ UNCHANGED vars

Next ==
    \/ Push
    \/ ContextDone
    \/ \E i \in Ingesters : sendProfiles(i)
    \/ Finished

Spec == Init /\ [][Next]_vars

(* Goroutines are scheduled, and an ingester's call ends by PushTimeout.   *)
(* The caller's context need not ever be done.                             *)
FairSpec ==
    Spec /\ WF_vars(Push) /\ \A i \in Ingesters : WF_vars(sendProfiles(i))

----------------------------------------------------------------------------
(* Properties                                                              *)

TypeOK ==
    /\ pc \in {"start", "wait", "ok", "error", "canceled"}
    /\ request \in SUBSET Series
    /\ replicationSet \in [Series -> ReplicationSets]
    /\ gopc \in [Ingesters -> {"idle", "send", "count", "signal", "write"}]
    /\ todo \in [Ingesters -> SUBSET Series]
    /\ current \in [Ingesters -> Nat]
    /\ result \in [Ingesters -> {"none", "ok", "error"}]
    /\ succeeded \in [Series -> Nat]
    /\ failed \in [Series -> Nat]
    /\ samplesPending \in Nat
    /\ samplesFailed \in Nat
    /\ done \in 0..1
    /\ err \in 0..1
    /\ stored \in [Ingesters -> SUBSET Series]
    /\ quorate \in SUBSET Series

(* The ingesters of its replication set that have stored series s.         *)
Holders(s) == {i \in replicationSet[s].instances : s \in stored[i]}

(* "The distributor waits for a successful response from n/2 + 1           *)
(* ingesters": when Push returns success, every series of the request is   *)
(* stored by as many ingesters of its replication set as the ring asks     *)
(* for, whatever the order in which the goroutines count.                  *)
SuccessIsQuorate ==
    pc = "ok" => \A s \in request : Cardinality(Holders(s)) >= minSuccess(s)

(* The ingesters whose call for series s failed.                           *)
Failures(s) == {i \in replicationSet[s].instances : result[i] = "error"}

(* A call that was not rejected returns an error only when a series can no *)
(* longer reach its quorum.                                                *)
ErrorIsFinal ==
    pc = "error" /\ request # {} =>
        \E s \in request : Cardinality(Failures(s)) > maxFailures(s)

(* "The use of atomic increments here guarantees only a single sendSamples *)
(* goroutine will write to either channel."  So no goroutine ever blocks   *)
(* on a channel nobody reads any more, and Push never has both to choose   *)
(* from.                                                                   *)
SingleWriter ==
    /\ \A i \in Ingesters :
          gopc[i] = "write" =>
              /\ done = 0 /\ err = 0
              /\ pc \in {"wait", "canceled"}
              /\ \A j \in Ingesters \ {i} : gopc[j] # "write"
    /\ done = 0 \/ err = 0
    /\ pc \in {"ok", "error"} => done = 0 /\ err = 0

(* The trackers of ingester i.                                             *)
Assigned(i) == {s \in request : i \in replicationSet[s].instances}

(* The ingesters that have counted result r for series s.                  *)
Counted(s, r) ==
    {i \in replicationSet[s].instances : result[i] = r /\ s \notin todo[i]}

(* How far the goroutine of ingester i is.                                 *)
GoroutineProgress(i) ==
    /\ todo[i] \subseteq Assigned(i)
    /\ result[i] = "none" => /\ gopc[i] \in {"idle", "send"}
                             /\ todo[i] = Assigned(i)
                             /\ stored[i] = {}
    /\ gopc[i] = "send" => result[i] = "none"
    /\ result[i] = "ok" => stored[i] = Assigned(i)
    /\ gopc[i] = "signal" =>
          /\ current[i] \in request
          /\ result[i] = "ok" => /\ current[i] \notin quorate
                                 /\ succeeded[current[i]] >= minSuccess(current[i])
          /\ result[i] = "error" => failed[current[i]] > maxFailures(current[i])

(* The counters of a series count sets of ingesters.                       *)
CountersCount ==
    \A s \in request : /\ succeeded[s] = Cardinality(Counted(s, "ok"))
                       /\ failed[s] = Cardinality(Counted(s, "error"))

(* The success of a series is signalled by one goroutine.                  *)
OneSignaller ==
    \A i, j \in Ingesters :
        /\ gopc[i] = "signal" /\ gopc[j] = "signal"
        /\ result[i] = "ok" /\ result[j] = "ok"
        /\ current[i] = current[j]
        => i = j

(* samplesPending counts the series that have not signalled success.       *)
PendingCounts ==
    /\ quorate \subseteq request
    /\ \A s \in quorate : succeeded[s] >= minSuccess(s)
    /\ samplesPending = Cardinality(request) - Cardinality(quorate)

(* Success is written once all series have signalled it.                   *)
DoneMeansQuorate ==
    \/ done > 0
    \/ pc = "ok"
    \/ \E i \in Ingesters : gopc[i] = "write" /\ result[i] = "ok"
    => quorate = request /\ request # {}

(* An error is written once a series has too many failures.                *)
ErrMeansFailed ==
    \/ err > 0
    \/ pc = "error" /\ request # {}
    \/ samplesFailed > 0
    \/ \E i \in Ingesters : gopc[i] = "write" /\ result[i] = "error"
    => samplesFailed > 0 /\ \E s \in request : failed[s] > maxFailures(s)

(* The inductive invariant behind the theorems about Push: the counters    *)
(* count sets of ingesters, a series is signalled by one goroutine, and a  *)
(* value is written only when the counters justify it.                     *)
IInv ==
    /\ TypeOK
    /\ pc = "start" => /\ request = {}
                       /\ \A i \in Ingesters :
                             gopc[i] = "idle" /\ result[i] = "none"
                       /\ \A s \in Series : succeeded[s] = 0 /\ failed[s] = 0
    /\ \A i \in Ingesters : GoroutineProgress(i)
    /\ CountersCount
    /\ OneSignaller
    /\ PendingCounts
    /\ DoneMeansQuorate
    /\ ErrMeansFailed
    /\ SingleWriter

(* With a series in it, a request is answered, even if its caller waits    *)
(* forever; and "Use a background context to make sure all ingesters get   *)
(* samples even if we return early": all goroutines run to their end.      *)
PushReturns ==
    /\ (pc = "wait" /\ request # {}) ~> (pc # "wait")
    /\ (pc = "wait") ~> (\A i \in Ingesters : gopc[i] = "idle")
=============================================================================

------------------------------- MODULE Delta --------------------------------
(***************************************************************************)
(* deltaProfiles: the profiles of one cumulative series of a head, in the  *)
(* order in which computeDelta sees them (it holds d.mtx throughout).  A   *)
(* profile brings, for some stacktraces, the total since its process       *)
(* started; what is stored is the difference to the profile before.        *)
(*                                                                         *)
(* Samples are objects that the stored profile and d.highestSamples share, *)
(* so they live in a heap, and both hold their addresses.                  *)
(***************************************************************************)
EXTENDS Integers, Sequences, FiniteSets, Functions, SequencesExt

CONSTANTS
    Stacktraces,  \* stacktrace ids
    MaxValue,     \* bound on the values of the profiles
    MaxProfiles   \* bound on the number of profiles

ASSUME DeltaAssumption ==
    IsFiniteSet(Stacktraces) /\ MaxValue \in Nat /\ MaxProfiles \in Nat

Sample == [stacktrace : Stacktraces, value : 0..MaxValue]

(* The samples of a profile: at least one, and each stacktrace once, since *)
(* the distributor's Normalize has summed up the others.                   *)
SampleSeqs ==
    {s \in BoundedSeq(Sample, Cardinality(Stacktraces)) :
       /\ s # <<>>
       /\ \A i, j \in DOMAIN s : s[i].stacktrace = s[j].stacktrace => i = j}

VARIABLES
    heap,            \* the samples allocated
    known,           \* whether highestSamples has the series
    highestSamples,  \* the addresses highestSamples has for it
    stored,          \* the profiles stored: the addresses of their samples, as a set
    sent             \* history: the profiles ingested, as they were sent

vars == <<heap, known, highestSamples, stored, sent>>

Init ==
    /\ heap = <<>>
    /\ known = FALSE
    /\ highestSamples = <<>>
    /\ stored = <<>>
    /\ sent = <<>>

----------------------------------------------------------------------------
(* The addresses of a profile of n samples just put at the end of heap h.  *)
Addresses(h, n) == [i \in 1..n |-> Len(h) - n + i]

DifferenceOrZero(last, new) == IF last <= new THEN new - last ELSE 0

(* What a sample becomes: the difference, or after a reset its own value.  *)
deltaValue(last, new) == IF last <= new THEN new - last ELSE new

(* What the sample in highestSamples becomes.                              *)
highestValue(last, new) == new

setValue(h, a, v) == [h EXCEPT ![a] = [stacktrace |-> h[a].stacktrace, value |-> v]]

(* One turn of the loop of deltaSamples: the sample at address a, when the *)
(* loop has come to r.  The stacktraces known are those of the samples at  *)
(* highest in the heap h that it started with: its map is not extended.    *)
deltaSample(h, highest, r, a) ==
    LET at == {i \in DOMAIN highest : h[highest[i]].stacktrace = r.heap[a].stacktrace}
        s  == highest[CHOOSE i \in at : \A j \in at : j <= i]
        x  == r.heap[s].value
        y  == r.heap[a].value
    IN  IF at = {}
          THEN [heap |-> r.heap, highest |-> Append(r.highest, a)]
          ELSE [heap |-> setValue(setValue(r.heap, a, deltaValue(x, y)), s, highestValue(x, y)),
                highest |-> r.highest]

(* The loop of deltaSamples over the samples at addresses new: the heap    *)
(* and the highest samples it ends with.                                   *)
deltaSamples(h, highest, new) ==
    LET loop[n \in 0..Len(new)] ==
          IF n = 0 THEN [heap |-> h, highest |-> highest]
          ELSE deltaSample(h, highest, loop[n - 1], new[n])
    IN  loop[Len(new)]

(* "remove samples that are all zero"                                      *)
withoutZeros(h, as) == {a \in Range(as) : h[a].value # 0}

(* computeDelta of a profile with samples ps, and its storing by Ingest.   *)
computeDelta(ps) ==
    LET h  == heap \o ps
        as == Addresses(h, Len(ps))
        r  == deltaSamples(h, highestSamples, as)
    IN
    /\ Len(sent) < MaxProfiles
    /\ sent' = Append(sent, ps)
    /\ \/ /\ ~known
          /\ known' = TRUE
          /\ highestSamples' = as
          /\ heap' = h
          /\ UNCHANGED stored
       \/ /\ known
          /\ highestSamples' = r.highest
          /\ heap' = r.heap
          /\ stored' = Append(stored, withoutZeros(r.heap, as))
          /\ UNCHANGED known

Next == \E ps \in SampleSeqs : computeDelta(ps)

Spec == Init /\ [][Next]_vars

----------------------------------------------------------------------------
(* Properties                                                              *)

TypeOK ==
    /\ heap \in Seq(Sample)
    /\ known \in BOOLEAN
    /\ highestSamples \in Seq(DOMAIN heap)
    /\ stored \in Seq(SUBSET DOMAIN heap)
    /\ sent \in Seq(SampleSeqs)

(* The value of stacktrace st in the profile ps, 0 without a sample.       *)
ValueIn(ps, st) ==
    IF \E s \in Range(ps) : s.stacktrace = st
      THEN (CHOOSE s \in Range(ps) : s.stacktrace = st).value ELSE 0

(* The last value for a stacktrace in the first n of some profiles; 0 if   *)
(* none of them has it.                                                    *)
LastSent(profiles, n, st) ==
    LET with == {m \in 1..n : \E s \in Range(profiles[m]) : s.stacktrace = st}
    IN  IF with = {} THEN 0
        ELSE ValueIn(profiles[CHOOSE m \in with : \A k \in with : k <= m], st)

(* The delta of a stacktrace in the profile sent as number n.              *)
Delta(n, st) ==
    LET last == LastSent(sent, n - 1, st)
        new  == ValueIn(sent[n], st)
    IN  IF last <= new THEN new - last ELSE new

(* The samples of stored profile i, number i + 1 of those sent, are the    *)
(* deltas to what was sent before, without those that are 0.               *)
IsDeltaOf(i) ==
    LET as == stored[i] IN
    /\ Cardinality({heap[a].stacktrace : a \in as}) = Cardinality(as)
    /\ \A st \in Stacktraces :
          LET at == {a \in as : heap[a].stacktrace = st} IN
          IF at = {} THEN \/ Delta(i + 1, st) = 0
                          \/ \A s \in Range(sent[i + 1]) : s.stacktrace # st
          ELSE \A a \in at : heap[a].value = Delta(i + 1, st) /\ heap[a].value # 0

(* The profile that was just stored holds the deltas to what was sent      *)
(* before it, whatever resets and gaps came before.                        *)
StoredAsDelta == stored # <<>> => IsDeltaOf(Len(stored))

(* computeDelta: "we need to compute the delta for each stacktrace."  What *)
(* was stored as the delta of a stacktrace stays the delta.                *)
StoredAreDeltas == \A i \in DOMAIN stored : IsDeltaOf(i)
----------------------------------------------------------------------------
(* The inductive invariant                                                 *)

(* The highest samples have one sample for every stacktrace that was sent, *)
(* with the value last sent for it.                                        *)
HighestAreLast ==
    /\ \A i, j \in DOMAIN highestSamples :
          heap[highestSamples[i]].stacktrace = heap[highestSamples[j]].stacktrace => i = j
    /\ \A i \in DOMAIN highestSamples :
          LET s == heap[highestSamples[i]]
          IN  s.value = LastSent(sent, Len(sent), s.stacktrace)
    /\ \A m \in DOMAIN sent : \A s \in Range(sent[m]) :
          \E i \in DOMAIN highestSamples : heap[highestSamples[i]].stacktrace = s.stacktrace

(* All profiles but the first, which no delta can be computed for, are     *)
(* stored.                                                                 *)
AllButFirstStored ==
    IF known THEN Len(sent) = Len(stored) + 1
    ELSE sent = <<>> /\ stored = <<>> /\ highestSamples = <<>>

IInv ==
    /\ TypeOK
    /\ AllButFirstStored
    /\ HighestAreLast
    /\ StoredAsDelta
=============================================================================

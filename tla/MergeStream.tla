---------------------------- MODULE MergeStream -----------------------------
(***************************************************************************)
(* A query of merged profiles: the querier opens a stream to each          *)
(* ingester, the ingesters send the profiles they have in batches, and the *)
(* querier answers each batch with the profiles to keep, one of the copies *)
(* that the replicas have.  Then each ingester sends the merge of what was *)
(* kept.                                                                   *)
(*                                                                         *)
(* MergeProfilesStacktraces and MergeProfilesLabels have the same          *)
(* protocol.  A profile is its timestamp and labels, by which it is        *)
(* compared: a natural number.  The streams are those of the ingesters     *)
(* whose stream could be opened.                                           *)
(***************************************************************************)
EXTENDS Integers, Sequences, FiniteSets

CONSTANTS
    Ingesters,
    Profiles,      \* profiles, in the order of timestamp and labels
    BatchSize,     \* the batchProfileSize of filterProfiles
    MaxFailures    \* bound: how many streams break

ASSUME MergeStreamAssumption ==
    /\ Profiles \subseteq Nat /\ IsFiniteSet(Profiles)
    /\ BatchSize \in Nat \ {0} /\ MaxFailures \in Nat

VARIABLES
    stores,    \* the profiles in the head and in the blocks of each ingester
    server,    \* each ingester: where it is, its next batch, what was selected
    toClient,  \* responses on their way
    toServer,  \* requests on their way: the kept profiles of a batch
    broken,    \* the streams that failed
    iters,     \* the mergeIterator of each stream
    client,    \* skipDuplicates and the collection of the results
    result     \* how often each profile is in the merged result

vars == <<stores, server, toClient, toServer, broken, iters, client, result>>

-----------------------------------------------------------------------------
(* What an ingester streams *)

Ascending(s) == \A j, k \in DOMAIN s : j < k => s[j] < s[k]
Sorted(S) == CHOOSE s \in [1..Cardinality(S) -> S] : Ascending(s)

(* querierFor: the head comes before the blocks.                           *)
querierFor(st) == <<Sorted(st.head), Sorted(st.blocks)>>

(* ReadBatch cuts the profiles of one store into batches.                  *)
ReadBatch(s) ==
    [k \in 1..((Len(s) + BatchSize - 1) \div BatchSize) |->
        SubSeq(s, (k - 1) * BatchSize + 1, IF k * BatchSize < Len(s) THEN k * BatchSize ELSE Len(s))]

batches(i) == LET q == querierFor(stores[i]) IN ReadBatch(q[1]) \o ReadBatch(q[2])

Held(i) == stores[i].head \cup stores[i].blocks

(* read counts the batches the iterator has received, as a history.        *)
NewMergeIterator ==
    [pc |-> "next", batch |-> <<>>, idx |-> 0, keep |-> {}, keepSent |-> TRUE, err |-> FALSE, read |-> 0]

Init ==
    /\ stores \in [Ingesters -> {st \in [head : SUBSET Profiles, blocks : SUBSET Profiles] :
                                    st.head \cap st.blocks = {}}]
    /\ server = [i \in Ingesters |-> [pc |-> "send", next |-> 1, selection |-> {}]]
    /\ toClient = [i \in Ingesters |-> <<>>]
    /\ toServer = [i \in Ingesters |-> <<>>]
    /\ broken = {}
    /\ iters = [i \in Ingesters |-> NewMergeIterator]
    /\ client = [pc |-> "requeue", heap |-> {}, pending |-> Ingesters, failed |-> FALSE]
    /\ result = [p \in Profiles |-> 0]

-----------------------------------------------------------------------------
(* The ingester *)

ToClient(i, m) == toClient' = [toClient EXCEPT ![i] = Append(@, m)]

(* filterProfiles sends a batch and waits for the selection.               *)
SendBatch(i) ==
    /\ i \notin broken /\ server[i].pc = "send" /\ server[i].next <= Len(batches(i))
    /\ ToClient(i, [type |-> "batch", profiles |-> batches(i)[server[i].next]])
    /\ server' = [server EXCEPT ![i].pc = "select"]
    /\ UNCHANGED <<stores, toServer, broken, iters, client, result>>

selected(b, keep) == {b[k] : k \in keep}

ReceiveSelection(i) ==
    /\ i \notin broken /\ server[i].pc = "select" /\ toServer[i] # <<>>
    /\ server' = [server EXCEPT ![i].pc = "send", ![i].next = @ + 1,
            ![i].selection = @ \cup selected(batches(i)[server[i].next], Head(toServer[i]))]
    /\ toServer' = [toServer EXCEPT ![i] = Tail(@)]
    /\ UNCHANGED <<stores, toClient, broken, iters, client, result>>

(* An empty response ends the profiles; the result follows.                *)
SendEnd(i) ==
    /\ i \notin broken /\ server[i].pc = "send" /\ server[i].next > Len(batches(i))
    /\ ToClient(i, [type |-> "empty"])
    /\ server' = [server EXCEPT ![i].pc = "merge"]
    /\ UNCHANGED <<stores, toServer, broken, iters, client, result>>

SendResult(i) ==
    /\ i \notin broken /\ server[i].pc = "merge"
    /\ ToClient(i, [type |-> "result", profiles |-> server[i].selection])
    /\ server' = [server EXCEPT ![i].pc = "done"]
    /\ UNCHANGED <<stores, toServer, broken, iters, client, result>>

(* A stream breaks: the ingester fails, or the connection.  What is on its *)
(* way is lost or still received.                                          *)
Break(i) ==
    /\ i \notin broken /\ Cardinality(broken) < MaxFailures
    /\ broken' = broken \cup {i}
    /\ \E n \in 0..Len(toClient[i]) : toClient' = [toClient EXCEPT ![i] = SubSeq(@, 1, n)]
    /\ UNCHANGED <<stores, server, toServer, iters, client, result>>

-----------------------------------------------------------------------------
(* The iterators of the querier *)

OffByOne(it) == it.idx < Len(it.batch) - 1

inBatch(it) == it.idx < Len(it.batch)

SentAlready(it) == TRUE

keepSent(it) == it.keepSent

(* Next within a batch, or after it: the selection is sent before the next *)
(* response is read.                                                       *)
Next_(i) ==
    /\ i \in client.pending /\ iters[i].pc = "next"
    /\ IF inBatch(iters[i])
       THEN /\ iters' = [iters EXCEPT ![i].pc = "at", ![i].idx = @ + 1]
            /\ UNCHANGED toServer
       ELSE IF keepSent(iters[i])
       THEN iters' = [iters EXCEPT ![i].pc = "receive"] /\ UNCHANGED toServer
       ELSE IF i \in broken
       THEN iters' = [iters EXCEPT ![i].pc = "end", ![i].err = TRUE] /\ UNCHANGED toServer
       ELSE /\ toServer' = [toServer EXCEPT ![i] = Append(@, iters[i].keep)]
            /\ iters' = [iters EXCEPT ![i].pc = "receive"]
    /\ UNCHANGED <<stores, server, toClient, broken, client, result>>

ReceiveBatch(i) ==
    /\ i \in client.pending /\ iters[i].pc = "receive"
    /\ IF toClient[i] = <<>>
       THEN /\ i \in broken
            /\ iters' = [iters EXCEPT ![i].pc = "end", ![i].err = TRUE]
            /\ UNCHANGED toClient
       ELSE /\ toClient' = [toClient EXCEPT ![i] = Tail(@)]
            /\ iters' = [iters EXCEPT ![i] =
                 IF Head(toClient[i]).type = "batch"
                 THEN [iters[i] EXCEPT !.pc = "at", !.batch = Head(toClient[i]).profiles, !.idx = 1,
                                       !.keep = {}, !.keepSent = FALSE, !.read = iters[i].read + 1]
                 ELSE [iters[i] EXCEPT !.pc = "end"]]
    /\ UNCHANGED <<stores, server, toServer, broken, client, result>>

At(i) == iters[i].batch[iters[i].idx]

-----------------------------------------------------------------------------
(* skipDuplicates *)

(* requeueAsync has called Next on all iterators: the ones that are not    *)
(* done go to the heap, and an error ends the query.  The call of Next for *)
(* a single iterator ignores the error.                                    *)
Requeued ==
    /\ client.pc \in {"requeue", "single"} /\ \A i \in client.pending : iters[i].pc \in {"at", "end"}
    /\ client' =
        IF client.pc = "requeue" /\ \E i \in client.pending : iters[i].err
        THEN [client EXCEPT !.pc = "error", !.pending = {}]
        ELSE [pc |-> "pick", heap |-> client.heap \cup {i \in client.pending : iters[i].pc = "at"},
              pending |-> {}, failed |-> FALSE]
    /\ UNCHANGED <<stores, server, toClient, toServer, broken, iters, result>>

(* The iterators at the least profile of the heap.                         *)
OnlyFirst(heap) == {CHOOSE i \in heap : \A j \in heap : At(i) <= At(j)}

tuples(heap) == {i \in heap : \A j \in heap : At(i) <= At(j)}

(* The first of the iterators that have the same profile keeps it, and all *)
(* of them go on.  With one iterator left everything is kept.              *)
Pick ==
    /\ client.pc = "pick" /\ client.heap # {}
    /\ \E first \in tuples(client.heap) :
        /\ iters' = [i \in Ingesters |->
              IF i \notin tuples(client.heap) THEN iters[i]
              ELSE [iters[i] EXCEPT !.pc = "next",
                      !.keep = IF i = first THEN @ \cup {iters[i].idx} ELSE @]]
    /\ client' = [pc |-> IF Cardinality(client.heap) = 1 THEN "single" ELSE "requeue",
                  heap |-> client.heap \ tuples(client.heap), pending |-> tuples(client.heap),
                  failed |-> FALSE]
    /\ UNCHANGED <<stores, server, toClient, toServer, broken, result>>

(* The results are collected in parallel.  All of them are waited for; an  *)
(* error fails the query.                                                  *)
Collect ==
    /\ client.pc = "pick" /\ client.heap = {}
    /\ client' = [client EXCEPT !.pc = "results", !.pending = Ingesters]
    /\ UNCHANGED <<stores, server, toClient, toServer, broken, iters, result>>

Collected(i, failed) ==
    client' = [client EXCEPT !.pending = @ \ {i}, !.failed = failed,
                  !.pc = IF client.pending # {i} THEN @ ELSE IF failed THEN "error" ELSE "done"]

Result(i) ==
    /\ client.pc = "results" /\ i \in client.pending
    /\ IF toClient[i] # <<>>
       THEN /\ toClient' = [toClient EXCEPT ![i] = Tail(@)]
            /\ result' = [p \in Profiles |-> result[p] + (IF p \in Head(toClient[i]).profiles THEN 1 ELSE 0)]
            /\ Collected(i, client.failed)
       ELSE /\ i \in broken
            /\ Collected(i, TRUE)
            /\ UNCHANGED <<toClient, result>>
    /\ UNCHANGED <<stores, server, toServer, broken, iters>>

-----------------------------------------------------------------------------
Server(i) == SendBatch(i) \/ ReceiveSelection(i) \/ SendEnd(i) \/ SendResult(i)
Client == Requeued \/ Pick \/ Collect \/ \E i \in Ingesters : Next_(i) \/ ReceiveBatch(i) \/ Result(i)

Next == Client \/ \E i \in Ingesters : Server(i) \/ Break(i)

Spec == Init /\ [][Next]_vars

(* Both sides go on as long as they can.                                   *)
FairSpec == Spec /\ WF_vars(Client) /\ \A i \in Ingesters : WF_vars(Server(i))

-----------------------------------------------------------------------------
(* Properties *)

ServerState ==
    [pc : {"send", "select", "merge", "done"}, next : Nat \ {0}, selection : SUBSET Profiles]

IteratorState ==
    [pc : {"next", "receive", "at", "end"}, batch : Seq(Profiles), idx : Nat, keep : SUBSET Nat,
     keepSent : BOOLEAN, err : BOOLEAN, read : Nat]

ClientState ==
    [pc : {"requeue", "single", "pick", "results", "done", "error"},
     heap : SUBSET Ingesters, pending : SUBSET Ingesters, failed : BOOLEAN]

TypeOK ==
    /\ stores \in [Ingesters -> [head : SUBSET Profiles, blocks : SUBSET Profiles]]
    /\ server \in [Ingesters -> ServerState]
    /\ iters \in [Ingesters -> IteratorState]
    /\ DOMAIN toClient = Ingesters /\ DOMAIN toServer = Ingesters
    /\ broken \subseteq Ingesters
    /\ client \in ClientState
    /\ result \in [Profiles -> Nat]

(* A query that succeeds has merged every profile that one of the streams  *)
(* has, at least once, also when streams break: then it fails.             *)
CompleteOrError ==
    client.pc = "done" => \A i \in Ingesters : \A p \in Held(i) : result[p] >= 1

Stream(i) == Sorted(stores[i].head) \o Sorted(stores[i].blocks)

(* When each ingester streams its profiles in order, every profile is      *)
(* merged once, however the replicas hold it and the streams interleave.   *)
OnceWhenInOrder ==
    (\A i \in Ingesters : Ascending(Stream(i))) => \A p \in Profiles : result[p] <= 1

(* Every profile is merged once, whether the ingesters have it in the head *)
(* or in a block.                                                          *)
Once == \A p \in Profiles : result[p] <= 1

(* While the query runs neither side waits for the other for ever.         *)
QueryReturns == <>(client.pc \in {"done", "error"})

-----------------------------------------------------------------------------
(* The inductive invariant *)

(* The messages of stream i.                                               *)
BatchOf(i, m) == [type |-> "batch", profiles |-> batches(i)[m]]
EmptyResponse == [type |-> "empty"]
ResultOf(i) == [type |-> "result", profiles |-> server[i].selection]

(* What an iterator has kept of its batch, and with what was selected      *)
(* before, what its ingester is to merge.                                  *)
Kept(i) == {iters[i].batch[k] : k \in iters[i].keep}
Chosen(i) == server[i].selection \cup Kept(i)

(* How far an iterator is in its batch, and what it has behind it.         *)
Dealt(i) == IF iters[i].pc = "at" THEN iters[i].idx - 1 ELSE iters[i].idx
Behind(i, m, k) == m < iters[i].read \/ (m = iters[i].read /\ k <= Dealt(i))

(* An iterator has the batch it has read last.  It only fails when its     *)
(* stream is broken and nothing is left to receive.                        *)
IteratorIsAtItsBatch(i) ==
    LET it == iters[i]
    IN  /\ it.read \in 0..Len(batches(i))
        /\ it.batch = IF it.read = 0 THEN <<>> ELSE batches(i)[it.read]
        /\ it.keepSent <=> it.read = 0
        /\ it.idx <= Len(it.batch) /\ it.keep \subseteq 1..Dealt(i)
        /\ it.pc = "at" => it.idx >= 1
        /\ (it.pc = "receive" \/ (it.pc = "end" /\ ~it.err)) => it.idx = Len(it.batch)
        /\ it.err => it.pc = "end" /\ i \in broken /\ toClient[i] = <<>>

(* The iterator works on the batch its ingester waits for, and sends the   *)
(* selection when it is through.                                           *)
Selecting(i) ==
    LET it == iters[i]
    IN  /\ it.read = server[i].next /\ server[i].pc = "select" /\ toClient[i] = <<>>
        /\ \/ toServer[i] = <<>> /\ it.pc # "receive"
           \/ toServer[i] = <<it.keep>> /\ it.pc \in {"receive", "end"}
        /\ it.pc = "end" => it.err

(* The ingester has the selections of all batches that were read, and goes *)
(* on to the next batch, to the end and to the result.                     *)
Selected(i) ==
    LET it == iters[i]
    IN  /\ it.read = server[i].next - 1 /\ toServer[i] = <<>> /\ Kept(i) \subseteq server[i].selection
        /\ it.pc # "at" /\ (it.pc = "next" => it.read = 0)
        /\ \/ server[i].pc = "send" /\ toClient[i] = <<>> /\ (it.pc = "end" => it.err)
           \/ /\ server[i].pc = "select" /\ server[i].next <= Len(batches(i)) /\ (it.pc = "end" => it.err)
              /\ toClient[i] = <<BatchOf(i, server[i].next)>> \/ (toClient[i] = <<>> /\ i \in broken)
           \/ /\ server[i].pc = "merge" /\ it.read = Len(batches(i))
              /\ IF it.pc = "end" THEN toClient[i] = <<>>
                 ELSE toClient[i] = <<EmptyResponse>> \/ (toClient[i] = <<>> /\ i \in broken)
           \/ /\ server[i].pc = "done" /\ it.read = Len(batches(i))
              /\ IF it.pc = "end" THEN toClient[i] \in {<<>>, <<ResultOf(i)>>}
                 ELSE \/ toClient[i] = <<EmptyResponse, ResultOf(i)>>
                      \/ toClient[i] \in {<<>>, <<EmptyResponse>>} /\ i \in broken

StreamsInStep == \A i \in Ingesters : IteratorIsAtItsBatch(i) /\ (Selecting(i) \/ Selected(i))

(* The heap has the iterators that are at a profile; the pending ones are  *)
(* on their way to the next, and the others have ended.                    *)
HeapIsComplete ==
    /\ client.pc \in {"requeue", "single", "pick"} =>
          /\ client.heap \cap client.pending = {}
          /\ \A i \in client.heap : iters[i].pc = "at"
          /\ \A i \in Ingesters \ (client.heap \cup client.pending) : iters[i].pc = "end"
    /\ client.pc \in {"pick", "done", "error"} => client.pending = {}
    /\ client.pc \in {"results", "done"} => \A i \in Ingesters : iters[i].pc = "end"
    /\ client.pc = "done" => ~client.failed

(* What an iterator has behind it was chosen at some ingester.             *)
BehindIsChosen ==
    \A i \in Ingesters : \A m \in 1..Len(batches(i)) : \A k \in 1..Len(batches(i)[m]) :
        Behind(i, m, k) => \E f \in Ingesters : batches(i)[m][k] \in Chosen(f)

(* The results that were collected are in the merge.                       *)
CollectedIsMerged ==
    client.pc \in {"results", "done"} /\ ~client.failed =>
        \A i \in Ingesters \ client.pending :
            /\ server[i].pc = "done" /\ ~iters[i].err
            /\ \A p \in server[i].selection : result[p] >= 1

InOrder == \A i \in Ingesters : Ascending(Stream(i))

(* With streams in order what was chosen is less than all that is still to *)
(* come, so it is chosen at one ingester and merged once.                  *)
ChosenOnce ==
    InOrder =>
        /\ \A f, i \in Ingesters : iters[i].pc # "end" =>
              \A m \in 1..Len(batches(i)) : \A k \in 1..Len(batches(i)[m]) :
                ~Behind(i, m, k) => \A p \in Chosen(f) : p < batches(i)[m][k]
        /\ \A f, g \in Ingesters : f # g => Chosen(f) \cap Chosen(g) = {}

MergedOnce ==
    InOrder =>
        \A p \in Profiles :
            /\ result[p] <= 1
            /\ result[p] = 1 =>
                /\ client.pc \in {"results", "done", "error"}
                /\ \E i \in Ingesters \ client.pending : server[i].pc = "done" /\ p \in server[i].selection

IInv ==
    /\ TypeOK /\ StreamsInStep /\ HeapIsComplete /\ BehindIsChosen /\ CollectedIsMerged
    /\ ChosenOnce /\ MergedOnce
=============================================================================

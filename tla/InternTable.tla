---------------------------- MODULE InternTable ----------------------------
(***************************************************************************)
(* What a deduplicated table of the head promises to Head.Ingest, without  *)
(* locks and loops: a value gets one id, the id never changes, and a call  *)
(* returns, for every element of its batch, the id of the element's value. *)
(* Row ids are 0-based positions in the table, as in the source.           *)
(***************************************************************************)
EXTENDS Integers, Sequences

CONSTANTS Ingests,   \* calls of ingest
          Keys,      \* values, as told apart by helper.key
          Batches,   \* batches: sequences of [id, key]
          NoResult   \* the call has not returned

VARIABLES table,     \* the interned values; the id of table[i] is i - 1
          result     \* call -> what it returned: [batch, ids]

avars == <<table, result>>

AInit ==
    /\ table = <<>>
    /\ result = [p \in Ingests |-> NoResult]

(* A new value enters at the end of the table.                             *)
Add(k) ==
    /\ \A i \in 1..Len(table) : table[i] # k
    /\ table' = Append(table, k)
    /\ UNCHANGED result

(* ids names, for every element of batch b, the row that holds its value.  *)
Correct(b, ids) ==
    \A i \in 1..Len(b) :
        /\ b[i].id \in DOMAIN ids
        /\ ids[b[i].id] + 1 \in 1..Len(table)
        /\ table[ids[b[i].id] + 1] = b[i].key

(* A call returns once, with an id for every id of its batch.              *)
Return(p) ==
    /\ result[p] = NoResult
    /\ \E b \in Batches :
       \E ids \in [{b[i].id : i \in 1..Len(b)} -> 0..(Len(table) - 1)] :
          /\ Correct(b, ids)
          /\ result' = [result EXCEPT ![p] = [batch |-> b, ids |-> ids]]
    /\ UNCHANGED table

ANext == (\E k \in Keys : Add(k)) \/ (\E p \in Ingests : Return(p))

ASpec == AInit /\ [][ANext]_avars
=============================================================================

---------------------------- MODULE BlockQuerier ----------------------------
(***************************************************************************)
(* The queriers of the blocks in the local directory of an ingester.  Sync *)
(* lists the blocks, reads their meta.json, exchanges the list of queriers *)
(* under its lock and closes the queriers that are gone afterwards; a      *)
(* query opens a block's files the first time it uses its querier.         *)
(***************************************************************************)
EXTENDS Integers, FiniteSets

CONSTANTS
    ULIDs,          \* the identities of blocks, in the order of their creation
    Profiles,
    MaxMetaErrors   \* bound: how many syncs cannot list or read the metas

ASSUME BlockQuerierAssumption == /\ ULIDs \subseteq Nat \ {0}
                                 /\ IsFiniteSet(ULIDs)
                                 /\ MaxMetaErrors \in Nat

VARIABLES
    local,       \* the blocks in the local directory
    blockRows,   \* the profiles written to each block
    queriers,    \* b.queriers
    created,     \* the number of queriers created for each block
    opened,      \* the queriers with the field opened set
    closed,      \* the queriers whose files were closed
    syncPc,      \* where Sync is
    metas,       \* Sync: observedMetas
    closing,     \* Sync: what is left of querierByULID
    metaErrors   \* the number of syncs that could not list or read the metas

disk == <<local, blockRows>>
syncVars == <<syncPc, metas, closing, metaErrors>>
querierVars == <<queriers, created, opened, closed>>

(* A querier is known by its block and by how many the block had before.   *)
Querier == [block : ULIDs, number : Nat]

QuerierInit ==
    /\ queriers = {}
    /\ created = [u \in ULIDs |-> 0]
    /\ opened = {}
    /\ closed = {}
    /\ syncPc = "idle"
    /\ metas = {}
    /\ closing = {}
    /\ metaErrors = 0

blocksOf(Q) == {q.block : q \in Q}

(* newSingleBlockQuerierFromMeta, for the blocks B.                        *)
newQueriers(B) == {[block |-> u, number |-> created[u] + 1] : u \in B}

(* BlockMetas has listed the directory and read the meta of every block.   *)
BlockMetas == metas' = local /\ UNCHANGED metaErrors

MetaError == metaErrors < MaxMetaErrors /\ metaErrors' = metaErrors + 1

SyncObserve ==
    /\ syncPc = "idle"
    /\ BlockMetas
    /\ syncPc' = "apply"
    /\ UNCHANGED <<disk, querierVars, closing>>

(* The directory cannot be listed: Sync returns the error.                 *)
SyncFails ==
    /\ syncPc = "idle"
    /\ MetaError
    /\ UNCHANGED <<disk, querierVars, syncPc, metas, closing>>

(* A meta.json is not found, cannot be read or is not valid.  The querier  *)
(* was created without a logger, so the goroutine that logs this takes a   *)
(* nil one and panics: the meta is neither generated nor left out.         *)
UnreadableMeta ==
    /\ syncPc = "idle"
    /\ local # {}
    /\ MetaError

(* The queriers that stay in the list.                                     *)
kept == {q \in queriers : q.block \in metas}

EveryQuerier == queriers

(* What is left of querierByULID: the queriers that are gone.              *)
leftOver == queriers \ kept

(* The list is exchanged under the lock.                                   *)
SyncApply ==
    /\ syncPc = "apply"
    /\ LET new == metas \ blocksOf(kept)
       IN  /\ queriers' = kept \cup newQueriers(new)
           /\ created' = [u \in ULIDs |-> IF u \in new THEN created[u] + 1
                                          ELSE created[u]]
    /\ closing' = leftOver
    /\ syncPc' = "close"
    /\ UNCHANGED <<disk, opened, closed, metas, metaErrors>>

(* The queriers left over are closed outside of the lock; the first error  *)
(* ends Sync.                                                              *)
SyncClose ==
    /\ syncPc = "close"
    /\ \E q \in closing :
          /\ closed' = closed \cup {q}
          /\ closing' \in {closing \ {q}, {}}
    /\ UNCHANGED <<disk, queriers, created, opened, syncPc, metas, metaErrors>>

SyncEnd ==
    /\ syncPc = "close"
    /\ closing = {}
    /\ syncPc' = "idle"
    /\ metas' = {}
    /\ UNCHANGED <<disk, querierVars, closing, metaErrors>>

(* open returns an error for a block whose files are gone, unless they     *)
(* were opened before.                                                     *)
canOpen(q) == q \in opened \/ q.block \in local

(* A querier that is opened for the first time can be read, even if it was *)
(* closed before.                                                          *)
open(q) ==
    /\ canOpen(q)
    /\ opened' = opened \cup {q}
    /\ closed' = IF q \in opened THEN closed ELSE closed \ {q}

QuerierTypeOK ==
    /\ local \in SUBSET ULIDs
    /\ blockRows \in [ULIDs -> SUBSET Profiles]
    /\ queriers \in SUBSET Querier /\ opened \in SUBSET Querier
    /\ closed \in SUBSET Querier /\ closing \in SUBSET Querier
    /\ created \in [ULIDs -> Nat]
    /\ syncPc \in {"idle", "apply", "close"}
    /\ metas \in SUBSET ULIDs
    /\ metaErrors \in 0..MaxMetaErrors
=============================================================================

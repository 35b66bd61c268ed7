---------------------------- MODULE ShipperProofs ----------------------------
(***************************************************************************)
(* Proofs about Shipper: a meta.json in the bucket stands for a complete   *)
(* block, and shipper.json lists complete blocks only, for any number of   *)
(* blocks, files, errors, cleanups and crashes.                            *)
(*                                                                         *)
(* The argument is about the one Sync that is past shipperLock.  The block *)
(* it works on had no meta.json in the bucket when it was chosen, so what  *)
(* the upload adds and cleanUp removes belongs to an incomplete block; a   *)
(* complete block is never touched.  An upload of meta.json that failed    *)
(* and appears later breaks this for its block, and only for it.           *)
(***************************************************************************)
EXTENDS Shipper, TLAPS, WellFoundedInduction

(* A set of block numbers that is not empty has a smallest member: the     *)
(* order in which Sync and the cleanup go through the blocks.              *)
LEMMA MinIsMember ==
    ASSUME NEW T, T \subseteq Nat, T # {}
    PROVE  Min(T) \in T
<1> DEFINE R == OpToRel(<, Nat)
<1>1. IsWellFoundedOn(R, Nat)
  BY NatLessThanWellFounded, Zenon
<1>2. \A x \in Nat, y \in Nat : <<y, x>> \notin R => x =< y
  BY DEF OpToRel
<1> HIDE DEF R
<1>3. \E x \in T : \A y \in T : <<y, x>> \notin R
  BY Zenon, <1>1, WFMin
<1>4. \E x \in T : \A y \in T : x =< y
  BY Zenon, <1>2, <1>3
<1> QED
  BY <1>4, Zenon DEF Min

(* The block that Sync takes next is one of those left.                    *)
LEMMA MinIsBlock ==
    ASSUME NEW T, T \subseteq Blocks, T # {}
    PROVE  Min(T) \in T /\ Min(T) \in Blocks
<1>1. Blocks \subseteq Nat
  BY ShipperAssumption DEF Blocks
<1> QED
  BY Zenon, <1>1, MinIsMember

-----------------------------------------------------------------------------
(* Steps of one Sync *)

(* A step of a Sync replaces its own state.                                *)
LEMMA Becomes ==
    ASSUME sync \in [Runners -> SyncState], NEW g \in Runners, NEW s \in SyncState, Become(g, s)
    PROVE  /\ sync' \in [Runners -> SyncState] /\ sync'[g] = s
           /\ \A h \in Runners : h # g => sync'[h] = sync[h]
BY DEF Become

(* What a step of the Sync that holds shipperLock must show: no complete   *)
(* block loses an object, meta.json comes last, and what it lists or works *)
(* on is as the invariant says.  The other Sync waits.                     *)
LEMMA HolderStep ==
    ASSUME IInv, NEW g \in Runners, NEW s \in SyncState, Become(g, s),
           \A h \in Runners : h # g => sync[h].pc \in Waiting,
           unsure \subseteq unsure', late' \subseteq unsure',
           \A b \in Blocks \ unsure' : bucket[b] = Objects => bucket'[b] = Objects,
           MetaMeansCompleteUnlessLate',
           s.pc \in Uploading =>
               s.block \in Blocks /\ (s.block \in unsure' \/ "meta.json" \notin bucket'[s.block]),
           s.pc = "files" => Files \ s.left \subseteq bucket'[s.block],
           \A b \in (json'.uploaded \cup s.uploaded \cup s.has) \ unsure' : bucket'[b] = Objects
    PROVE  BucketIsSafe'
<1>1. /\ sync' \in [Runners -> SyncState] /\ sync'[g] = s
      /\ \A h \in Runners : h # g => sync'[h] = sync[h]
  BY Becomes DEF IInv, TypeOK
<1>2. \A h \in Runners : h # g => sync'[h].pc \in Waiting
  BY <1>1
<1>3. OneSyncAtATime'
  BY <1>2 DEF OneSyncAtATime
<1>4. \A p \in Waiting : p \notin Uploading /\ p # "files"
  BY DEF Waiting, Uploading
<1>5. UploadingIsNotThere'
  BY <1>1, <1>2, <1>4 DEF UploadingIsNotThere
<1>6. SentIsThere'
  BY <1>1, <1>2, <1>4 DEF SentIsThere
<1>7. ASSUME NEW h \in Runners, NEW b \in (sync'[h].uploaded \cup sync'[h].has) \ unsure'
      PROVE  bucket'[b] = Objects
  <2>1. CASE h = g
    BY <2>1, <1>1, <1>7
  <2>2. CASE h # g
    <3>1. b \in (sync[h].uploaded \cup sync[h].has) \ unsure
      BY <2>2, <1>1, <1>7
    <3>2. b \in Blocks
      BY <3>1 DEF IInv, TypeOK, SyncState
    <3>3. bucket[b] = Objects
      BY <3>1 DEF IInv, BucketIsSafe, ListedAreComplete, Complete
    <3> QED
      BY <3>2, <3>3, <1>7
  <2> QED
    BY <2>1, <2>2
<1>8. ListedAreComplete'
  BY <1>7 DEF ListedAreComplete, Complete, Objects
<1> QED
  BY <1>3, <1>5, <1>6, <1>8 DEF BucketIsSafe

(* A Sync that is past shipperLock is the only one.                        *)
LEMMA OnlyHolder ==
    ASSUME IInv, NEW g \in Runners, sync[g].pc \notin Waiting
    PROVE  \A h \in Runners : h # g => sync[h].pc \in Waiting
BY DEF IInv, BucketIsSafe, OneSyncAtATime

(* The same when the step leaves the bucket alone.                         *)
LEMMA LocalStep ==
    ASSUME IInv, NEW g \in Runners, NEW s \in SyncState, Become(g, s),
           \A h \in Runners : h # g => sync[h].pc \in Waiting,
           UNCHANGED bucket, unsure \subseteq unsure', late' \subseteq unsure',
           s.pc \in Uploading =>
               s.block \in Blocks /\ (s.block \in unsure \/ "meta.json" \notin bucket[s.block]),
           s.pc = "files" => Files \ s.left \subseteq bucket[s.block],
           \A b \in (json'.uploaded \cup s.uploaded \cup s.has) \ unsure : bucket[b] = Objects
    PROVE  BucketIsSafe'
<1>1. MetaMeansCompleteUnlessLate'
  BY DEF IInv, BucketIsSafe, MetaMeansCompleteUnlessLate, Blocks
<1> QED
  BY <1>1, HolderStep

(* A Sync that does not hold the lock, or gives it up, may change place    *)
(* while the other one works.                                              *)
LEMMA WaitingStep ==
    ASSUME IInv, NEW g \in Runners, NEW s \in SyncState, Become(g, s),
           UNCHANGED <<bucketVars, json>>,
           s.pc \in Waiting, s.uploaded \subseteq sync[g].uploaded, s.has \subseteq sync[g].has
    PROVE  BucketIsSafe'
<1>1. /\ sync' \in [Runners -> SyncState] /\ sync'[g] = s
      /\ \A h \in Runners : h # g => sync'[h] = sync[h]
  BY Becomes DEF IInv, TypeOK
<1>2. s.pc \notin Uploading /\ s.pc # "files"
  BY DEF Waiting, Uploading
<1>3. UNCHANGED <<bucket, late, unsure, json>>
  BY DEF bucketVars
<1>4. OneSyncAtATime'
  BY <1>1 DEF IInv, BucketIsSafe, OneSyncAtATime
<1>5. UploadingIsNotThere'
  BY <1>1, <1>2, <1>3 DEF IInv, BucketIsSafe, UploadingIsNotThere, Blocks
<1>6. SentIsThere'
  BY <1>1, <1>2, <1>3 DEF IInv, BucketIsSafe, SentIsThere
<1>7. ListedAreComplete'
  BY <1>1, <1>3 DEF IInv, BucketIsSafe, ListedAreComplete, Complete, Objects
<1>8. MetaMeansCompleteUnlessLate' /\ late' \subseteq unsure'
  BY <1>3 DEF IInv, BucketIsSafe, MetaMeansCompleteUnlessLate, Blocks
<1> QED
  BY <1>4, <1>5, <1>6, <1>7, <1>8 DEF BucketIsSafe

(* Nothing that the invariant is about changes.                            *)
LEMMA QuietStep ==
    ASSUME IInv, UNCHANGED <<bucketVars, json, sync>>
    PROVE  BucketIsSafe'
BY DEF IInv, BucketIsSafe, bucketVars, OneSyncAtATime, UploadingIsNotThere, SentIsThere,
       ListedAreComplete, MetaMeansCompleteUnlessLate, Complete, Objects, Blocks
-----------------------------------------------------------------------------
(* Types *)

(* What runShipper and Sync do to the state of a Sync keeps its type.      *)
LEMMA SyncTypes ==
    ASSUME NEW s \in SyncState
    PROVE  /\ \A p \in {"lock", "read", "next", "open", "cleanMeta", "cleanFiles", "remove",
                        "rename", "unlock"} : [s EXCEPT !.pc = p] \in SyncState
           /\ \A b \in Blocks, u \in BOOLEAN : AfterBlock(s, b, u) \in SyncState
           /\ \A b \in Blocks : [s EXCEPT !.pc = "write", !.block = b] \in SyncState
           /\ [s EXCEPT !.pc = "files", !.left = Files] \in SyncState
           /\ \A f \in Files : [s EXCEPT !.left = @ \ {f}] \in SyncState
           /\ \A T \in SUBSET Blocks : [s EXCEPT !.pc = "metas", !.todo = T] \in SyncState
           /\ \A T \in SUBSET Blocks :
                [s EXCEPT !.pc = "list", !.uploaded = {}, !.has = T] \in SyncState
<1>1. \A p \in {"lock", "read", "next", "open", "cleanMeta", "cleanFiles", "remove",
                "rename", "unlock"} : [s EXCEPT !.pc = p] \in SyncState
  BY DEF SyncState, Waiting, Uploading
<1>2. ASSUME NEW b \in Blocks, NEW u \in BOOLEAN
      PROVE  AfterBlock(s, b, u) \in SyncState
  <2>1. CASE u
    BY Zenon, <2>1 DEF SyncState, AfterBlock
  <2>2. CASE ~u
    BY Zenon, <2>2 DEF SyncState, AfterBlock
  <2> QED
    BY <2>1, <2>2
<1>3. ASSUME NEW b \in Blocks
      PROVE  [s EXCEPT !.pc = "write", !.block = b] \in SyncState
  <2>1. b \in 0..N
    BY ShipperAssumption DEF Blocks
  <2> QED
    BY Zenon, <2>1 DEF SyncState, Uploading
<1>4. [s EXCEPT !.pc = "files", !.left = Files] \in SyncState
  BY Zenon DEF SyncState, Uploading
<1>5. \A f \in Files : [s EXCEPT !.left = @ \ {f}] \in SyncState
  BY DEF SyncState
<1>6. \A T \in SUBSET Blocks : [s EXCEPT !.pc = "metas", !.todo = T] \in SyncState
  BY Zenon DEF SyncState
<1>7. \A T \in SUBSET Blocks :
        [s EXCEPT !.pc = "list", !.uploaded = {}, !.has = T] \in SyncState
  BY Zenon DEF SyncState
<1> QED
  BY Zenon, <1>1, <1>2, <1>3, <1>4, <1>5, <1>6, <1>7

(* A runner that does nothing has a state of a Sync.                       *)
LEMMA NoSyncType == NoSync \in SyncState
BY ShipperAssumption DEF NoSync, SyncState, Waiting

(* Where the parts of the type invariant stay as they are.                 *)
LEMMA TypeKept ==
    ASSUME TypeOK
    PROVE  /\ UNCHANGED diskVars => DiskTypeOK'
           /\ UNCHANGED bucketVars => BucketTypeOK'
           /\ UNCHANGED instVars /\ crashes' = crashes /\ errors' \in 0..MaxErrors
                => InstanceTypeOK'
<1>1. UNCHANGED diskVars => DiskTypeOK'
  BY DEF TypeOK, DiskTypeOK, diskVars, Blocks, Objects
<1>2. UNCHANGED bucketVars => BucketTypeOK'
  BY DEF TypeOK, BucketTypeOK, bucketVars, Blocks, Objects
<1>3. UNCHANGED instVars /\ crashes' = crashes /\ errors' \in 0..MaxErrors => InstanceTypeOK'
  BY DEF TypeOK, InstanceTypeOK, instVars
<1> QED
  BY <1>1, <1>2, <1>3

(* The errors that are counted.                                            *)
LEMMA ErrorsCount ==
    ASSUME TypeOK, NEW g
    PROVE  /\ Fail(g) => errors' \in 0..MaxErrors
           /\ Error => errors' \in 0..MaxErrors
           /\ UNCHANGED errors => errors' \in 0..MaxErrors
BY ShipperAssumption DEF TypeOK, InstanceTypeOK, Fail, Error

(* Sync does not change the instance, and its errors are within bounds.    *)
LEMMA SyncInstance ==
    ASSUME TypeOK, NEW g \in Runners, Sync(g)
    PROVE  InstanceTypeOK'
<1>1. UNCHANGED instVars /\ crashes' = crashes
  BY Zenon DEF Sync, Lock, ReadMetaFile, Iter, BlockMetas, NextBlock, WriteToFile, ReadFromDir,
         UploadFile, UploadMeta, CleanUpMeta, CleanUpFiles, WriteMetaFile
<1>2. Fail(g) \/ Error \/ UNCHANGED errors
  BY Zenon DEF Sync, Lock, ReadMetaFile, Iter, BlockMetas, NextBlock, WriteToFile, ReadFromDir,
         UploadFile, UploadMeta, CleanUpMeta, CleanUpFiles, WriteMetaFile
<1> QED
  BY <1>1, <1>2, ErrorsCount, TypeKept

(* A step of the one Sync that leaves the bucket alone and goes to a place *)
(* where it uploads nothing, having listed complete blocks only.           *)
LEMMA MovesOn ==
    ASSUME IInv, NEW g \in Runners, NEW s \in SyncState, Become(g, s),
           \A h \in Runners : h # g => sync[h].pc \in Waiting,
           UNCHANGED bucket, unsure \subseteq unsure', late' \subseteq unsure',
           s.pc \notin Uploading,
           json'.uploaded \subseteq json.uploaded \cup sync[g].uploaded,
           \A b \in (s.uploaded \cup s.has) \ unsure :
               b \notin json.uploaded \cup sync[g].uploaded \cup sync[g].has => Complete(b)
    PROVE  BucketIsSafe' /\ sync' \in [Runners -> SyncState]
<1>1. \A b \in (json'.uploaded \cup s.uploaded \cup s.has) \ unsure : bucket[b] = Objects
  BY DEF IInv, BucketIsSafe, ListedAreComplete, Complete
<1>2. s.pc # "files"
  BY DEF Uploading
<1> QED
  BY <1>1, <1>2, LocalStep, Becomes DEF IInv, TypeOK

(* Giving up, and every other change of place without an upload.           *)
LEMMA GoesTo ==
    ASSUME IInv, NEW g \in Runners,
           NEW p \in {"read", "next", "remove", "rename", "unlock"}, Goto(g, p),
           \A h \in Runners : h # g => sync[h].pc \in Waiting,
           UNCHANGED bucket, unsure \subseteq unsure', late' \subseteq unsure',
           json'.uploaded \subseteq json.uploaded \cup sync[g].uploaded
    PROVE  BucketIsSafe' /\ sync' \in [Runners -> SyncState]
<1> DEFINE s == [sync[g] EXCEPT !.pc = p]
<1>1. sync[g] \in SyncState
  BY DEF IInv, TypeOK
<1>2. s \in SyncState /\ Become(g, s)
  BY Zenon, <1>1, SyncTypes DEF Goto
<1>3. s.pc = p /\ s.uploaded = sync[g].uploaded /\ s.has = sync[g].has
  BY <1>1 DEF SyncState
<1>4. s.pc \notin Uploading
  BY <1>3 DEF Uploading
<1> HIDE DEF s
<1> QED
  BY <1>2, <1>3, <1>4, MovesOn

-----------------------------------------------------------------------------
(* One lemma per action *)

(* Sync starts under shipperLock.                                          *)
LEMMA LockIInv ==
    ASSUME IInv, NEW g \in Runners, Lock(g)
    PROVE  IInv'
<1>1. \A h \in Runners : h # g => sync[h].pc \in Waiting
  BY DEF Lock, shipperLock, Waiting
<1>2. Goto(g, "read") /\ UNCHANGED <<diskVars, bucketVars, bucket, late, unsure, json>>
  BY DEF Lock, bucketVars
<1>3. late \subseteq unsure
  BY DEF IInv, BucketIsSafe
<1>4. BucketIsSafe' /\ sync' \in [Runners -> SyncState]
  BY <1>1, <1>2, <1>3, GoesTo
<1>5. InstanceTypeOK'
  BY SyncInstance DEF IInv, Sync
<1> QED
  BY <1>2, <1>4, <1>5, TypeKept DEF IInv, TypeOK

(* ReadMetaFile takes over what shipper.json lists.                        *)
LEMMA ReadMetaFileIInv ==
    ASSUME IInv, NEW g \in Runners, ReadMetaFile(g)
    PROVE  IInv'
<1> DEFINE T == IF json.present THEN json.uploaded ELSE {}
           s == [sync[g] EXCEPT !.pc = "list", !.uploaded = {}, !.has = T]
<1>1. sync[g] \in SyncState /\ json.uploaded \subseteq Blocks /\ sync[g].pc = "read"
  BY DEF IInv, TypeOK, ReadMetaFile, At
<1>2. T \in SUBSET Blocks /\ T \subseteq json.uploaded
  BY <1>1
<1>3. Become(g, s)
  BY DEF ReadMetaFile
<1> HIDE DEF T
<1>4. s \in SyncState
  BY Zenon, <1>1, <1>2, SyncTypes
<1>5. s.pc = "list" /\ s.uploaded = {} /\ s.has = T
  BY <1>1 DEF SyncState
<1>6. \A h \in Runners : h # g => sync[h].pc \in Waiting
  BY <1>1, OnlyHolder DEF Waiting
<1>7. UNCHANGED <<diskVars, bucketVars, bucket, late, unsure, json>> /\ late \subseteq unsure
  BY DEF ReadMetaFile, bucketVars, IInv, BucketIsSafe
<1>8. s.pc \notin Uploading
  BY <1>5 DEF Uploading
<1> HIDE DEF s
<1>9. BucketIsSafe' /\ sync' \in [Runners -> SyncState]
  BY <1>2, <1>3, <1>4, <1>5, <1>6, <1>7, <1>8, MovesOn
<1>10. InstanceTypeOK'
  BY SyncInstance DEF IInv, Sync
<1> QED
  BY <1>7, <1>9, <1>10, TypeKept DEF IInv, TypeOK

(* The blocks to look at are directories.                                  *)
LEMMA IterIInv ==
    ASSUME IInv, NEW g \in Runners, Iter(g)
    PROVE  IInv'
<1> DEFINE s == [sync[g] EXCEPT !.pc = "metas", !.todo = listed]
<1>1. sync[g] \in SyncState /\ sync[g].pc = "list" /\ listed \in SUBSET Blocks
  BY DEF IInv, TypeOK, DiskTypeOK, Iter, At, listed
<1>2. Become(g, s) \/ Goto(g, "unlock")
  BY Zenon DEF Iter
<1>3. s \in SyncState
  BY Zenon, <1>1, SyncTypes
<1>4. s.pc = "metas" /\ s.uploaded = sync[g].uploaded /\ s.has = sync[g].has
  BY <1>1 DEF SyncState
<1>5. \A h \in Runners : h # g => sync[h].pc \in Waiting
  BY <1>1, OnlyHolder DEF Waiting
<1>6. UNCHANGED <<diskVars, bucketVars, bucket, late, unsure, json>> /\ late \subseteq unsure
  BY DEF Iter, bucketVars, IInv, BucketIsSafe
<1>7. s.pc \notin Uploading
  BY <1>4 DEF Uploading
<1> HIDE DEF s
<1>8. BucketIsSafe' /\ sync' \in [Runners -> SyncState]
  <2>1. CASE Become(g, s)
    BY <2>1, <1>3, <1>4, <1>5, <1>6, <1>7, MovesOn
  <2>2. CASE Goto(g, "unlock")
    BY <2>2, <1>5, <1>6, GoesTo
  <2> QED
    BY <1>2, <2>1, <2>2
<1>9. InstanceTypeOK'
  BY SyncInstance DEF IInv, Sync
<1> QED
  BY <1>6, <1>8, <1>9, TypeKept DEF IInv, TypeOK

(* Their metas have been read.                                             *)
LEMMA BlockMetasIInv ==
    ASSUME IInv, NEW g \in Runners, BlockMetas(g)
    PROVE  IInv'
<1>1. sync[g].pc = "metas" /\ Goto(g, "next")
  BY Zenon DEF BlockMetas, At
<1>2. \A h \in Runners : h # g => sync[h].pc \in Waiting
  BY <1>1, OnlyHolder DEF Waiting
<1>3. UNCHANGED <<diskVars, bucketVars, bucket, late, unsure, json>> /\ late \subseteq unsure
  BY DEF BlockMetas, bucketVars, IInv, BucketIsSafe
<1>4. BucketIsSafe' /\ sync' \in [Runners -> SyncState]
  BY <1>1, <1>2, <1>3, GoesTo
<1>5. InstanceTypeOK'
  BY SyncInstance DEF IInv, Sync
<1> QED
  BY <1>3, <1>4, <1>5, TypeKept DEF IInv, TypeOK

(* NextBlock skips a block that was listed or is in the bucket, and starts *)
(* the upload of one that has no meta.json there.                          *)
LEMMA NextBlockIInv ==
    ASSUME IInv, NEW g \in Runners, NextBlock(g)
    PROVE  IInv'
<1> DEFINE b == Min(sync[g].todo)
           r == sync[g]
<1>1. /\ r \in SyncState /\ r.pc = "next" /\ r.todo # {}
      /\ UNCHANGED <<diskVars, bucketVars, json>>
  BY DEF IInv, TypeOK, NextBlock, At
<1>2. b \in Blocks
  BY <1>1, MinIsBlock DEF SyncState
<1>3. \A h \in Runners : h # g => sync[h].pc \in Waiting
  BY <1>1, OnlyHolder DEF Waiting
<1>4. UNCHANGED <<bucket, late, unsure>> /\ late \subseteq unsure
  BY <1>1 DEF bucketVars, IInv, BucketIsSafe
<1>5. ASSUME NEW u \in BOOLEAN, Become(g, AfterBlock(r, b, u)),
             u => b \in unsure \/ Complete(b)
      PROVE  BucketIsSafe' /\ sync' \in [Runners -> SyncState]
  <2> DEFINE s == AfterBlock(r, b, u)
  <2> HIDE DEF b
  <2>1. s \in SyncState
    BY Zenon, <1>1, <1>2, SyncTypes
  <2>2. s.pc = "next" /\ s.has = r.has /\ s.uploaded = IF u THEN r.uploaded \cup {b} ELSE r.uploaded
    BY <1>1 DEF AfterBlock, SyncState
  <2>3. s.pc \notin Uploading
    BY <2>2 DEF Uploading
  <2> HIDE DEF s
  <2>4. \A c \in (s.uploaded \cup s.has) \ unsure :
            c \notin json.uploaded \cup r.uploaded \cup r.has => Complete(c)
    BY <2>2, <1>5
  <2> QED
    BY <2>1, <2>3, <2>4, <1>1, <1>3, <1>4, <1>5, MovesOn DEF s
<1>6. ASSUME Become(g, [r EXCEPT !.pc = "write", !.block = b]), ~Exists(b)
      PROVE  BucketIsSafe' /\ sync' \in [Runners -> SyncState]
  <2> DEFINE s == [r EXCEPT !.pc = "write", !.block = b]
  <2> HIDE DEF b
  <2>1. s \in SyncState
    BY Zenon, <1>1, <1>2, SyncTypes
  <2>2. s.pc = "write" /\ s.has = r.has /\ s.uploaded = r.uploaded /\ s.block = b
    BY <1>1 DEF SyncState
  <2> HIDE DEF s
  <2>3. s.pc \in Uploading => s.block \in Blocks /\ "meta.json" \notin bucket[s.block]
    BY <2>2, <1>2, <1>6 DEF Exists
  <2>4. \A c \in (json'.uploaded \cup s.uploaded \cup s.has) \ unsure : bucket[c] = Objects
    BY <2>2, <1>1 DEF IInv, BucketIsSafe, ListedAreComplete, Complete
  <2>5. BucketIsSafe'
    BY Zenon, <2>1, <2>2, <2>3, <2>4, <1>3, <1>4, <1>6, LocalStep DEF s
  <2> QED
    BY <2>1, <2>5, <1>6, Becomes DEF s, IInv, TypeOK
<1>7. BucketIsSafe' /\ sync' \in [Runners -> SyncState]
  <2>1. CASE (b \in r.has \/ b \in Compacted) /\ Become(g, AfterBlock(r, b, b \in r.has))
    <3>1. b \in r.has => b \in unsure \/ Complete(b)
      BY DEF IInv, BucketIsSafe, ListedAreComplete
    <3> HIDE DEF b
    <3>2. (b \in r.has) \in BOOLEAN
      OBVIOUS
    <3> QED
      BY Zenon, <2>1, <3>1, <3>2, <1>5
  <2>2. CASE Exists(b) /\ Become(g, AfterBlock(r, b, TRUE))
    <3>1. b \in unsure \/ Complete(b)
      <4> HIDE DEF b
      <4>1. bucket[b] \subseteq Objects
        BY <1>2 DEF IInv, TypeOK, BucketTypeOK
      <4>2. b \notin unsure => Files \subseteq bucket[b]
        BY <2>2, <1>2 DEF IInv, BucketIsSafe, MetaMeansCompleteUnlessLate, Exists
      <4> QED
        BY <2>2, <4>1, <4>2 DEF Exists, Complete, Objects
    <3> QED
      BY Zenon, <2>2, <3>1, <1>5
  <2>3. CASE ~Exists(b) /\ Become(g, [r EXCEPT !.pc = "write", !.block = b])
    BY <2>3, <1>6
  <2>4. CASE Goto(g, "unlock")
    BY <2>4, <1>1, <1>3, <1>4, GoesTo
  <2> QED
    BY Zenon, <2>1, <2>2, <2>3, <2>4 DEF NextBlock
<1>8. InstanceTypeOK'
  BY SyncInstance DEF IInv, Sync
<1> QED
  BY <1>1, <1>7, <1>8, TypeKept DEF IInv, TypeOK

(* meta.json is written to the directory of the block to upload.           *)
LEMMA WriteToFileIInv ==
    ASSUME IInv, NEW g \in Runners, WriteToFile(g)
    PROVE  IInv'
<1> DEFINE s == [sync[g] EXCEPT !.pc = "open"]
<1>1. sync[g] \in SyncState /\ sync[g].pc = "write" /\ UNCHANGED <<bucketVars, json>>
  BY DEF IInv, TypeOK, WriteToFile, At
<1>2. \A h \in Runners : h # g => sync[h].pc \in Waiting
  BY <1>1, OnlyHolder DEF Waiting
<1>3. UNCHANGED <<bucket, late, unsure>> /\ late \subseteq unsure
  BY <1>1 DEF bucketVars, IInv, BucketIsSafe
<1>4. /\ sync[g].block \in Blocks
      /\ sync[g].block \in unsure \/ "meta.json" \notin bucket[sync[g].block]
  BY <1>1 DEF IInv, BucketIsSafe, UploadingIsNotThere, Uploading
<1>5. DiskTypeOK'
  BY <1>4 DEF WriteToFile, IInv, TypeOK, DiskTypeOK, Objects
<1>6. CASE Goto(g, "unlock")
  <2>1. BucketIsSafe' /\ sync' \in [Runners -> SyncState]
    BY <1>1, <1>2, <1>3, <1>6, GoesTo
  <2>2. InstanceTypeOK' /\ BucketTypeOK'
    BY <1>1, SyncInstance, TypeKept DEF IInv, Sync
  <2> QED
    BY <1>1, <1>5, <2>1, <2>2 DEF IInv, TypeOK
<1>7. CASE Goto(g, "open")
  <2>1. s \in SyncState /\ Become(g, s)
    BY Zenon, <1>1, <1>7, SyncTypes DEF Goto
  <2>2. /\ s.pc = "open" /\ s.has = sync[g].has /\ s.uploaded = sync[g].uploaded
        /\ s.block = sync[g].block
    BY <1>1 DEF SyncState
  <2> HIDE DEF s
  <2>3. \A c \in (json'.uploaded \cup s.uploaded \cup s.has) \ unsure : bucket[c] = Objects
    BY <2>2, <1>1 DEF IInv, BucketIsSafe, ListedAreComplete, Complete
  <2>4. BucketIsSafe' /\ sync' \in [Runners -> SyncState]
    BY <2>1, <2>2, <2>3, <1>2, <1>3, <1>4, LocalStep, Becomes DEF IInv, TypeOK
  <2>5. InstanceTypeOK' /\ BucketTypeOK'
    BY <1>1, SyncInstance, TypeKept DEF IInv, Sync
  <2> QED
    BY <1>1, <1>5, <2>4, <2>5 DEF IInv, TypeOK
<1> QED
  BY <1>6, <1>7 DEF WriteToFile
(* The upload starts with all files, or not at all.                        *)
LEMMA ReadFromDirIInv ==
    ASSUME IInv, NEW g \in Runners, ReadFromDir(g)
    PROVE  IInv'
<1> DEFINE s == [sync[g] EXCEPT !.pc = "files", !.left = Files]
<1>1. sync[g] \in SyncState /\ sync[g].pc = "open" /\ UNCHANGED <<diskVars, bucketVars, json>>
  BY DEF IInv, TypeOK, ReadFromDir, At
<1>2. \A h \in Runners : h # g => sync[h].pc \in Waiting
  BY <1>1, OnlyHolder DEF Waiting
<1>3. UNCHANGED <<bucket, late, unsure>> /\ late \subseteq unsure
  BY <1>1 DEF bucketVars, IInv, BucketIsSafe
<1>4. /\ sync[g].block \in Blocks
      /\ sync[g].block \in unsure \/ "meta.json" \notin bucket[sync[g].block]
  BY <1>1 DEF IInv, BucketIsSafe, UploadingIsNotThere, Uploading
<1>5. BucketIsSafe' /\ sync' \in [Runners -> SyncState]
  <2>1. CASE Goto(g, "unlock")
    BY <1>1, <1>2, <1>3, <2>1, GoesTo
  <2>2. CASE Become(g, s)
    <3>1. s \in SyncState
      BY Zenon, <1>1, SyncTypes
    <3>2. /\ s.pc = "files" /\ s.has = sync[g].has /\ s.uploaded = sync[g].uploaded
          /\ s.block = sync[g].block /\ s.left = Files
      BY <1>1 DEF SyncState
    <3> HIDE DEF s
    <3>3. \A c \in (json'.uploaded \cup s.uploaded \cup s.has) \ unsure : bucket[c] = Objects
      BY <3>2, <1>1 DEF IInv, BucketIsSafe, ListedAreComplete, Complete
    <3>4. Files \ s.left \subseteq bucket[s.block]
      BY <3>2
    <3> QED
      BY <2>2, <3>1, <3>2, <3>3, <3>4, <1>2, <1>3, <1>4, LocalStep, Becomes DEF IInv, TypeOK
  <2> QED
    BY <2>1, <2>2 DEF ReadFromDir
<1>6. InstanceTypeOK'
  BY SyncInstance DEF IInv, Sync
<1> QED
  BY <1>1, <1>5, <1>6, TypeKept DEF IInv, TypeOK

(* What the steps of an upload and of cleanUp do to the bucket: they add   *)
(* or remove objects of their own block only, and as long as that block    *)
(* has no meta.json, nothing complete is touched.                          *)
LEMMA OwnBlockOnly ==
    ASSUME IInv, NEW b \in Blocks, b \in unsure \/ "meta.json" \notin bucket[b],
           NEW O \in SUBSET Objects, b \in unsure \/ "meta.json" \notin O,
           bucket' = [bucket EXCEPT ![b] = O], UNCHANGED <<late, unsure>>
    PROVE  /\ BucketTypeOK' /\ MetaMeansCompleteUnlessLate' /\ late' \subseteq unsure'
           /\ bucket'[b] = O
           /\ \A c \in Blocks \ unsure' : bucket[c] = Objects => bucket'[c] = Objects
<1>1. bucket \in [Blocks -> SUBSET Objects]
  BY DEF IInv, TypeOK, BucketTypeOK
<1>2. bucket'[b] = O /\ \A c \in Blocks : c # b => bucket'[c] = bucket[c]
  BY <1>1
<1>3. BucketTypeOK'
  BY <1>1 DEF IInv, TypeOK, BucketTypeOK, Objects, Blocks
<1>4. MetaMeansCompleteUnlessLate'
  BY <1>2 DEF IInv, BucketIsSafe, MetaMeansCompleteUnlessLate, Blocks
<1>5. ASSUME NEW c \in Blocks \ unsure, bucket[c] = Objects
      PROVE  bucket'[c] = Objects
  <2>1. c # b
    BY <1>5 DEF Objects
  <2> QED
    BY <2>1, <1>2, <1>5
<1>6. late' \subseteq unsure'
  BY DEF IInv, BucketIsSafe
<1> QED
  BY <1>2, <1>3, <1>4, <1>5, <1>6

(* A file that was uploaded is in the bucket; a failed upload goes on to   *)
(* cleanUp.                                                                *)
LEMMA UploadFileIInv ==
    ASSUME IInv, NEW g \in Runners, UploadFile(g)
    PROVE  IInv'
<1> DEFINE r == sync[g]
           b == sync[g].block
<1>1. r \in SyncState /\ r.pc = "files" /\ UNCHANGED <<diskVars, late, unsure, json>>
  BY DEF IInv, TypeOK, UploadFile, At
<1>2. \A h \in Runners : h # g => sync[h].pc \in Waiting
  BY <1>1, OnlyHolder DEF Waiting
<1>3. /\ b \in Blocks /\ (b \in unsure \/ "meta.json" \notin bucket[b])
      /\ Files \ r.left \subseteq bucket[b]
  BY <1>1 DEF IInv, BucketIsSafe, UploadingIsNotThere, SentIsThere, Uploading
<1>4. bucket[b] \subseteq Objects /\ late \subseteq unsure
  BY <1>3 DEF IInv, TypeOK, BucketTypeOK, BucketIsSafe
<1>5. BucketIsSafe' /\ sync' \in [Runners -> SyncState] /\ BucketTypeOK'
  <2>1. ASSUME NEW f \in r.left, bucket' = [bucket EXCEPT ![b] = @ \cup {f}],
               Become(g, [r EXCEPT !.left = @ \ {f}])
        PROVE  BucketIsSafe' /\ sync' \in [Runners -> SyncState] /\ BucketTypeOK'
    <3> DEFINE s == [r EXCEPT !.left = @ \ {f}]
               O == bucket[b] \cup {f}
    <3>1. f \in Files /\ f # "meta.json"
      BY <1>1, ShipperAssumption DEF SyncState
    <3>2. O \in SUBSET Objects /\ (b \in unsure \/ "meta.json" \notin O)
      BY <1>3, <1>4, <3>1 DEF Objects
    <3>3. bucket' = [bucket EXCEPT ![b] = O]
      BY <2>1
    <3>4. s \in SyncState
      BY Zenon, <1>1, <3>1, SyncTypes
    <3>5. /\ s.pc = "files" /\ s.has = r.has /\ s.uploaded = r.uploaded
          /\ s.block = b /\ s.left = r.left \ {f}
      BY <1>1 DEF SyncState
    <3>6. /\ BucketTypeOK' /\ MetaMeansCompleteUnlessLate' /\ late' \subseteq unsure'
          /\ bucket'[b] = O
          /\ \A c \in Blocks \ unsure' : bucket[c] = Objects => bucket'[c] = Objects
      <4> HIDE DEF O
      <4> QED
        BY Zenon, <1>1, <1>3, <3>2, <3>3, OwnBlockOnly
    <3>7. Files \ s.left \subseteq bucket'[s.block]
      BY <1>3, <3>5, <3>6
    <3>8. \A c \in (json'.uploaded \cup s.uploaded \cup s.has) \ unsure' : bucket'[c] = Objects
      <4>1. \A c \in (json.uploaded \cup r.uploaded \cup r.has) \ unsure :
                c \in Blocks /\ bucket[c] = Objects
        BY <1>1 DEF IInv, BucketIsSafe, ListedAreComplete, Complete, SyncState, TypeOK
      <4> HIDE DEF s
      <4> QED
        BY <4>1, <1>1, <3>5, <3>6
    <3>9. s.block \in Blocks /\ (s.block \in unsure' \/ "meta.json" \notin bucket'[s.block])
      BY <1>1, <1>3, <3>2, <3>5, <3>6
    <3> HIDE DEF s, O
    <3> QED
      BY Zenon, <1>1, <1>2, <2>1, <3>4, <3>6, <3>7, <3>8, <3>9, HolderStep, Becomes
         DEF s, IInv, TypeOK
  <2>2. CASE Goto(g, "cleanMeta") /\ UNCHANGED bucket
    <3> DEFINE s == [r EXCEPT !.pc = "cleanMeta"]
    <3>1. s \in SyncState /\ Become(g, s)
      BY Zenon, <1>1, <2>2, SyncTypes DEF Goto
    <3>2. /\ s.pc = "cleanMeta" /\ s.has = r.has /\ s.uploaded = r.uploaded
          /\ s.block = b
      BY <1>1 DEF SyncState
    <3> HIDE DEF s
    <3>3. \A c \in (json'.uploaded \cup s.uploaded \cup s.has) \ unsure : bucket[c] = Objects
      BY <3>2, <1>1 DEF IInv, BucketIsSafe, ListedAreComplete, Complete
    <3>4. BucketIsSafe' /\ sync' \in [Runners -> SyncState]
      BY <2>2, <3>1, <3>2, <3>3, <1>1, <1>2, <1>3, <1>4, LocalStep, Becomes DEF IInv, TypeOK
    <3> QED
      BY <2>2, <3>4, <1>1, TypeKept DEF IInv, bucketVars
  <2> QED
    BY <2>1, <2>2 DEF UploadFile
<1>6. InstanceTypeOK'
  BY SyncInstance DEF IInv, Sync
<1> QED
  BY <1>1, <1>5, <1>6, TypeKept DEF IInv, TypeOK
(* meta.json is uploaded after all files, so it completes the block.       *)
LEMMA UploadMetaIInv ==
    ASSUME IInv, NEW g \in Runners, UploadMeta(g)
    PROVE  IInv'
<1> DEFINE r == sync[g]
           b == sync[g].block
<1>1. r \in SyncState /\ r.pc = "files" /\ r.left = {} /\ UNCHANGED <<diskVars, json>>
  BY DEF IInv, TypeOK, UploadMeta, uploadsMeta, At
<1>2. \A h \in Runners : h # g => sync[h].pc \in Waiting
  BY <1>1, OnlyHolder DEF Waiting
<1>3. b \in Blocks /\ Files \subseteq bucket[b]
  BY <1>1 DEF IInv, BucketIsSafe, UploadingIsNotThere, SentIsThere, Uploading
<1>4. bucket \in [Blocks -> SUBSET Objects] /\ late \subseteq unsure /\ unsure \subseteq Blocks
  BY DEF IInv, TypeOK, BucketTypeOK, BucketIsSafe
<1>5. CASE /\ bucket' = [bucket EXCEPT ![b] = @ \cup {"meta.json"}]
           /\ Become(g, AfterBlock(r, b, TRUE)) /\ UNCHANGED <<late, unsure>>
  <2> DEFINE s == AfterBlock(r, b, TRUE)
  <2>1. s \in SyncState
    BY Zenon, <1>1, <1>3, SyncTypes
  <2>2. s.pc = "next" /\ s.has = r.has /\ s.uploaded = r.uploaded \cup {b}
    BY <1>1 DEF AfterBlock, SyncState
  <2> HIDE DEF s
  <2>3. bucket'[b] = Objects /\ \A c \in Blocks : c # b => bucket'[c] = bucket[c]
    BY <1>3, <1>4, <1>5 DEF Objects
  <2>4. BucketTypeOK'
    BY Zenon, <1>4, <1>5 DEF IInv, TypeOK, BucketTypeOK, Objects, Blocks
  <2>5. MetaMeansCompleteUnlessLate'
    BY <1>5, <2>3 DEF IInv, BucketIsSafe, MetaMeansCompleteUnlessLate, Blocks, Objects
  <2>6. \A c \in (json'.uploaded \cup s.uploaded \cup s.has) \ unsure' : bucket'[c] = Objects
    <3>1. \A c \in (json.uploaded \cup r.uploaded \cup r.has) \ unsure :
              c \in Blocks /\ bucket[c] = Objects
      BY <1>1 DEF IInv, BucketIsSafe, ListedAreComplete, Complete, SyncState, TypeOK
    <3> QED
      BY <3>1, <1>1, <1>5, <2>2, <2>3
  <2>7. s.pc \notin Uploading /\ s.pc # "files"
    BY <2>2 DEF Uploading
  <2>8. \A c \in Blocks \ unsure' : bucket[c] = Objects => bucket'[c] = Objects
    BY <2>3
  <2>9. BucketIsSafe' /\ sync' \in [Runners -> SyncState]
    BY Zenon, <1>2, <1>4, <1>5, <2>1, <2>5, <2>6, <2>7, <2>8, HolderStep, Becomes DEF s, IInv, TypeOK
  <2>10. InstanceTypeOK'
    BY SyncInstance DEF IInv, Sync
  <2> QED
    BY <1>1, <2>4, <2>9, <2>10, TypeKept DEF IInv, TypeOK
<1>6. CASE /\ Goto(g, "unlock") /\ UNCHANGED bucket
           /\ \/ UNCHANGED <<late, unsure>>
              \/ late' = late \cup {b} /\ unsure' = unsure \cup {b}
  <2>1. BucketTypeOK' /\ unsure \subseteq unsure' /\ late' \subseteq unsure'
    BY Zenon, <1>3, <1>4, <1>6 DEF IInv, TypeOK, BucketTypeOK, Objects, Blocks
  <2>2. BucketIsSafe' /\ sync' \in [Runners -> SyncState]
    BY <1>1, <1>2, <1>6, <2>1, GoesTo
  <2>3. InstanceTypeOK'
    BY SyncInstance DEF IInv, Sync
  <2> QED
    BY Zenon, <1>1, <2>1, <2>2, <2>3, TypeKept DEF IInv, TypeOK
<1> QED
  BY Zenon, <1>5, <1>6 DEF UploadMeta

(* An upload of meta.json that had failed appears: its block is unsure.    *)
LEMMA LateMetaIInv ==
    ASSUME IInv, LateMeta
    PROVE  IInv'
<1>1. PICK b \in late :
          bucket' = [bucket EXCEPT ![b] = @ \cup {"meta.json"}] /\ late' = late \ {b}
  BY Zenon DEF LateMeta
<1>2. UNCHANGED <<unsure, diskVars, instVars, json, sync, errors, crashes>>
  BY DEF LateMeta
<1>3. /\ bucket \in [Blocks -> SUBSET Objects] /\ b \in Blocks /\ b \in unsure
      /\ late \subseteq unsure
  BY DEF IInv, TypeOK, BucketTypeOK, BucketIsSafe
<1>4. \A c \in Blocks : c # b => bucket'[c] = bucket[c]
  BY <1>1, <1>3
<1>5. bucket[b] \subseteq bucket'[b]
  BY <1>1, <1>3
<1>6. BucketTypeOK'
  BY <1>1, <1>2, <1>3 DEF IInv, TypeOK, BucketTypeOK, Objects, Blocks
<1>7. late' \subseteq unsure'
  BY <1>1, <1>2, <1>3
<1>8. OneSyncAtATime'
  BY <1>2 DEF IInv, BucketIsSafe, OneSyncAtATime
<1>9. UploadingIsNotThere'
  BY <1>2, <1>3, <1>4 DEF IInv, BucketIsSafe, UploadingIsNotThere, Blocks
<1>10. SentIsThere'
  <2> SUFFICES ASSUME NEW g \in Runners, sync[g].pc = "files"
               PROVE  Files \ sync[g].left \subseteq bucket'[sync[g].block]
    BY <1>2 DEF SentIsThere
  <2>1. sync[g].block \in Blocks /\ Files \ sync[g].left \subseteq bucket[sync[g].block]
    BY DEF IInv, BucketIsSafe, SentIsThere, UploadingIsNotThere, Uploading
  <2> QED
    BY <2>1, <1>4, <1>5
<1>11. ListedAreComplete'
  <2>1. /\ json.uploaded \subseteq Blocks
        /\ \A g \in Runners : sync[g].uploaded \cup sync[g].has \subseteq Blocks
    BY DEF IInv, TypeOK, SyncState
  <2>2. /\ \A c \in json.uploaded \ unsure : bucket[c] = Objects
        /\ \A g \in Runners : \A c \in (sync[g].uploaded \cup sync[g].has) \ unsure :
              bucket[c] = Objects
    BY DEF IInv, BucketIsSafe, ListedAreComplete, Complete
  <2> QED
    BY <2>1, <2>2, <1>2, <1>3, <1>4 DEF ListedAreComplete, Complete, Objects
<1>12. MetaMeansCompleteUnlessLate'
  BY <1>2, <1>3, <1>4 DEF IInv, BucketIsSafe, MetaMeansCompleteUnlessLate, Blocks
<1>13. DiskTypeOK' /\ InstanceTypeOK'
  BY <1>2, TypeKept DEF IInv, TypeOK, InstanceTypeOK
<1> QED
  BY <1>2, <1>6, <1>7, <1>8, <1>9, <1>10, <1>11, <1>12, <1>13 DEF IInv, TypeOK, BucketIsSafe, Blocks

(* cleanUp removes meta.json of its own block, if there is one.            *)
LEMMA CleanUpMetaIInv ==
    ASSUME IInv, NEW g \in Runners, CleanUpMeta(g)
    PROVE  IInv'
<1> DEFINE r == sync[g]
           b == sync[g].block
           s == [r EXCEPT !.pc = "cleanFiles"]
           O == bucket[b] \ {"meta.json"}
<1>1. r \in SyncState /\ r.pc = "cleanMeta" /\ UNCHANGED <<diskVars, late, unsure, json>>
  BY DEF IInv, TypeOK, CleanUpMeta, At
<1>2. \A h \in Runners : h # g => sync[h].pc \in Waiting
  BY <1>1, OnlyHolder DEF Waiting
<1>3. b \in Blocks /\ (b \in unsure \/ "meta.json" \notin bucket[b])
  BY <1>1 DEF IInv, BucketIsSafe, UploadingIsNotThere, Uploading
<1>4. O \in SUBSET Objects /\ late \subseteq unsure /\ "meta.json" \notin O
  BY <1>3 DEF IInv, TypeOK, BucketTypeOK, BucketIsSafe
<1>5. BucketIsSafe' /\ sync' \in [Runners -> SyncState] /\ BucketTypeOK'
  <2>1. CASE bucket' = [bucket EXCEPT ![b] = @ \ {"meta.json"}] /\ Goto(g, "cleanFiles")
    <3>1. bucket' = [bucket EXCEPT ![b] = O]
      BY <2>1
    <3>2. s \in SyncState /\ Become(g, s)
      BY Zenon, <1>1, <2>1, SyncTypes DEF Goto
    <3>3. /\ s.pc = "cleanFiles" /\ s.has = r.has /\ s.uploaded = r.uploaded
          /\ s.block = b
      BY <1>1 DEF SyncState
    <3> HIDE DEF s, O
    <3>4. /\ BucketTypeOK' /\ MetaMeansCompleteUnlessLate' /\ late' \subseteq unsure'
          /\ bucket'[b] = O
          /\ \A c \in Blocks \ unsure' : bucket[c] = Objects => bucket'[c] = Objects
      BY Zenon, <1>1, <1>3, <1>4, <3>1, OwnBlockOnly
    <3>5. \A c \in (json'.uploaded \cup s.uploaded \cup s.has) \ unsure' : bucket'[c] = Objects
      <4>1. \A c \in (json.uploaded \cup r.uploaded \cup r.has) \ unsure :
                c \in Blocks /\ bucket[c] = Objects
        BY <1>1 DEF IInv, BucketIsSafe, ListedAreComplete, Complete, SyncState, TypeOK
      <4> QED
        BY <4>1, <1>1, <3>3, <3>4
    <3>6. s.block \in Blocks /\ "meta.json" \notin bucket'[s.block]
      BY <1>3, <1>4, <3>3, <3>4
    <3> QED
      BY <1>1, <1>2, <3>2, <3>3, <3>4, <3>5, <3>6, HolderStep, Becomes DEF IInv, TypeOK
  <2>2. CASE Goto(g, "unlock") /\ UNCHANGED bucket
    BY <2>2, <1>1, <1>2, <1>4, GoesTo, TypeKept DEF IInv, bucketVars
  <2> QED
    BY <2>1, <2>2 DEF CleanUpMeta
<1>6. InstanceTypeOK'
  BY SyncInstance DEF IInv, Sync
<1> QED
  BY <1>1, <1>5, <1>6, TypeKept DEF IInv, TypeOK
(* cleanUp removes the files of its own block, which has no meta.json.     *)
LEMMA CleanUpFilesIInv ==
    ASSUME IInv, NEW g \in Runners, CleanUpFiles(g)
    PROVE  IInv'
<1> DEFINE r == sync[g]
           b == sync[g].block
<1>1. r \in SyncState /\ r.pc = "cleanFiles" /\ UNCHANGED <<diskVars, late, unsure, json>>
  BY DEF IInv, TypeOK, CleanUpFiles, At
<1>2. \A h \in Runners : h # g => sync[h].pc \in Waiting
  BY <1>1, OnlyHolder DEF Waiting
<1>3. b \in Blocks /\ (b \in unsure \/ "meta.json" \notin bucket[b])
  BY <1>1 DEF IInv, BucketIsSafe, UploadingIsNotThere, Uploading
<1>4. bucket[b] \subseteq Objects /\ late \subseteq unsure
  BY <1>3 DEF IInv, TypeOK, BucketTypeOK, BucketIsSafe
<1>5. BucketIsSafe' /\ sync' \in [Runners -> SyncState] /\ BucketTypeOK'
  <2>1. ASSUME NEW f, bucket' = [bucket EXCEPT ![b] = @ \ {f}], UNCHANGED sync
        PROVE  BucketIsSafe' /\ sync' \in [Runners -> SyncState] /\ BucketTypeOK'
    <3> DEFINE O == bucket[b] \ {f}
    <3>1. O \in SUBSET Objects /\ (b \in unsure \/ "meta.json" \notin O)
      BY <1>3, <1>4
    <3>2. bucket' = [bucket EXCEPT ![b] = O]
      BY <2>1
    <3>3. Become(g, r)
      BY <2>1 DEF Become, IInv, TypeOK
    <3> HIDE DEF O
    <3>4. /\ BucketTypeOK' /\ MetaMeansCompleteUnlessLate' /\ late' \subseteq unsure'
          /\ bucket'[b] = O
          /\ \A c \in Blocks \ unsure' : bucket[c] = Objects => bucket'[c] = Objects
      BY Zenon, <1>1, <1>3, <3>1, <3>2, OwnBlockOnly
    <3>5. \A c \in (json'.uploaded \cup r.uploaded \cup r.has) \ unsure' : bucket'[c] = Objects
      <4>1. \A c \in (json.uploaded \cup r.uploaded \cup r.has) \ unsure :
                c \in Blocks /\ bucket[c] = Objects
        BY <1>1 DEF IInv, BucketIsSafe, ListedAreComplete, Complete, SyncState, TypeOK
      <4> QED
        BY <4>1, <1>1, <3>4
    <3>6. r.block \in Blocks /\ (r.block \in unsure' \/ "meta.json" \notin bucket'[r.block])
      BY <1>1, <1>3, <3>1, <3>4
    <3>7. BucketIsSafe'
      BY Zenon, <1>1, <1>2, <3>3, <3>4, <3>5, <3>6, HolderStep
    <3> QED
      BY <2>1, <3>4, <3>7 DEF IInv, TypeOK
  <2>2. CASE Goto(g, "unlock") /\ UNCHANGED bucket
    BY <2>2, <1>1, <1>2, <1>4, GoesTo, TypeKept DEF IInv, bucketVars
  <2> QED
    BY <2>1, <2>2 DEF CleanUpFiles
<1>6. InstanceTypeOK'
  BY SyncInstance DEF IInv, Sync
<1> QED
  BY <1>1, <1>5, <1>6, TypeKept DEF IInv, TypeOK

(* WriteMetaFile lists what the Sync has uploaded or found in the bucket.  *)
LEMMA WriteMetaFileIInv ==
    ASSUME IInv, NEW g \in Runners, WriteMetaFile(g)
    PROVE  IInv'
<1>1. /\ sync[g] \in SyncState /\ json \in [present : BOOLEAN, uploaded : SUBSET Blocks]
      /\ UNCHANGED <<diskVars, bucketVars>>
  BY DEF IInv, TypeOK, WriteMetaFile
<1>2. UNCHANGED <<bucket, late, unsure>> /\ late \subseteq unsure
  BY <1>1 DEF bucketVars, IInv, BucketIsSafe
<1>3. sync[g].pc \in {"next", "remove", "rename"}
  BY DEF WriteMetaFile, At
<1>4. \A h \in Runners : h # g => sync[h].pc \in Waiting
  BY <1>3, OnlyHolder DEF Waiting
<1>5. /\ json' \in [present : BOOLEAN, uploaded : SUBSET Blocks]
      /\ json'.uploaded \subseteq json.uploaded \cup sync[g].uploaded
  <2>1. \/ json' = json
        \/ json' = [json EXCEPT !.present = FALSE]
        \/ json' = [present |-> TRUE, uploaded |-> sync[g].uploaded]
    BY DEF WriteMetaFile
  <2>2. sync[g].uploaded \in SUBSET Blocks
    BY <1>1 DEF SyncState
  <2>3. CASE json' = json
    BY <2>3, <1>1
  <2>4. CASE json' = [json EXCEPT !.present = FALSE]
    BY Zenon, <2>4, <1>1
  <2>5. CASE json' = [present |-> TRUE, uploaded |-> sync[g].uploaded]
    BY <2>5, <2>2
  <2> QED
    BY <2>1, <2>3, <2>4, <2>5
<1>6. Goto(g, "remove") \/ Goto(g, "rename") \/ Goto(g, "unlock")
  BY DEF WriteMetaFile
<1>7. BucketIsSafe' /\ sync' \in [Runners -> SyncState]
  BY <1>2, <1>4, <1>5, <1>6, GoesTo
<1>8. InstanceTypeOK'
  BY SyncInstance DEF IInv, Sync
<1> QED
  BY <1>1, <1>5, <1>7, <1>8, TypeKept DEF IInv, TypeOK, Blocks

(* Blocks that are flushed or cleaned up on disk.                          *)
LEMMA DiskIInv ==
    ASSUME IInv, Flush \/ CleanupStart \/ CleanupRemove
    PROVE  IInv'
<1>1. UNCHANGED <<bucketVars, instVars, json, sync, errors, crashes>>
  BY DEF Flush, CleanupStart, CleanupRemove
<1>2. /\ created \in 0..N /\ dirs \subseteq Blocks /\ cleaned \subseteq Blocks
      /\ disk \in [Blocks -> SUBSET Objects]
      /\ removing \in [block : 0..N, left : SUBSET Objects] /\ N \in Nat
  BY ShipperAssumption DEF IInv, TypeOK, DiskTypeOK
<1>3. CASE Flush
  <2>1. created' \in Blocks /\ created' \in 0..N
    BY <1>2, <1>3 DEF Flush, Blocks
  <2>2. dirs' \subseteq Blocks /\ cleaned' = cleaned /\ removing' = removing
    BY <1>2, <1>3, <2>1 DEF Flush
  <2>3. disk' \in [Blocks -> SUBSET Objects]
    BY <1>2, <1>3, <2>1 DEF Flush
  <2>4. DiskTypeOK'
    BY <1>2, <2>1, <2>2, <2>3 DEF DiskTypeOK, Blocks, Objects
  <2> QED
    BY <1>1, <2>4, QuietStep, TypeKept DEF IInv, TypeOK, InstanceTypeOK, Blocks, SyncState
<1>4. CASE CleanupStart
  <2>1. Min(dirs) \in Blocks
    BY <1>2, <1>4, MinIsBlock DEF CleanupStart
  <2>2. Min(dirs) \in 0..N
    BY <1>2, <2>1 DEF Blocks
  <2>3. removing' \in [block : 0..N, left : SUBSET Objects] /\ cleaned' \subseteq Blocks
    BY <1>2, <1>4, <2>1, <2>2 DEF CleanupStart
  <2>4. DiskTypeOK'
    BY <1>2, <1>4, <2>3 DEF CleanupStart, DiskTypeOK, Blocks, Objects
  <2> QED
    BY <1>1, <2>4, QuietStep, TypeKept DEF IInv, TypeOK, InstanceTypeOK, Blocks, SyncState
<1>5. CASE CleanupRemove
  <2>1. removing.block \in Blocks
    BY <1>2, <1>5 DEF CleanupRemove, Blocks
  <2>2. created' = created /\ cleaned' = cleaned /\ dirs' \subseteq Blocks
    BY <1>2, <1>5 DEF CleanupRemove
  <2>3. removing' \in [block : 0..N, left : SUBSET Objects]
    BY <1>2, <1>5 DEF CleanupRemove, NoRemoval
  <2>4. disk' \in [Blocks -> SUBSET Objects]
    BY <1>2, <1>5, <2>1 DEF CleanupRemove
  <2>5. DiskTypeOK'
    BY <1>2, <2>2, <2>3, <2>4 DEF DiskTypeOK, Blocks, Objects
  <2> QED
    BY <1>1, <2>5, QuietStep, TypeKept DEF IInv, TypeOK, InstanceTypeOK, Blocks, SyncState
<1> QED
  BY <1>3, <1>4, <1>5
(* The steps of the loop, of the first run and of Stop: a Sync begins to   *)
(* wait for the lock or has given it up.                                   *)
LEMMA InstanceIInv ==
    ASSUME IInv, First \/ Loop \/ Tick \/ LastRun \/ Close \/ Stop \/ Start
    PROVE  IInv'
<1>1. UNCHANGED <<diskVars, bucketVars, json, errors, crashes>>
  BY Zenon DEF First, FirstRun, FirstEnd, Loop, LoopStart, LoopEnd, Tick, LastRun, Close, Stop,
               Cancel, Wait, Start
<1>2. InstanceTypeOK'
  <2>1. InstanceTypeOK /\ UNCHANGED <<errors, crashes>>
    BY <1>1 DEF IInv, TypeOK
  <2>2. CASE LoopEnd
    BY <2>1, <2>2 DEF InstanceTypeOK, LoopEnd, wgDone
  <2>3. CASE ~LoopEnd
    BY SMTT(30), <2>1, <2>3 DEF InstanceTypeOK, First, FirstRun, FirstEnd, Loop, LoopStart, Tick, LastRun,
                      Close, Stop, Cancel, Wait, Start
  <2> QED
    BY <2>2, <2>3
<1>3. \A g \in Runners : sync[g] \in SyncState
  BY DEF IInv, TypeOK
<1>4. "first" \in Runners /\ "loop" \in Runners
  BY Zenon DEF Runners
<1>5. ASSUME NEW g \in Runners, Goto(g, "lock")
      PROVE  BucketIsSafe' /\ sync' \in [Runners -> SyncState]
  <2> DEFINE s == [sync[g] EXCEPT !.pc = "lock"]
  <2>1. s \in SyncState /\ Become(g, s)
    BY Zenon, <1>3, <1>5, SyncTypes DEF Goto
  <2>2. s.pc = "lock" /\ s.has = sync[g].has /\ s.uploaded = sync[g].uploaded
    BY <1>3 DEF SyncState
  <2> HIDE DEF s
  <2>3. s.pc \in Waiting
    BY <2>2 DEF Waiting
  <2> QED
    BY <1>1, <2>1, <2>2, <2>3, WaitingStep, Becomes DEF IInv, TypeOK
<1>6. ASSUME NEW g \in Runners, Become(g, NoSync)
      PROVE  BucketIsSafe' /\ sync' \in [Runners -> SyncState]
  <2>1. NoSync.pc \in Waiting /\ NoSync.has = {} /\ NoSync.uploaded = {}
    BY DEF NoSync, Waiting
  <2> QED
    BY Zenon, <1>1, <1>6, <2>1, NoSyncType, WaitingStep, Becomes DEF IInv, TypeOK
<1>7. CASE FirstRun \/ Tick \/ LastRun
  <2>1. BucketIsSafe' /\ sync' \in [Runners -> SyncState]
    BY <1>4, <1>5, <1>7 DEF FirstRun, Tick, LastRun
  <2> QED
    BY <1>1, <1>2, <2>1, TypeKept DEF IInv, TypeOK
<1>8. CASE FirstEnd \/ LoopEnd
  <2>1. BucketIsSafe' /\ sync' \in [Runners -> SyncState]
    BY <1>4, <1>6, <1>8 DEF FirstEnd, LoopEnd
  <2> QED
    BY <1>1, <1>2, <2>1, TypeKept DEF IInv, TypeOK
<1>9. CASE LoopStart \/ Close \/ Stop \/ Start
  <2>1. UNCHANGED sync
    BY Zenon, <1>9 DEF LoopStart, Close, Stop, Cancel, Wait, Start
  <2> QED
    BY <1>1, <1>2, <2>1, QuietStep, TypeKept DEF IInv, TypeOK
<1> QED
  BY <1>7, <1>8, <1>9 DEF First, Loop

(* The end of the process keeps the disk, shipper.json and the bucket.     *)
LEMMA DieIInv ==
    ASSUME IInv, Crash \/ \E g \in Runners : Panic(g)
    PROVE  IInv'
<1>0. Die /\ errors' \in 0..MaxErrors /\ crashes' \in 0..MaxCrashes
  <2>1. CASE Crash
    BY <2>1, ShipperAssumption DEF Crash, IInv, TypeOK, InstanceTypeOK
  <2>2. CASE \E g \in Runners : Panic(g)
    BY Zenon, <2>2, ErrorsCount DEF Panic, IInv, TypeOK, InstanceTypeOK
  <2> QED
    BY <2>1, <2>2
<1>1. /\ UNCHANGED <<created, dirs, disk, cleaned, bucketVars, bucket, late, unsure, json>>
      /\ removing' = NoRemoval /\ sync' = [g \in Runners |-> NoSync]
  BY Zenon, <1>0 DEF Die, bucketVars
<1>2. \A g \in Runners : sync'[g] = NoSync
  BY <1>1
<1>3. NoSync.pc = "idle" /\ NoSync.has = {} /\ NoSync.uploaded = {}
  BY DEF NoSync
<1>4. OneSyncAtATime' /\ UploadingIsNotThere' /\ SentIsThere'
  BY <1>2, <1>3 DEF OneSyncAtATime, UploadingIsNotThere, SentIsThere, Waiting, Uploading
<1>5. ListedAreComplete'
  BY <1>1, <1>2, <1>3 DEF IInv, BucketIsSafe, ListedAreComplete, Complete, Objects
<1>6. MetaMeansCompleteUnlessLate' /\ late' \subseteq unsure'
  BY <1>1 DEF IInv, BucketIsSafe, MetaMeansCompleteUnlessLate, Blocks
<1>7. DiskTypeOK'
  <2>1. NoRemoval \in [block : 0..N, left : SUBSET Objects]
    BY ShipperAssumption DEF NoRemoval
  <2> QED
    BY <1>1, <2>1 DEF IInv, TypeOK, DiskTypeOK, Blocks, Objects
<1>8. InstanceTypeOK'
  BY <1>0 DEF Die, InstanceTypeOK
<1>9. sync' \in [Runners -> SyncState]
  BY <1>1, NoSyncType
<1> QED
  BY <1>1, <1>4, <1>5, <1>6, <1>7, <1>8, <1>9, TypeKept DEF IInv, TypeOK, BucketIsSafe

(* A new process with an empty disk and an empty bucket.                   *)
LEMMA InitIInv == Init => IInv
<1> SUFFICES ASSUME Init PROVE IInv
  OBVIOUS
<1>1. DiskTypeOK
  BY SMTT(30), ShipperAssumption DEF Init, DiskTypeOK, NoRemoval, Blocks
<1>2. BucketTypeOK /\ InstanceTypeOK
  BY ShipperAssumption DEF Init, BucketTypeOK, InstanceTypeOK
<1>3. sync \in [Runners -> SyncState] /\ \A g \in Runners : sync[g] = NoSync
  BY NoSyncType DEF Init
<1>4. json \in [present : BOOLEAN, uploaded : SUBSET Blocks] /\ json.uploaded = {}
  BY DEF Init
<1>5. NoSync.pc = "idle" /\ NoSync.has = {} /\ NoSync.uploaded = {}
  BY DEF NoSync
<1>6. OneSyncAtATime /\ UploadingIsNotThere /\ SentIsThere
  BY <1>3, <1>5 DEF OneSyncAtATime, UploadingIsNotThere, SentIsThere, Waiting, Uploading
<1>7. ListedAreComplete
  BY <1>3, <1>4, <1>5 DEF ListedAreComplete
<1>8. MetaMeansCompleteUnlessLate /\ late \subseteq unsure
  BY DEF Init, MetaMeansCompleteUnlessLate
<1> QED
  BY <1>1, <1>2, <1>3, <1>4, <1>6, <1>7, <1>8 DEF IInv, TypeOK, BucketIsSafe

-----------------------------------------------------------------------------
(* The theorems *)

(* The inductive invariant: the types, one Sync at a time under            *)
(* shipperLock, an uploaded block without meta.json until its files are    *)
(* there, and listed blocks that are complete.                             *)
THEOREM ShipperInvariant == Spec => []IInv
<1>1. ASSUME IInv, [Next]_vars
      PROVE  IInv'
  <2>1. CASE UNCHANGED vars
    <3>1. UNCHANGED <<diskVars, bucketVars, instVars, json, sync, errors, crashes>>
      BY <2>1 DEF vars
    <3> QED
      BY <1>1, <3>1, QuietStep, TypeKept DEF IInv, TypeOK, InstanceTypeOK
  <2>2. CASE \E g \in Runners : Sync(g)
    BY Zenon, <2>2, <1>1, LockIInv, ReadMetaFileIInv, IterIInv, BlockMetasIInv, NextBlockIInv,
       WriteToFileIInv, ReadFromDirIInv, UploadFileIInv, UploadMetaIInv, CleanUpMetaIInv, CleanUpFilesIInv,
       WriteMetaFileIInv DEF Sync
  <2>3. CASE Finished
    BY <2>1, <2>3 DEF Finished
  <2> QED
    BY Zenon, <1>1, <2>1, <2>2, <2>3, DiskIInv, LateMetaIInv, InstanceIInv, DieIInv DEF Next
<1> QED
  BY <1>1, InitIInv, PTL DEF Spec

(* A block whose meta.json is in the bucket has all its files there, at    *)
(* any time during uploads, failed uploads, their cleanup and crashes,     *)
(* unless its upload of meta.json failed and appeared later.               *)
THEOREM MetaIsLast == Spec => []MetaMeansCompleteUnlessLate
<1>1. IInv => MetaMeansCompleteUnlessLate
  BY DEF IInv, BucketIsSafe
<1> QED
  BY <1>1, ShipperInvariant, PTL

(* The blocks that shipper.json lists, and that a Sync is about to list,   *)
(* are complete in the bucket, so that skipping them loses nothing.        *)
THEOREM ListedIsShipped == Spec => []UploadedAreComplete
<1>1. IInv => UploadedAreComplete
  BY DEF IInv, BucketIsSafe, ListedAreComplete, UploadedAreComplete
<1> QED
  BY <1>1, ShipperInvariant, PTL
=============================================================================

------------------------------ MODULE Shipper -------------------------------
(***************************************************************************)
(* The shipper of a tenant at an ingester: it uploads the blocks in the    *)
(* local directory to the bucket, in runs that are started at start-up,    *)
(* periodically and once more at the shutdown of the instance.  Blocks     *)
(* appear (a flush) and disappear (the cleanup of a full disk) at any      *)
(* time, bucket operations fail, and the process crashes.                  *)
(*                                                                         *)
(* The instance creates its shipper with uploadCompacted and               *)
(* allowOutOfOrderUploads off, and only these are modelled; with them a    *)
(* block of a higher compaction level is skipped and the overlap check is  *)
(* never reached.  Blocks are numbered in the order of their time.         *)
(***************************************************************************)
EXTENDS Integers, FiniteSets, FiniteSetsExt

CONSTANTS
    N,             \* bound: how many blocks are written
    Compacted,     \* blocks with a compaction level above 1
    Files,         \* the files of a block other than meta.json
    MaxErrors,     \* bound: how many operations fail
    MaxLate,       \* bound: how many failed uploads of meta.json appear later
    MaxCleanups,   \* bound: how many blocks the cleanup deletes
    MaxCrashes     \* bound: how often the process crashes

ASSUME ShipperAssumption ==
    /\ N \in Nat /\ Compacted \subseteq 1..N /\ "meta.json" \notin Files
    /\ MaxErrors \in Nat /\ MaxLate \in Nat /\ MaxCleanups \in Nat /\ MaxCrashes \in Nat

VARIABLES
    created,   \* how many blocks have been written
    dirs,      \* the block directories on disk
    disk,      \* the files in each of them
    removing,  \* os.RemoveAll of a block: the block and the files it still removes
    bucket,    \* the objects of each block
    late,      \* uploads of meta.json that failed and will still appear
    unsure,    \* history: the blocks that were ever in late
    json,      \* shipper.json: whether it is there and the blocks in it
    sync,      \* the Sync of each goroutine
    loopPc,    \* the loop of the instance, "down" while there is no process
    firstPc,   \* the goroutine of the first run
    wg,        \* the wait group of the instance
    stopPc,    \* Stop
    errors, crashes,
    cleaned    \* history: the blocks the cleanup has begun to delete

diskVars == <<created, dirs, disk, removing, cleaned>>
bucketVars == <<bucket, late, unsure>>
instVars == <<loopPc, firstPc, wg, stopPc>>
vars == <<diskVars, bucketVars, instVars, json, sync, errors, crashes>>

Blocks == 1..N
Objects == Files \cup {"meta.json"}
Runners == {"first", "loop"}

NoSync == [pc |-> "idle", has |-> {}, uploaded |-> {}, todo |-> {}, block |-> 0, left |-> {}]
NoRemoval == [block |-> 0, left |-> {}]

Init ==
    /\ created = 0 /\ dirs = {} /\ disk = [b \in Blocks |-> {}]
    /\ removing = NoRemoval /\ cleaned = {}
    /\ bucket = [b \in Blocks |-> {}] /\ late = {} /\ unsure = {}
    /\ json = [present |-> FALSE, uploaded |-> {}]
    /\ sync = [g \in Runners |-> NoSync]
    /\ loopPc = "new" /\ firstPc = "new" /\ wg = 0 /\ stopPc = "no"
    /\ errors = 0 /\ crashes = 0

-----------------------------------------------------------------------------
(* The local blocks *)

(* A flush moves the directory of a block into place.                      *)
Flush ==
    /\ created < N /\ stopPc = "no" /\ loopPc # "down"
    /\ created' = created + 1
    /\ dirs' = dirs \cup {created'}
    /\ disk' = [disk EXCEPT ![created'] = Objects]
    /\ UNCHANGED <<removing, cleaned, bucketVars, instVars, json, sync, errors, crashes>>

(* The cleanup deletes the oldest block with os.RemoveAll: it removes the  *)
(* files it has listed and then the directory, which fails if there is     *)
(* another file by then.                                                   *)
CleanupStart ==
    /\ Cardinality(cleaned) < MaxCleanups /\ removing = NoRemoval /\ dirs # {}
    /\ loopPc # "down"
    /\ removing' = [block |-> Min(dirs), left |-> disk[Min(dirs)]]
    /\ cleaned' = cleaned \cup {Min(dirs)}
    /\ UNCHANGED <<created, dirs, disk, bucketVars, instVars, json, sync, errors, crashes>>

CleanupRemove ==
    /\ removing.block # 0
    /\ IF removing.left = {}
       THEN /\ dirs' = IF disk[removing.block] = {} THEN dirs \ {removing.block} ELSE dirs
            /\ removing' = NoRemoval
            /\ UNCHANGED disk
       ELSE \E f \in removing.left :
            /\ disk' = [disk EXCEPT ![removing.block] = @ \ {f}]
            /\ removing' = [removing EXCEPT !.left = @ \ {f}]
            /\ UNCHANGED dirs
    /\ UNCHANGED <<created, cleaned, bucketVars, instVars, json, sync, errors, crashes>>

-----------------------------------------------------------------------------
(* Sync *)

At(g, pc) == sync[g].pc = pc
Become(g, s) == sync' = [sync EXCEPT ![g] = s]
Goto(g, pc) == Become(g, [sync[g] EXCEPT !.pc = pc])

(* An operation fails; when its context is cancelled it always may.  The   *)
(* last run and cleanUp have a context of their own.                       *)
Error == errors < MaxErrors /\ errors' = errors + 1
Fail(g) ==
    \/ Error
    \/ stopPc \in {"wait", "returned"} /\ (g = "first" \/ loopPc = "sync") /\ UNCHANGED errors

(* runShipper holds shipperLock during Sync.                               *)

shipperLock(g) == \A h \in Runners \ {g} : sync[h].pc \in {"idle", "lock"}

Lock(g) ==
    /\ At(g, "lock") /\ shipperLock(g)
    /\ Goto(g, "read")
    /\ UNCHANGED <<diskVars, bucketVars, instVars, json, errors, crashes>>

(* A missing or unreadable shipper.json is taken as an empty one.          *)
ReadMetaFile(g) ==
    /\ At(g, "read")
    /\ Become(g, [sync[g] EXCEPT !.pc = "list", !.uploaded = {},
                    !.has = IF json.present THEN json.uploaded ELSE {}])
    /\ UNCHANGED <<diskVars, bucketVars, instVars, json, errors, crashes>>

(* The directories that Iter lists; it passes over empty ones.             *)
listed == {b \in dirs : disk[b] # {}}

(* BlockMetas lists the directories; an error ends Sync.                   *)
Iter(g) ==
    /\ At(g, "list")
    /\ \/ Become(g, [sync[g] EXCEPT !.pc = "metas", !.todo = listed]) /\ UNCHANGED errors
       \/ Fail(g) /\ Goto(g, "unlock")
    /\ UNCHANGED <<diskVars, bucketVars, instVars, json, crashes>>

Readable(B) == \A b \in B : "meta.json" \in disk[b]

(* BlockMetas reads the meta.json of each of them.                         *)
BlockMetas(g) ==
    /\ At(g, "metas") /\ Readable(sync[g].todo)
    /\ Goto(g, "next")
    /\ UNCHANGED <<diskVars, bucketVars, instVars, json, errors, crashes>>

(* The check that a block is in the bucket.                                *)
AnyObjectExists(b) == bucket[b] # {}

Exists(b) == "meta.json" \in bucket[b]

SkipsTheRest(s, b, uploaded) == [s EXCEPT !.todo = {}, !.pc = "next"]

AfterBlock(s, b, uploaded) ==
    [s EXCEPT !.todo = @ \ {b}, !.pc = "next", !.uploaded = IF uploaded THEN @ \cup {b} ELSE @]

NextBlock(g) ==
    /\ At(g, "next") /\ sync[g].todo # {}
    /\ LET b == Min(sync[g].todo)
           s == sync[g]
       IN \/ /\ b \in s.has \/ b \in Compacted
             /\ Become(g, AfterBlock(s, b, b \in s.has))
             /\ UNCHANGED errors
          \/ /\ b \notin s.has \cup Compacted
             /\ Become(g, IF Exists(b) THEN AfterBlock(s, b, TRUE)
                          ELSE [s EXCEPT !.pc = "write", !.block = b])
             /\ UNCHANGED errors
          \/ b \notin s.has \cup Compacted /\ Fail(g) /\ Goto(g, "unlock")
    /\ UNCHANGED <<diskVars, bucketVars, instVars, json, crashes>>

(* meta.WriteToFile replaces meta.json in the directory of the block.      *)
WriteToFile(g) ==
    /\ At(g, "write")
    /\ IF sync[g].block \in dirs
       THEN disk' = [disk EXCEPT ![sync[g].block] = @ \cup {"meta.json"}] /\ Goto(g, "open")
       ELSE UNCHANGED disk /\ Goto(g, "unlock")
    /\ UNCHANGED <<created, dirs, removing, cleaned, bucketVars, instVars, json, errors, crashes>>

(* block.upload reads meta.json from the directory again.                  *)
ReadFromDir(g) ==
    /\ At(g, "open")
    /\ IF "meta.json" \in disk[sync[g].block]
       THEN Become(g, [sync[g] EXCEPT !.pc = "files", !.left = Files])
       ELSE Goto(g, "unlock")
    /\ UNCHANGED <<diskVars, bucketVars, instVars, json, errors, crashes>>

MetaFirst(s) == Files \ s.left = {}

uploadsMeta(s) == s.left = {}

UploadFile(g) ==
    /\ At(g, "files")
    /\ \E f \in sync[g].left :
        \/ /\ f \in disk[sync[g].block]
           /\ bucket' = [bucket EXCEPT ![sync[g].block] = @ \cup {f}]
           /\ Become(g, [sync[g] EXCEPT !.left = @ \ {f}])
           /\ UNCHANGED errors
        \/ /\ (f \notin disk[sync[g].block] /\ UNCHANGED errors) \/ Fail(g)
           /\ Goto(g, "cleanMeta")
           /\ UNCHANGED bucket
    /\ UNCHANGED <<diskVars, late, unsure, instVars, json, crashes>>

(* meta.json is the last object.  An upload that fails may appear later.   *)
UploadMeta(g) ==
    /\ At(g, "files") /\ uploadsMeta(sync[g])
    /\ LET b == sync[g].block
       IN \/ /\ bucket' = [bucket EXCEPT ![b] = @ \cup {"meta.json"}]
             /\ Become(g, AfterBlock(sync[g], b, TRUE))
             /\ UNCHANGED <<late, unsure, errors>>
          \/ /\ Fail(g) /\ Goto(g, "unlock")
             /\ \/ UNCHANGED <<late, unsure>>
                \/ /\ Cardinality(unsure) < MaxLate
                   /\ late' = late \cup {b} /\ unsure' = unsure \cup {b}
             /\ UNCHANGED bucket
    /\ UNCHANGED <<diskVars, instVars, json, crashes>>

LateMeta ==
    /\ \E b \in late :
        /\ bucket' = [bucket EXCEPT ![b] = @ \cup {"meta.json"}]
        /\ late' = late \ {b}
    /\ UNCHANGED <<unsure, diskVars, instVars, json, sync, errors, crashes>>

(* cleanUp, after a failed upload of a file: Delete removes meta.json and  *)
(* then the other objects.  An error leaves the rest in the bucket.        *)
CleanUpMeta(g) ==
    /\ At(g, "cleanMeta")
    /\ \/ /\ bucket' = [bucket EXCEPT ![sync[g].block] = @ \ {"meta.json"}]
          /\ Goto(g, "cleanFiles")
          /\ UNCHANGED errors
       \/ Error /\ Goto(g, "unlock") /\ UNCHANGED bucket
    /\ UNCHANGED <<diskVars, late, unsure, instVars, json, crashes>>

CleanUpFiles(g) ==
    /\ At(g, "cleanFiles")
    /\ LET b == sync[g].block
       IN \/ bucket[b] \cap Files = {} /\ Goto(g, "unlock") /\ UNCHANGED <<bucket, errors>>
          \/ /\ \E f \in bucket[b] \cap Files : bucket' = [bucket EXCEPT ![b] = @ \ {f}]
             /\ UNCHANGED <<sync, errors>>
          \/ Error /\ Goto(g, "unlock") /\ UNCHANGED bucket
    /\ UNCHANGED <<diskVars, late, unsure, instVars, json, crashes>>

(* WriteMetaFile: the temporary file is written, shipper.json is removed,  *)
(* and the temporary file is renamed.  Errors are only logged.             *)
WriteMetaFile(g) ==
    /\ \/ /\ At(g, "next") /\ sync[g].todo = {}
          /\ \/ Goto(g, "remove") /\ UNCHANGED errors
             \/ Error /\ Goto(g, "unlock")
          /\ UNCHANGED json
       \/ /\ At(g, "remove") /\ Goto(g, "rename")
          /\ json' = [json EXCEPT !.present = FALSE]
          /\ UNCHANGED errors
       \/ /\ At(g, "rename") /\ Goto(g, "unlock")
          /\ json' = [present |-> TRUE, uploaded |-> sync[g].uploaded]
          /\ UNCHANGED errors
    /\ UNCHANGED <<diskVars, bucketVars, instVars, crashes>>

Sync(g) ==
    \/ Lock(g) \/ ReadMetaFile(g) \/ Iter(g) \/ BlockMetas(g) \/ NextBlock(g)
    \/ WriteToFile(g) \/ ReadFromDir(g) \/ UploadFile(g) \/ UploadMeta(g)
    \/ CleanUpMeta(g) \/ CleanUpFiles(g) \/ WriteMetaFile(g)

-----------------------------------------------------------------------------
(* The instance *)

(* The loop registers with the wait group when it runs, and starts the     *)
(* first run in a goroutine of its own.                                    *)
LoopStart ==
    /\ loopPc = "new"
    /\ loopPc' = "select" /\ firstPc' = "spawned" /\ wg' = wg + 1
    /\ UNCHANGED <<diskVars, bucketVars, stopPc, json, sync, errors, crashes>>

FirstRun ==
    /\ firstPc = "spawned"
    /\ firstPc' = "running" /\ Goto("first", "lock")
    /\ UNCHANGED <<diskVars, bucketVars, loopPc, wg, stopPc, json, errors, crashes>>

FirstEnd ==
    /\ firstPc = "running" /\ At("first", "unlock")
    /\ firstPc' = "done" /\ Become("first", NoSync)
    /\ UNCHANGED <<diskVars, bucketVars, loopPc, wg, stopPc, json, errors, crashes>>

(* A tick of the shipper, or the last run when the context is done.        *)
Tick ==
    /\ loopPc = "select"
    /\ loopPc' = "sync" /\ Goto("loop", "lock")
    /\ UNCHANGED <<diskVars, bucketVars, firstPc, wg, stopPc, json, errors, crashes>>

LastRun ==
    /\ loopPc = "select" /\ stopPc \in {"wait", "returned"}
    /\ loopPc' = "last" /\ Goto("loop", "lock")
    /\ UNCHANGED <<diskVars, bucketVars, firstPc, wg, stopPc, json, errors, crashes>>

wgDone(pc) == IF pc = "last" THEN wg - 1 ELSE wg

LoopEnd ==
    /\ loopPc \in {"sync", "last"} /\ At("loop", "unlock")
    /\ Become("loop", NoSync)
    /\ loopPc' = IF loopPc = "sync" THEN "select" ELSE "done"
    /\ wg' = wgDone(loopPc)
    /\ UNCHANGED <<diskVars, bucketVars, firstPc, stopPc, json, errors, crashes>>

(* Stop closes the database, cancels the context and waits for the loop.   *)
Close ==
    /\ stopPc = "no" /\ loopPc # "down" /\ stopPc' = "closed"
    /\ UNCHANGED <<diskVars, bucketVars, loopPc, firstPc, wg, json, sync, errors, crashes>>

Cancel ==
    /\ stopPc = "closed" /\ stopPc' = "wait"
    /\ UNCHANGED <<diskVars, bucketVars, loopPc, firstPc, wg, json, sync, errors, crashes>>

Wait ==
    /\ stopPc = "wait" /\ wg = 0 /\ stopPc' = "returned"
    /\ UNCHANGED <<diskVars, bucketVars, loopPc, firstPc, wg, json, sync, errors, crashes>>

First == FirstRun \/ FirstEnd
Loop == LoopStart \/ LoopEnd
Stop == Cancel \/ Wait

(* The process ends: the disk and the bucket stay.                         *)
Die ==
    /\ removing' = NoRemoval
    /\ sync' = [g \in Runners |-> NoSync]
    /\ loopPc' = "down" /\ firstPc' = "new" /\ wg' = 0 /\ stopPc' = "no"
    /\ UNCHANGED <<created, dirs, disk, cleaned, bucketVars, json>>

Crash ==
    /\ crashes < MaxCrashes /\ stopPc # "returned" /\ loopPc # "down"
    /\ crashes' = crashes + 1
    /\ Die
    /\ UNCHANGED errors

(* BlockMetas does not find a meta.json or cannot read it: it logs this    *)
(* with a logger that is nil, in a goroutine of its own.                   *)
Panic(g) ==
    /\ At(g, "metas")
    /\ \/ ~Readable(sync[g].todo) /\ UNCHANGED errors
       \/ sync[g].todo # {} /\ Fail(g)
    /\ Die
    /\ UNCHANGED crashes

(* The process is started again.  New reads the metas as well and ends the *)
(* process in the same way.                                                *)
Start ==
    /\ loopPc = "down" /\ Readable(listed)
    /\ loopPc' = "new"
    /\ UNCHANGED <<diskVars, bucketVars, firstPc, wg, stopPc, json, sync, errors, crashes>>

(* The loop has ended, or there is no process.                             *)
Finished == loopPc \in {"done", "down"} /\ UNCHANGED vars

Next ==
    \/ Flush \/ CleanupStart \/ CleanupRemove \/ LateMeta
    \/ \E g \in Runners : Sync(g) \/ Panic(g)
    \/ First \/ Loop \/ Tick \/ LastRun \/ Close \/ Stop \/ Crash \/ Start \/ Finished

Spec == Init /\ [][Next]_vars

(* Goroutines that can go on do, the ticker ticks again and again, the     *)
(* select of the loop does not ignore a context that is done, and whoever  *)
(* runs the process starts it again.                                       *)
FairSpec ==
    /\ Spec
    /\ WF_vars(First) /\ WF_vars(Loop) /\ WF_vars(Stop) /\ WF_vars(Tick) /\ SF_vars(LastRun)
    /\ \A g \in Runners : SF_vars(Lock(g)) /\ WF_vars(Sync(g) \/ Panic(g))
    /\ WF_vars(Start)

-----------------------------------------------------------------------------
(* Properties *)

(* Where a Sync is while it uploads a block, and the other places.         *)
Uploading == {"write", "open", "files", "cleanMeta", "cleanFiles"}
Waiting == {"idle", "lock"}

SyncState ==
    [pc : Waiting \cup Uploading
          \cup {"read", "list", "metas", "next", "remove", "rename", "unlock"},
     has : SUBSET Blocks, uploaded : SUBSET Blocks, todo : SUBSET Blocks,
     block : 0..N, left : SUBSET Files]

DiskTypeOK ==
    /\ created \in 0..N /\ dirs \subseteq Blocks /\ cleaned \subseteq Blocks
    /\ disk \in [Blocks -> SUBSET Objects]
    /\ removing \in [block : 0..N, left : SUBSET Objects]

BucketTypeOK ==
    /\ bucket \in [Blocks -> SUBSET Objects]
    /\ late \subseteq Blocks /\ unsure \subseteq Blocks

(* The loop is registered with the wait group from its start to its end.   *)
InstanceTypeOK ==
    /\ loopPc \in {"down", "new", "select", "sync", "last", "done"}
    /\ firstPc \in {"new", "spawned", "running", "done"}
    /\ stopPc \in {"no", "closed", "wait", "returned"}
    /\ wg = IF loopPc \in {"select", "sync", "last"} THEN 1 ELSE 0
    /\ errors \in 0..MaxErrors /\ crashes \in 0..MaxCrashes

TypeOK ==
    /\ DiskTypeOK /\ BucketTypeOK /\ InstanceTypeOK
    /\ json \in [present : BOOLEAN, uploaded : SUBSET Blocks]
    /\ sync \in [Runners -> SyncState]

Complete(b) == bucket[b] = Objects

(* A block that has its meta.json in the bucket has all its files there,   *)
(* at any time during uploads, failed uploads, their cleanup and crashes:  *)
(* readers of the bucket take meta.json for the sign of a valid block.     *)
MetaMeansComplete ==
    \A b \in Blocks : "meta.json" \in bucket[b] => Files \subseteq bucket[b]

(* The same for the blocks with no upload of meta.json that failed and     *)
(* appeared later.                                                         *)
MetaMeansCompleteUnlessLate ==
    \A b \in Blocks \ unsure : "meta.json" \in bucket[b] => Files \subseteq bucket[b]

(* What shipper.json lists, and what a Sync is about to write to it, is    *)
(* complete in the bucket, so skipping a listed block loses nothing.       *)
UploadedAreComplete ==
    \A b \in (json.uploaded \cup UNION {sync[g].uploaded : g \in Runners}) \ unsure : Complete(b)

(* A block that was flushed is complete in the bucket in the end, if it is *)
(* not compacted, the cleanup does not delete it and the instance is not   *)
(* stopped before, whatever fails and wherever the process crashes.        *)
BlockIsShipped ==
    \A b \in Blocks \ Compacted :
        b <= created ~> Complete(b) \/ b \in cleaned \/ stopPc # "no"

(* The same as long as the cleanup deletes no block at all and the upload  *)
(* of the meta.json of the block did not appear after it had failed.       *)
BlockIsShippedUnlessCleaned ==
    \A b \in Blocks \ Compacted :
        b <= created ~> Complete(b) \/ cleaned # {} \/ b \in unsure \/ stopPc # "no"

(* "not found in block try to generate it": a directory without meta.json, *)
(* left behind by a cleanup that a crash or a panic has ended, does not    *)
(* keep the process from starting.                                         *)
ProcessStarts == loopPc = "down" ~> loopPc # "down"

(* When Stop has returned, the last run of the shipper has ended.          *)
LastRunBeforeStop == stopPc = "returned" => loopPc = "done"

(* Once shipper.json is there it stays: a reader, or the next process,     *)
(* finds the old or the new file.                                          *)
MetaFileIsReplaced == [][json.present => json'.present]_vars

-----------------------------------------------------------------------------
(* The inductive invariant *)

(* Only one Sync at a time is past shipperLock.                            *)
OneSyncAtATime ==
    \A g, h \in Runners : g # h => sync[g].pc \in Waiting \/ sync[h].pc \in Waiting

(* The block a Sync uploads, or cleans up after, has no meta.json in the   *)
(* bucket: only then may its objects be removed again.                     *)
UploadingIsNotThere ==
    \A g \in Runners :
        sync[g].pc \in Uploading =>
            /\ sync[g].block \in Blocks
            /\ sync[g].block \in unsure \/ "meta.json" \notin bucket[sync[g].block]

(* The files a Sync has dealt with are in the bucket.                      *)
SentIsThere ==
    \A g \in Runners :
        sync[g].pc = "files" => Files \ sync[g].left \subseteq bucket[sync[g].block]

(* A block that shipper.json lists, listed when a Sync read it, or is      *)
(* about to be listed, is complete.                                        *)
ListedAreComplete ==
    /\ \A b \in json.uploaded \ unsure : Complete(b)
    /\ \A g \in Runners : \A b \in (sync[g].uploaded \cup sync[g].has) \ unsure : Complete(b)

BucketIsSafe ==
    /\ late \subseteq unsure
    /\ OneSyncAtATime /\ UploadingIsNotThere /\ SentIsThere /\ ListedAreComplete
    /\ MetaMeansCompleteUnlessLate

IInv == TypeOK /\ BucketIsSafe
=============================================================================

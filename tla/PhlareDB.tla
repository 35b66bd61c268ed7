------------------------------ MODULE PhlareDB ------------------------------
(***************************************************************************)
(* The life of the profiles of one tenant at one ingester: a profile is    *)
(* ingested into the head, the head is exchanged for a new one and written *)
(* to a block, the block is found by a sync of the block querier, and it   *)
(* is deleted when the disk is full.  Ingests, queries, flushes requested  *)
(* over the API, the loop of the database, a shutdown and crashes          *)
(* interleave.                                                             *)
(*                                                                         *)
(* A head and the block it is written to share a ULID.  The tables of a    *)
(* head are in module Head; here a flush takes the rows of a head in one   *)
(* step, and an ingest adds its row in one step.                           *)
(***************************************************************************)
EXTENDS BlockQuerier

CONSTANTS
    MaxQueries,    \* bound: how many queries there are, one after the other
    MaxCrashes,    \* bound: how often the process crashes
    MaxAvailable   \* bound: the values BytesAvailable can have

ASSUME PhlareDBAssumption ==
    /\ MaxQueries \in Nat /\ MaxCrashes \in Nat /\ MaxAvailable \in Nat
    /\ 1 \in ULIDs

VARIABLES
    alive,        \* whether the process is running
    crashes,
    head,         \* f.head, 0 when it is nil
    nextULID,     \* the ULID of the next head
    rows,         \* the profiles in memory in each head
    flushCh,      \* the heads whose flushCh is closed
    headLoops,    \* the heads whose loop runs
    tablesClosed, \* the heads whose tables are closed
    ingest,       \* the ingest of each profile: where it is and in which head
    flush,        \* each call of Flush: where it is and the head it writes
    loopPc,       \* where the loop of the database is
    loopCh,       \* the head whose flushCh the loop selects on
    lastStats,    \* cleanup: BytesAvailable at the last deletion, -1 for none
    lastULID,     \* cleanup: the block deleted last, 0 for none
    closePc,      \* where the shutdown is
    query,        \* a query: where it is, what it has captured and read
    deleted,      \* history: the blocks the cleanup has deleted
    failed,       \* history: the heads whose flush failed
    late,         \* history: the profiles added after their head was written
    lost,         \* history: the profiles lost by a crash
    beforeStop    \* history: the profiles acknowledged before the shutdown

dbVars == <<alive, crashes, head, nextULID, rows, flushCh, headLoops, tablesClosed>>
loopVars == <<loopPc, loopCh, lastStats, lastULID>>
history == <<deleted, failed, late, lost, beforeStop>>
blockVars == <<disk, querierVars, syncVars>>
vars == <<dbVars, loopVars, history, blockVars, ingest, flush, closePc, query>>

(* Flush is called by the loop, over the API and by the lifecycler when    *)
(* the ingester stops.                                                     *)
Flushers == {"loop", "api", "stop"}

NoIngest == [pc |-> "idle", head |-> 0]
NoFlush == [pc |-> "idle", head |-> 0]
NoQuery == [pc |-> "idle", blocks |-> {}, head |-> 0,
            count |-> [p \in Profiles |-> 0], before |-> {}, number |-> 0]

Acknowledged == {p \in Profiles : ingest[p].pc = "acked"}

Init ==
    /\ QuerierInit
    /\ local = {}
    /\ blockRows = [u \in ULIDs |-> {}]
    /\ alive = TRUE
    /\ crashes = 0
    /\ head = 1
    /\ nextULID = 2
    /\ rows = [u \in ULIDs |-> {}]
    /\ flushCh = {}
    /\ headLoops = {1}
    /\ tablesClosed = {}
    /\ ingest = [p \in Profiles |-> NoIngest]
    /\ flush = [f \in Flushers |-> NoFlush]
    /\ loopPc = "top"
    /\ loopCh = 0
    /\ lastStats = -1
    /\ lastULID = 0
    /\ closePc = "run"
    /\ query = NoQuery
    /\ deleted = {} /\ failed = {} /\ late = {} /\ lost = {}
    /\ beforeStop = {}

----------------------------------------------------------------------------
(* Ingester.Push                                                           *)

(* instance.Head(); a nil head is a panic of the handler.                  *)
PushGetHead(p) ==
    /\ alive
    /\ ingest[p].pc = "idle"
    /\ head # 0
    /\ ingest' = [ingest EXCEPT ![p] = [pc |-> "ingest", head |-> head]]
    /\ UNCHANGED <<dbVars, loopVars, history, blockVars, flush, closePc, query>>

(* Whether a flush of head u has not yet taken the rows of its profiles.   *)
TakesRows(u) ==
    \/ u = head
    \/ \E f \in Flushers : flush[f].head = u /\ flush[f].pc \in {"check", "write"}

(* Head.Ingest has added the profile, and the call is acknowledged.        *)
PushIngest(p) ==
    LET u == ingest[p].head
    IN  /\ alive
        /\ ingest[p].pc = "ingest"
        /\ rows' = [rows EXCEPT ![u] = @ \cup {p}]
        /\ ingest' = [ingest EXCEPT ![p].pc = "acked"]
        /\ late' = IF TakesRows(u) THEN late ELSE late \cup {p}
        /\ UNCHANGED <<alive, crashes, head, nextULID, flushCh, headLoops,
                       tablesClosed, loopVars, deleted, failed, lost, beforeStop,
                       blockVars, flush, closePc, query>>

----------------------------------------------------------------------------
(* Head.loop: the timer has fired or the head has reached its size.        *)
HeadLoop(u) ==
    /\ alive
    /\ u \in headLoops
    /\ flushCh' = flushCh \cup {u}
    /\ headLoops' = headLoops \ {u}
    /\ UNCHANGED <<alive, crashes, head, nextULID, rows, tablesClosed, loopVars,
                   history, blockVars, ingest, flush, closePc, query>>

----------------------------------------------------------------------------
(* PhlareDB.Flush                                                          *)

(* What the caller of Flush does with its result.                          *)
Return(f, ok) ==
    /\ flush' = [flush EXCEPT ![f] = NoFlush]
    /\ loopPc' = IF f # "loop" THEN loopPc ELSE IF ok THEN "cleanup" ELSE "top"
    /\ closePc' = IF f = "stop" THEN "flushed" ELSE closePc

NewHeadAsOld == head'

(* The head that initHead returns.                                         *)
oldHead == head

(* initHead exchanges the head under its lock.                             *)
initHead(f) ==
    /\ flush[f].pc = "idle"
    /\ nextULID \in ULIDs
    /\ nextULID' = nextULID + 1
    /\ head' = nextULID
    /\ headLoops' = headLoops \cup {nextULID}
    /\ IF oldHead = 0
         THEN Return(f, TRUE)
         ELSE /\ flush' = [flush EXCEPT ![f] = [pc |-> "check", head |-> oldHead]]
              /\ loopPc' = IF f = "loop" THEN "flush" ELSE loopPc
              /\ closePc' = IF f = "stop" THEN "flush" ELSE closePc
    /\ UNCHANGED failed

(* NewHead has failed: the head is nil, and the old one is dropped.        *)
initHeadFails(f) ==
    /\ flush[f].pc = "idle"
    /\ head' = 0
    /\ failed' = failed \cup ({head} \ {0})
    /\ Return(f, FALSE)
    /\ UNCHANGED <<nextULID, headLoops>>

CallFlush(f) ==
    /\ alive
    /\ initHead(f) \/ initHeadFails(f)
    /\ UNCHANGED <<alive, crashes, rows, flushCh, tablesClosed, loopCh, lastStats,
                   lastULID, deleted, late, lost, blockVars, ingest, query>>

(* Ingester.Flush over the API.                                            *)
ApiFlush == CallFlush("api") /\ UNCHANGED beforeStop

flushing(f, pc) == alive /\ flush[f].pc = pc

(* An empty head is not written.                                           *)
FlushCheck(f) ==
    /\ flushing(f, "check")
    /\ IF rows[flush[f].head] = {}
         THEN Return(f, TRUE)
         ELSE flush' = [flush EXCEPT ![f].pc = "write"] /\ UNCHANGED <<loopPc, closePc>>
    /\ UNCHANGED <<dbVars, loopCh, lastStats, lastULID, history, blockVars, ingest,
                   query>>

(* The index and the tables are written, unless they have been closed.     *)
FlushWrite(f) ==
    LET u == flush[f].head
    IN  /\ flushing(f, "write")
        /\ \/ /\ u \notin tablesClosed
              /\ blockRows' = [blockRows EXCEPT ![u] = rows[u]]
              /\ tablesClosed' = tablesClosed \cup {u}
              /\ flush' = [flush EXCEPT ![f].pc = "rename"]
              /\ UNCHANGED <<failed, loopPc, closePc>>
           \/ /\ failed' = failed \cup {u}
              /\ Return(f, FALSE)
              /\ UNCHANGED <<blockRows, tablesClosed>>
        /\ UNCHANGED <<alive, crashes, head, nextULID, rows, flushCh, headLoops,
                       loopCh, lastStats, lastULID, deleted, late, lost, beforeStop,
                       local, querierVars, syncVars, ingest, query>>

(* The block moves from the head directory to the local one.               *)
FlushRename(f) ==
    LET u == flush[f].head
    IN  /\ flushing(f, "rename")
        /\ \/ local' = local \cup {u} /\ Return(f, TRUE) /\ UNCHANGED failed
           \/ failed' = failed \cup {u} /\ Return(f, FALSE) /\ UNCHANGED local
        /\ UNCHANGED <<dbVars, loopCh, lastStats, lastULID, deleted, late, lost,
                       beforeStop, blockRows, querierVars, syncVars, ingest, query>>

FlushStep(f) == FlushCheck(f) \/ FlushWrite(f) \/ FlushRename(f)

----------------------------------------------------------------------------
(* PhlareDB.loop                                                           *)

(* The select evaluates f.Head().flushCh once.                             *)
LoopTop ==
    /\ alive
    /\ loopPc = "top"
    /\ head # 0
    /\ loopPc' = "select"
    /\ loopCh' = head
    /\ UNCHANGED <<dbVars, lastStats, lastULID, history, blockVars, ingest, flush,
                   closePc, query>>

LoopFlush ==
    /\ loopPc = "select"
    /\ loopCh \in flushCh
    /\ CallFlush("loop")
    /\ UNCHANGED beforeStop

StartCleanup == loopPc' = "cleanup" /\ lastStats' = -1 /\ lastULID' = 0

NoTick == FALSE /\ StartCleanup

(* blockScanTicker                                                         *)
Tick == StartCleanup

LoopTick ==
    /\ alive
    /\ loopPc = "select"
    /\ Tick
    /\ UNCHANGED <<dbVars, loopCh, history, blockVars, ingest, flush, closePc, query>>

ClosedAfterWait == closePc = "closed"

stopChClosed == closePc = "wait"

LoopStop ==
    /\ alive
    /\ loopPc = "select"
    /\ stopChClosed
    /\ loopPc' = "done"
    /\ UNCHANGED <<dbVars, loopCh, lastStats, lastULID, history, blockVars, ingest,
                   flush, closePc, query>>

(* One turn of cleanupBlocksWhenHighDiskUtilization that deletes a block.  *)
CleanupDelete ==
    /\ alive
    /\ loopPc = "cleanup"
    /\ \E current \in 0..MaxAvailable, u \in local :
          /\ lastStats < current
          /\ \A v \in local : u <= v
          /\ u # lastULID
          /\ local' = local \ {u}
          /\ deleted' = deleted \cup {u}
          /\ lastStats' = current
          /\ lastULID' = u
    /\ UNCHANGED <<dbVars, loopPc, loopCh, failed, late, lost, beforeStop, blockRows,
                   querierVars, syncVars, ingest, flush, closePc, query>>

EndWithoutSync ==
    /\ alive /\ loopPc = "cleanup" /\ loopPc' = "top" /\ lastStats' = -1 /\ lastULID' = 0
    /\ UNCHANGED <<dbVars, loopCh, history, blockVars, ingest, flush, closePc, query>>

(* There is space, nothing to delete, no progress or an error.             *)
CleanupEnd ==
    /\ alive
    /\ loopPc = "cleanup"
    /\ loopPc' = "sync"
    /\ lastStats' = -1
    /\ lastULID' = 0
    /\ UNCHANGED <<dbVars, loopCh, history, blockVars, ingest, flush, closePc, query>>

LoopSync ==
    /\ alive
    /\ loopPc = "sync"
    /\ \/ SyncObserve /\ UNCHANGED loopPc
       \/ SyncFails /\ loopPc' = "top"
       \/ (SyncApply \/ SyncClose) /\ UNCHANGED loopPc
       \/ SyncEnd /\ loopPc' = "top"
    /\ UNCHANGED <<dbVars, loopCh, lastStats, lastULID, history, ingest, flush,
                   closePc, query>>

Loop == LoopTop \/ LoopFlush \/ LoopTick \/ LoopStop \/ CleanupDelete \/ CleanupEnd
        \/ LoopSync

----------------------------------------------------------------------------
(* Ingester.stopping: the lifecycler flushes, then PhlareDB.Close.         *)

NoStopFlush ==
    /\ alive /\ closePc = "run" /\ closePc' = "flushed" /\ beforeStop' = Acknowledged
    /\ UNCHANGED <<dbVars, loopVars, deleted, failed, late, lost, blockVars, ingest, flush, query>>

StopFlush ==
    /\ closePc = "run"
    /\ CallFlush("stop")
    /\ beforeStop' = Acknowledged

(* A nil head is not closed.                                               *)
headToClose == {head} \ {0}

(* Close reads the head without its lock and closes it.                    *)
CloseHead ==
    /\ alive
    /\ closePc = "flushed"
    /\ closePc' = "stopCh"
    /\ headLoops' = headLoops \ headToClose
    /\ tablesClosed' = tablesClosed \cup headToClose
    /\ UNCHANGED <<alive, crashes, head, nextULID, rows, flushCh, loopVars, history,
                   blockVars, ingest, flush, query>>

CloseStopCh ==
    /\ alive
    /\ closePc = "stopCh"
    /\ closePc' = "wait"
    /\ UNCHANGED <<dbVars, loopVars, history, blockVars, ingest, flush, query>>

CloseQueriers ==
    /\ alive
    /\ closePc = "wait"
    /\ loopPc = "done"
    /\ closePc' = "closed"
    /\ closed' = closed \cup queriers
    /\ UNCHANGED <<dbVars, loopVars, history, disk, queriers, created, opened,
                   syncVars, ingest, flush, query>>

Close == CloseHead \/ CloseStopCh \/ CloseQueriers

----------------------------------------------------------------------------
(* querierFor and SelectMatchingProfiles of a query over all times         *)

QueryBlocks ==
    /\ alive
    /\ query.pc \in {"idle", "ok", "failed"}
    /\ query.number < MaxQueries
    /\ query' = [NoQuery EXCEPT !.pc = "inRange", !.blocks = queriers,
                                !.before = Acknowledged, !.number = query.number + 1]
    /\ UNCHANGED <<dbVars, loopVars, history, blockVars, ingest, flush, closePc>>

(* A head with profiles is in range; a nil head panics.                    *)
QueryInRange ==
    /\ alive
    /\ query.pc = "inRange"
    /\ query' = [query EXCEPT !.pc = IF head = 0 THEN "failed"
                                     ELSE IF rows[head] = {} THEN "read" ELSE "head"]
    /\ UNCHANGED <<dbVars, loopVars, history, blockVars, ingest, flush, closePc>>

(* The head is read again.                                                 *)
QueryHead ==
    /\ alive
    /\ query.pc = "head"
    /\ query' = IF head = 0 THEN [query EXCEPT !.pc = "failed"]
                ELSE [query EXCEPT !.pc = "read", !.head = head]
    /\ UNCHANGED <<dbVars, loopVars, history, blockVars, ingest, flush, closePc>>

plus(count, S) == [p \in Profiles |-> IF p \in S THEN count[p] + 1 ELSE count[p]]

BlocksAfterHead == queriers

(* querierFor has taken the blocks before it took the head.                *)
blocksToRead == query.blocks

(* The head is first in the list.                                          *)
ReadHead ==
    /\ alive
    /\ query.pc = "read"
    /\ query.head # 0
    /\ query' = [query EXCEPT !.head = 0, !.count = plus(@, rows[query.head]),
                              !.blocks = blocksToRead]
    /\ UNCHANGED <<dbVars, loopVars, history, blockVars, ingest, flush, closePc>>

(* A block, the oldest first: its files are opened, and an error ends the  *)
(* query.  The index of a closed querier is nil.                           *)
ReadBlock ==
    /\ alive
    /\ query.pc = "read"
    /\ query.head = 0
    /\ \E q \in query.blocks :
          /\ \A r \in query.blocks : q.block <= r.block
          /\ \/ /\ q \in opened /\ q \in closed
                /\ query' = [query EXCEPT !.pc = "panic"]
                /\ UNCHANGED <<opened, closed>>
             \/ /\ ~(q \in opened /\ q \in closed)
                /\ open(q)
                /\ query' = [query EXCEPT !.blocks = @ \ {q},
                                          !.count = plus(@, blockRows[q.block])]
             \/ /\ ~canOpen(q)
                /\ query' = [query EXCEPT !.pc = "failed"]
                /\ UNCHANGED <<opened, closed>>
    /\ UNCHANGED <<dbVars, loopVars, history, disk, queriers, created,
                   syncVars, ingest, flush, closePc>>

ReadEnd ==
    /\ alive
    /\ query.pc = "read"
    /\ query.head = 0 /\ query.blocks = {}
    /\ query' = [query EXCEPT !.pc = "ok"]
    /\ UNCHANGED <<dbVars, loopVars, history, blockVars, ingest, flush, closePc>>

Query == QueryBlocks \/ QueryInRange \/ QueryHead \/ ReadHead \/ ReadBlock \/ ReadEnd

----------------------------------------------------------------------------
(* Crashes                                                                 *)

(* Whether profile p is in a block on disk.                                *)
OnDisk(p) == ingest[p].head \in local /\ p \in blockRows[ingest[p].head]

(* The memory of the process is gone.                                      *)
Die ==
    /\ alive' = FALSE
    /\ head' = 0
    /\ rows' = [u \in ULIDs |-> {}]
    /\ flushCh' = {} /\ headLoops' = {} /\ tablesClosed' = {}
    /\ loopCh' = 0 /\ lastStats' = -1 /\ lastULID' = 0
    /\ queriers' = {} /\ opened' = {} /\ closed' = {}
    /\ syncPc' = "idle" /\ metas' = {} /\ closing' = {}
    /\ flush' = [f \in Flushers |-> NoFlush]
    /\ ingest' = [p \in Profiles |-> IF ingest[p].pc = "acked" THEN ingest[p]
                                     ELSE NoIngest]
    /\ query' = NoQuery
    /\ lost' = lost \cup {p \in Acknowledged : ~OnDisk(p)}
    /\ UNCHANGED <<nextULID, created, deleted, failed, late, beforeStop, disk>>

Crash ==
    /\ alive
    /\ closePc = "run"
    /\ crashes < MaxCrashes
    /\ crashes' = crashes + 1
    /\ Die
    /\ loopPc' = "top"
    /\ UNCHANGED <<closePc, metaErrors>>

(* The loop takes flushCh of a nil head.                                   *)
LoopPanic ==
    /\ alive
    /\ loopPc = "top"
    /\ head = 0
    /\ Die
    /\ loopPc' = "panic"
    /\ UNCHANGED <<crashes, closePc, metaErrors>>

(* Sync meets a meta.json that it cannot read.                             *)
SyncPanic ==
    /\ alive
    /\ loopPc = "sync"
    /\ UnreadableMeta
    /\ Die
    /\ loopPc' = "unreadable"
    /\ UNCHANGED <<crashes, closePc>>

(* New: a new head, and a first sync finds the blocks.  A start whose sync *)
(* fails or panics is none.                                                *)
Restart ==
    /\ ~alive
    /\ closePc = "run"
    /\ nextULID \in ULIDs
    /\ alive' = TRUE
    /\ head' = nextULID
    /\ nextULID' = nextULID + 1
    /\ headLoops' = {nextULID}
    /\ loopPc' = "top"
    /\ queriers' = newQueriers(local)
    /\ created' = [u \in ULIDs |-> IF u \in local THEN created[u] + 1 ELSE created[u]]
    /\ UNCHANGED <<crashes, rows, flushCh, tablesClosed, loopCh, lastStats, lastULID,
                   history, disk, opened, closed, syncVars, ingest, flush, closePc, query>>

(* The process is gone, or its data is closed.                             *)
Finished ==
    /\ closePc = "closed" \/ ~alive
    /\ UNCHANGED vars

Next ==
    \/ \E p \in Profiles : PushGetHead(p) \/ PushIngest(p)
    \/ \E u \in ULIDs : HeadLoop(u)
    \/ ApiFlush
    \/ \E f \in Flushers : FlushStep(f)
    \/ Loop
    \/ StopFlush
    \/ Close
    \/ Query
    \/ Crash
    \/ LoopPanic
    \/ SyncPanic
    \/ Restart
    \/ Finished

Spec == Init /\ [][Next]_vars

(* The goroutines of the loop, of the flushes and of Close are scheduled.  *)
(* A select takes any of its ready channels, so the loop cannot miss a     *)
(* closed stopCh or flushCh for ever.  Nothing makes a head full, a client *)
(* call or a process crash.                                                *)
Fairness ==
    /\ WF_vars(Loop \/ LoopPanic) /\ SF_vars(LoopStop) /\ SF_vars(LoopFlush)
    /\ WF_vars(Close)
    /\ \A f \in Flushers : WF_vars(FlushStep(f))

FairSpec == Spec /\ Fairness

----------------------------------------------------------------------------
(* Properties                                                              *)

IngestState == [pc : {"idle", "ingest", "acked"}, head : ULIDs \cup {0}]
FlushState == [pc : {"idle", "check", "write", "rename"}, head : ULIDs \cup {0}]
QueryState == [pc : {"idle", "inRange", "head", "read", "ok", "failed", "panic"},
               blocks : SUBSET Querier, head : ULIDs \cup {0},
               count : [Profiles -> Nat], before : SUBSET Profiles,
               number : 0..MaxQueries]

DBTypeOK ==
    /\ alive \in BOOLEAN
    /\ crashes \in 0..MaxCrashes
    /\ head \in ULIDs \cup {0}
    /\ nextULID \in Nat
    /\ rows \in [ULIDs -> SUBSET Profiles]
    /\ flushCh \in SUBSET ULIDs /\ headLoops \in SUBSET ULIDs
    /\ tablesClosed \in SUBSET ULIDs

LoopTypeOK ==
    /\ loopPc \in {"top", "select", "flush", "cleanup", "sync", "done", "panic", "unreadable"}
    /\ loopCh \in ULIDs \cup {0}
    /\ lastStats \in -1..MaxAvailable
    /\ lastULID \in ULIDs \cup {0}
    /\ closePc \in {"run", "flush", "flushed", "stopCh", "wait", "closed"}

HistoryTypeOK ==
    /\ deleted \in SUBSET ULIDs /\ failed \in SUBSET ULIDs
    /\ late \in SUBSET Profiles /\ lost \in SUBSET Profiles
    /\ beforeStop \in SUBSET Profiles

TypeOK ==
    /\ QuerierTypeOK /\ DBTypeOK /\ LoopTypeOK /\ HistoryTypeOK
    /\ ingest \in [Profiles -> IngestState]
    /\ flush \in [Flushers -> FlushState]
    /\ query \in QueryState

(* A query never counts a profile twice, whatever flushes and syncs happen *)
(* while it collects its queriers: querierFor takes the blocks before the  *)
(* head, so it can never have a head and the block it was written to.      *)
NoProfileTwice == \A p \in Profiles : query.count[p] <= 1

(* While the database is open, the list has one querier for a block and no *)
(* querier that was closed, although Sync closes queriers after it has     *)
(* released the lock and may fail half way.                                *)
QueriersAreUsable ==
    closePc # "closed" =>
        /\ queriers \cap closed = {}
        /\ \A q, r \in queriers : q.block = r.block => q = r

(* The losses the design accepts: the cleanup has deleted the block, the   *)
(* flush of the head has failed, the profile was added after its head was  *)
(* written, or the process has crashed.                                    *)
AcceptedLoss(p) ==
    \/ ingest[p].head \in deleted \cup failed
    \/ p \in late \cup lost

(* A profile whose ingestion was acknowledged is in the head, in a head    *)
(* that is being written or in a block, unless it is an accepted loss.  No *)
(* order of flushes by the loop, the API and the shutdown drops a head.    *)
OnlyAcceptedLosses ==
    \A p \in Acknowledged :
        \/ OnDisk(p)
        \/ ingest[p].head = head
        \/ \E f \in Flushers : flush[f].head = ingest[p].head
        \/ AcceptedLoss(p)

(* A shutdown writes the head: when Close has returned, what had been      *)
(* acknowledged before the shutdown began is on disk, or still being       *)
(* written by a flush requested over the API.                              *)
ShutdownWritesHead ==
    closePc = "closed" =>
        \A p \in beforeStop : \/ OnDisk(p)
                              \/ flush["api"].head = ingest[p].head
                              \/ AcceptedLoss(p)

(* A head that has reached its size or age is exchanged, although the loop *)
(* may be selecting on the channel of a head that a flush over the API has *)
(* replaced.                                                               *)
FullHeadIsExchanged ==
    (head \in flushCh) ~> (head \notin flushCh \/ closePc # "run" \/ nextULID \notin ULIDs)

(* "Open/Close new/no longer existing ones": as long as the process runs,  *)
(* queries find every block of the local directory again and again,        *)
(* whoever has flushed it and although a Sync may fail before or after it  *)
(* has exchanged the list.                                                 *)
BlocksAreFound ==
    []<>(local \subseteq blocksOf(queriers) \/ ~alive \/ closePc # "run")

(* Close returns: the loop it waits for ends, even out of a flush.         *)
CloseReturns == (closePc = "flushed") ~> (closePc = "closed" \/ ~alive)

(* "If a profile labels is missing here, it has already been flushed and   *)
(* is supposed to be picked up from storage by querier": a query that      *)
(* succeeds returns every profile that was acknowledged when it began.     *)
QueryIsComplete ==
    query.pc = "ok" =>
        \A p \in query.before : query.count[p] > 0 \/ AcceptedLoss(p)

(* The loop logs "flushing head block failed" and continues: a failed      *)
(* flush does not take the process down.                                   *)
LoopSurvives == loopPc # "panic"

(* "error reading block meta", after which BlockMetas goes on without the  *)
(* block: a meta.json that cannot be read does not take the process down.  *)
UnreadableIsLeftOut == loopPc # "unreadable"

(* "goleak.VerifyNone": a database that was closed leaves no goroutine     *)
(* behind.                                                                 *)
NoGoroutineLeft ==
    closePc = "closed" /\ (\A f \in Flushers : flush[f] = NoFlush) => headLoops = {}

(* "already open": while the database is open, a querier with the field    *)
(* opened set can be read.                                                 *)
OpenedIsOpen == closePc # "closed" => query.pc # "panic"
----------------------------------------------------------------------------
(* The inductive invariant                                                 *)

(* Every ULID in use was given to a head before.                           *)
ULIDsAreFresh ==
    /\ head < nextULID
    /\ \A p \in Profiles : ingest[p].head < nextULID
    /\ \A f \in Flushers : flush[f].head < nextULID
    /\ \A u \in local \cup metas : u < nextULID
    /\ \A q \in queriers \cup query.blocks : q.block < nextULID

(* A head is in memory, written by one flush or in the local directory: a  *)
(* head that is not nil is not being flushed, no two flushes have the same *)
(* head, and no block is written twice.                                    *)
HeadsAreFlushedOnce ==
    /\ \A f \in Flushers :
          /\ flush[f].pc = "idle" <=> flush[f].head = 0
          /\ flush[f].head # 0 => flush[f].head # head
          /\ flush[f].head \notin local
    /\ \A f, g \in Flushers : flush[f].head = flush[g].head => f = g \/ flush[f].head = 0

(* The blocks that Sync, the queriers and a query know of are not the      *)
(* head.                                                                   *)
HeadIsNoBlock ==
    /\ head \notin local \cup metas
    /\ \A q \in queriers : q.block # head
    /\ query.pc \in {"inRange", "head"} => \A q \in query.blocks : q.block # head

(* A profile is in the one head it was given, and in its block.            *)
RowsOfOneHead ==
    /\ \A p \in Profiles : ingest[p].pc = "idle" <=> ingest[p].head = 0
    /\ \A u \in ULIDs : \A p \in rows[u] \cup blockRows[u] :
          ingest[p].pc = "acked" /\ ingest[p].head = u

(* The number of a querier is at most that of its block; queriers that are *)
(* about to be closed are out of the list.                                 *)
QueriersAreNumbered ==
    /\ \A q \in queriers \cup opened \cup closed \cup closing \cup query.blocks :
          q.number <= created[q.block]
    /\ queriers \cap closing = {}
    /\ \A q, r \in queriers : q.block = r.block => q = r
    /\ closePc # "closed" => queriers \cap closed = {}

(* What a query has counted is not among what it has still to read.        *)
CountedOnce ==
    /\ \A q, r \in query.blocks : q.block = r.block => q = r
    /\ \A q \in query.blocks : q.block # query.head
    /\ query.pc \in {"idle", "inRange", "head"} =>
          query.head = 0 /\ \A p \in Profiles : query.count[p] = 0
    /\ \A p \in Profiles : query.count[p] # 0 =>
          /\ query.count[p] = 1
          /\ ingest[p].pc = "acked"
          /\ ingest[p].head # query.head
          /\ \A q \in query.blocks : q.block # ingest[p].head

(* An acknowledged profile is in the rows of its head until a crash; when  *)
(* the rows were written it is in them, or it came late.                   *)
RowsAreKept ==
    /\ \A p \in Acknowledged :
          \/ p \in rows[ingest[p].head]
          \/ OnDisk(p)
          \/ p \in lost
          \/ ingest[p].head \in deleted
    /\ \A p \in Acknowledged : \A f \in Flushers :
          flush[f].pc = "rename" /\ flush[f].head = ingest[p].head =>
              p \in blockRows[ingest[p].head] \/ AcceptedLoss(p)

(* Where the loop and the shutdown are while they flush; the shutdown has  *)
(* exchanged the head of what was acknowledged before.                     *)
ShutdownOrder ==
    /\ flush["loop"].pc # "idle" => loopPc = "flush"
    /\ flush["stop"].pc # "idle" => closePc = "flush"
    /\ closePc = "closed" => loopPc = "done"
    /\ \A p \in beforeStop : ingest[p].pc = "acked" /\ ingest[p].head # head

(* A process that has died has no head and no flush.                       *)
DeadHoldsNothing == alive \/ (head = 0 /\ \A f \in Flushers : flush[f].pc = "idle")

IInv ==
    /\ TypeOK /\ DeadHoldsNothing /\ ULIDsAreFresh /\ HeadsAreFlushedOnce /\ HeadIsNoBlock
    /\ RowsOfOneHead /\ QueriersAreNumbered /\ CountedOnce /\ RowsAreKept
    /\ OnlyAcceptedLosses /\ ShutdownOrder
=============================================================================

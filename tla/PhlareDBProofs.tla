--------------------------- MODULE PhlareDBProofs ---------------------------
(***************************************************************************)
(* Theorems about PhlareDB for every number of blocks, profiles, queries   *)
(* and crashes.                                                            *)
(***************************************************************************)
EXTENDS PhlareDB, TLAPS

(* The steps of the actions of Next, one by one.                           *)
LEMMA Steps ==
    ASSUME Next
    PROVE  \/ \E p \in Profiles : PushGetHead(p) \/ PushIngest(p)
           \/ \E u \in ULIDs : HeadLoop(u)
           \/ ApiFlush \/ LoopFlush \/ StopFlush
           \/ \E f \in Flushers : FlushCheck(f) \/ FlushWrite(f) \/ FlushRename(f)
           \/ LoopTop \/ LoopTick \/ LoopStop \/ CleanupDelete \/ CleanupEnd \/ LoopSync
           \/ CloseHead \/ CloseStopCh \/ CloseQueriers
           \/ QueryBlocks \/ QueryInRange \/ QueryHead \/ ReadHead \/ ReadBlock \/ ReadEnd
           \/ Crash \/ LoopPanic \/ SyncPanic \/ Restart
           \/ UNCHANGED vars
BY Zenon DEF Next, FlushStep, Loop, Close, Query, Finished

(* The count of the syncs that failed stays within its bound.              *)
LEMMA MetaErrorType ==
    ASSUME TypeOK, MetaError
    PROVE  metaErrors' \in 0..MaxMetaErrors
<1>1. metaErrors \in 0..MaxMetaErrors /\ metaErrors < MaxMetaErrors
      /\ metaErrors' = metaErrors + 1
  BY Zenon DEF MetaError, TypeOK, QuerierTypeOK
<1> QED BY ONLY <1>1, BlockQuerierAssumption

(* What the caller of Flush is left with is well typed.                    *)
LEMMA ReturnType ==
    ASSUME TypeOK, NEW f \in Flushers, NEW ok \in BOOLEAN, Return(f, ok)
    PROVE  /\ flush' \in [Flushers -> FlushState]
           /\ loopPc' \in {"top", "select", "flush", "cleanup", "sync", "done", "panic", "unreadable"}
           /\ closePc' \in {"run", "flush", "flushed", "stopCh", "wait", "closed"}
<1>1. NoFlush \in FlushState
  BY DEF NoFlush, FlushState
<1> QED BY Zenon, <1>1 DEF TypeOK, LoopTypeOK, Return

(* A flush has a head to write.                                            *)
LEMMA FlushedHead ==
    ASSUME TypeOK, HeadsAreFlushedOnce, NEW f \in Flushers,
           flush[f].pc \in {"check", "write", "rename"}
    PROVE  flush[f].head \in ULIDs
<1>1. flush[f].head \in ULIDs \cup {0}
  BY DEF TypeOK, FlushState
<1>2. flush[f].pc # "idle"
  OBVIOUS
<1>3. flush[f].head # 0
  BY Zenon, <1>2 DEF HeadsAreFlushedOnce
<1> QED BY Zenon, <1>1, <1>3

(* What a step of a query leaves is well typed.                            *)
LEMMA QueryType ==
    ASSUME TypeOK, QueryBlocks \/ QueryInRange \/ QueryHead \/ ReadHead \/ ReadBlock \/ ReadEnd
    PROVE  query' \in QueryState
<1>0. query \in QueryState /\ queriers \in SUBSET Querier
  BY Zenon DEF TypeOK, QuerierTypeOK
<1>1. CASE QueryBlocks
  <2>1. query.number + 1 \in 0..MaxQueries
    BY ONLY <1>0, <1>1, PhlareDBAssumption DEF QueryBlocks, QueryState
  <2>2. Acknowledged \in SUBSET Profiles
    BY Zenon DEF Acknowledged
  <2>3. query' = [NoQuery EXCEPT !.pc = "inRange", !.blocks = queriers,
                                 !.before = Acknowledged, !.number = query.number + 1]
    BY Zenon, <1>1 DEF QueryBlocks
  <2> QED BY ONLY Zenon, <1>0, <2>1, <2>2, <2>3 DEF NoQuery, QueryState
<1>2. CASE QueryInRange
  BY ONLY <1>0, <1>2 DEF QueryInRange, QueryState
<1>3. CASE QueryHead
  <2>1. head \in ULIDs \cup {0}
    BY Zenon DEF TypeOK, DBTypeOK
  <2> QED BY ONLY Zenon, <1>0, <1>3, <2>1 DEF QueryHead, QueryState
<1>4. CASE ReadHead
  <2>1. plus(query.count, rows[query.head]) \in [Profiles -> Nat]
    BY ONLY <1>0 DEF plus, QueryState
  <2> QED BY ONLY Zenon, <1>0, <1>4, <2>1 DEF ReadHead, blocksToRead, QueryState
<1>5. CASE ReadBlock
  <2>1. ASSUME NEW q \in query.blocks,
               query' = [query EXCEPT !.blocks = @ \ {q},
                                      !.count = plus(@, blockRows[q.block])]
        PROVE  query' \in QueryState
    <3>1. plus(query.count, blockRows[q.block]) \in [Profiles -> Nat]
      BY ONLY <1>0 DEF plus, QueryState
    <3> QED BY ONLY Zenon, <1>0, <2>1, <3>1 DEF QueryState
  <2>2. ASSUME NEW pc \in {"panic", "failed"}, query' = [query EXCEPT !.pc = pc]
        PROVE  query' \in QueryState
    BY ONLY <1>0, <2>2 DEF QueryState
  <2> QED BY Zenon, <1>5, <2>1, <2>2 DEF ReadBlock
<1>6. CASE ReadEnd
  BY ONLY <1>0, <1>6 DEF ReadEnd, QueryState
<1> QED BY Zenon, <1>1, <1>2, <1>3, <1>4, <1>5, <1>6

(* The parts of the type invariant that a step does not touch.             *)
LEMMA TypeKept ==
    ASSUME TypeOK
    PROVE  /\ UNCHANGED blockVars => QuerierTypeOK'
           /\ UNCHANGED dbVars => DBTypeOK'
           /\ UNCHANGED <<loopVars, closePc>> => LoopTypeOK'
           /\ UNCHANGED history => HistoryTypeOK'
           /\ UNCHANGED ingest => ingest' \in [Profiles -> IngestState]
           /\ UNCHANGED flush => flush' \in [Flushers -> FlushState]
           /\ UNCHANGED query => query' \in QueryState
<1> USE DEF TypeOK, blockVars, disk, querierVars, syncVars, dbVars, loopVars, history
<1>1. UNCHANGED blockVars => QuerierTypeOK'
  BY DEF QuerierTypeOK
<1>2. UNCHANGED dbVars => DBTypeOK'
  BY DEF DBTypeOK
<1>3. UNCHANGED <<loopVars, closePc>> => LoopTypeOK'
  BY DEF LoopTypeOK
<1>4. UNCHANGED history => HistoryTypeOK'
  BY DEF HistoryTypeOK
<1> QED BY Zenon, <1>1, <1>2, <1>3, <1>4

(* Every step leaves the state well typed.                                 *)
LEMMA TypeStep == TypeOK /\ HeadsAreFlushedOnce /\ [Next]_vars => TypeOK'
<1> SUFFICES ASSUME TypeOK, HeadsAreFlushedOnce, [Next]_vars PROVE TypeOK'
  OBVIOUS
<1>0. /\ NoFlush \in FlushState
      /\ NoIngest \in IngestState
      /\ NoQuery \in QueryState
  BY PhlareDBAssumption DEF NoFlush, FlushState, NoIngest, IngestState, NoQuery, QueryState
<1>1. ASSUME NEW p \in Profiles, PushGetHead(p) PROVE TypeOK'
  <2>1. ingest' \in [Profiles -> IngestState]
    BY <1>1 DEF PushGetHead, IngestState, TypeOK, DBTypeOK
  <2> QED BY Zenon, <1>1, <2>1, TypeKept DEF PushGetHead, TypeOK
<1>2. ASSUME NEW p \in Profiles, PushIngest(p) PROVE TypeOK'
  <2>1. ingest' \in [Profiles -> IngestState]
    BY <1>2 DEF PushIngest, IngestState, TypeOK
  <2>2. DBTypeOK'
    BY Zenon, <1>2 DEF PushIngest, TypeOK, DBTypeOK
  <2>3. LoopTypeOK' /\ HistoryTypeOK'
    BY <1>2 DEF PushIngest, TypeOK, loopVars, LoopTypeOK, HistoryTypeOK
  <2> QED BY Zenon, <1>2, <2>1, <2>2, <2>3, TypeKept DEF PushIngest, TypeOK
<1>3. ASSUME NEW u \in ULIDs, HeadLoop(u) PROVE TypeOK'
  <2>1. DBTypeOK'
    BY <1>3 DEF HeadLoop, TypeOK, DBTypeOK
  <2>2. UNCHANGED <<loopVars, closePc>>
    BY Zenon, <1>3 DEF HeadLoop
  <2> QED BY Zenon, <1>3, <2>1, <2>2, TypeKept DEF HeadLoop, TypeOK
<1>4. ASSUME NEW f \in Flushers, CallFlush(f), beforeStop' \in SUBSET Profiles
      PROVE  TypeOK'
  <2> DEFINE Typed == /\ flush' \in [Flushers -> FlushState]
                      /\ loopPc' \in {"top", "select", "flush", "cleanup", "sync", "done", "panic", "unreadable"}
                      /\ closePc' \in {"run", "flush", "flushed", "stopCh", "wait", "closed"}
             Exchanged == /\ head' \in ULIDs \cup {0} /\ nextULID' \in Nat
                          /\ headLoops' \in SUBSET ULIDs
                          /\ failed' \in SUBSET ULIDs
  <2>1. ASSUME initHead(f) PROVE Typed /\ Exchanged
    <3>1. ASSUME oldHead = 0 PROVE Typed
      BY Zenon, <2>1, <3>1, ReturnType DEF initHead
    <3>2. ASSUME oldHead # 0 PROVE Typed
      <4>1. flush' \in [Flushers -> FlushState]
        BY <2>1, <3>2 DEF initHead, oldHead, FlushState, TypeOK, DBTypeOK
      <4>2. loopPc' \in {loopPc, "flush"} /\ closePc' \in {closePc, "flush"}
        BY Zenon, <2>1, <3>2 DEF initHead
      <4> QED BY Zenon, <4>1, <4>2 DEF TypeOK, LoopTypeOK
    <3>3. Exchanged
      BY <2>1 DEF initHead, TypeOK, DBTypeOK, HistoryTypeOK
    <3> QED BY Zenon, <3>1, <3>2, <3>3
  <2>2. ASSUME initHeadFails(f) PROVE Typed /\ Exchanged
    <3>1. Typed
      BY Zenon, <2>2, ReturnType DEF initHeadFails
    <3>2. Exchanged
      BY <2>2 DEF initHeadFails, TypeOK, DBTypeOK, HistoryTypeOK
    <3> QED BY Zenon, <3>1, <3>2
  <2>3. Typed /\ Exchanged
    BY Zenon, <1>4, <2>1, <2>2 DEF CallFlush
  <2> HIDE DEF Typed, Exchanged
  <2>4. DBTypeOK' /\ HistoryTypeOK'
    BY Zenon, <1>4, <2>3 DEF CallFlush, Exchanged, TypeOK, DBTypeOK, HistoryTypeOK
  <2>5. LoopTypeOK'
    BY Zenon, <1>4, <2>3 DEF CallFlush, Typed, TypeOK, LoopTypeOK
  <2> QED BY Zenon, <1>4, <2>3, <2>4, <2>5, TypeKept DEF CallFlush, Typed, TypeOK
<1>5. ASSUME NEW f \in Flushers, FlushCheck(f) PROVE TypeOK'
  <2>1. /\ flush' \in [Flushers -> FlushState]
        /\ loopPc' \in {"top", "select", "flush", "cleanup", "sync", "done", "panic", "unreadable"}
        /\ closePc' \in {"run", "flush", "flushed", "stopCh", "wait", "closed"}
    <3>1. CASE flush' = [flush EXCEPT ![f].pc = "write"] /\ UNCHANGED <<loopPc, closePc>>
      BY <3>1 DEF TypeOK, LoopTypeOK, FlushState
    <3> QED BY Zenon, <1>5, <3>1, ReturnType DEF FlushCheck
  <2>2. LoopTypeOK'
    BY Zenon, <1>5, <2>1 DEF FlushCheck, TypeOK, LoopTypeOK
  <2> QED BY Zenon, <1>5, <2>1, <2>2, TypeKept DEF FlushCheck, TypeOK
<1>6. ASSUME NEW f \in Flushers, FlushWrite(f) PROVE TypeOK'
  <2>1. flush[f].head \in ULIDs
    BY Zenon, <1>6, FlushedHead DEF FlushWrite, flushing
  <2>2. CASE flush' = [flush EXCEPT ![f].pc = "rename"] /\ UNCHANGED <<failed, loopPc, closePc>>
             /\ blockRows' = [blockRows EXCEPT ![flush[f].head] = rows[flush[f].head]]
             /\ tablesClosed' = tablesClosed \cup {flush[f].head}
    <3>1. flush' \in [Flushers -> FlushState]
      BY <2>2 DEF TypeOK, FlushState
    <3>2. QuerierTypeOK'
      BY <1>6, <2>1, <2>2 DEF FlushWrite, querierVars, syncVars, TypeOK, QuerierTypeOK, DBTypeOK
    <3>3. DBTypeOK'
      BY Zenon, <1>6, <2>1, <2>2 DEF FlushWrite, TypeOK, DBTypeOK
    <3>4. LoopTypeOK' /\ HistoryTypeOK'
      BY Zenon, <1>6, <2>2 DEF FlushWrite, TypeOK, LoopTypeOK, HistoryTypeOK
    <3> QED BY Zenon, <1>6, <3>1, <3>2, <3>3, <3>4, TypeKept DEF FlushWrite, TypeOK
  <2>3. CASE Return(f, FALSE) /\ UNCHANGED <<blockRows, tablesClosed>>
             /\ failed' = failed \cup {flush[f].head}
    <3>1. /\ flush' \in [Flushers -> FlushState]
          /\ loopPc' \in {"top", "select", "flush", "cleanup", "sync", "done", "panic", "unreadable"}
          /\ closePc' \in {"run", "flush", "flushed", "stopCh", "wait", "closed"}
      BY Zenon, <2>3, ReturnType
    <3>2. LoopTypeOK' /\ HistoryTypeOK'
      BY Zenon, <1>6, <2>1, <2>3, <3>1 DEF FlushWrite, TypeOK, LoopTypeOK, HistoryTypeOK
    <3>3. UNCHANGED <<blockVars, dbVars, ingest, query>>
      BY Zenon, <1>6, <2>3 DEF FlushWrite, blockVars, disk, dbVars
    <3> QED BY Zenon, <3>1, <3>2, <3>3, TypeKept DEF TypeOK
  <2> QED BY Zenon, <1>6, <2>2, <2>3 DEF FlushWrite
<1>7. ASSUME NEW f \in Flushers, FlushRename(f) PROVE TypeOK'
  <2>1. flush[f].head \in ULIDs
    BY Zenon, <1>7, FlushedHead DEF FlushRename, flushing
  <2>2. /\ flush' \in [Flushers -> FlushState]
        /\ loopPc' \in {"top", "select", "flush", "cleanup", "sync", "done", "panic", "unreadable"}
        /\ closePc' \in {"run", "flush", "flushed", "stopCh", "wait", "closed"}
    BY Zenon, <1>7, ReturnType DEF FlushRename
  <2>3. /\ local' \in SUBSET ULIDs
        /\ failed' \in SUBSET ULIDs
    BY Zenon, <1>7, <2>1 DEF FlushRename, TypeOK, QuerierTypeOK, HistoryTypeOK
  <2>4. LoopTypeOK' /\ HistoryTypeOK'
    BY Zenon, <1>7, <2>2, <2>3 DEF FlushRename, TypeOK, LoopTypeOK, HistoryTypeOK
  <2>5. QuerierTypeOK'
    BY <1>7, <2>3 DEF FlushRename, querierVars, syncVars, TypeOK, QuerierTypeOK
  <2> QED BY Zenon, <1>7, <2>2, <2>4, <2>5, TypeKept DEF FlushRename, TypeOK
<1>8. CASE LoopTop \/ LoopTick \/ LoopStop \/ CleanupEnd
  <2>1. LoopTypeOK'
    BY <1>8, PhlareDBAssumption
       DEF LoopTop, LoopTick, Tick, StartCleanup, LoopStop, CleanupEnd, TypeOK, LoopTypeOK, DBTypeOK
  <2> QED BY Zenon, <1>8, <2>1, TypeKept
             DEF LoopTop, LoopTick, LoopStop, CleanupEnd, TypeOK
<1>9. CASE CleanupDelete
  <2>1. /\ local' \in SUBSET ULIDs /\ deleted' \in SUBSET ULIDs
        /\ lastStats' \in -1..MaxAvailable /\ lastULID' \in ULIDs
    BY <1>9, PhlareDBAssumption DEF CleanupDelete, TypeOK, QuerierTypeOK, HistoryTypeOK, LoopTypeOK
  <2>2. LoopTypeOK' /\ HistoryTypeOK'
    BY Zenon, <1>9, <2>1 DEF CleanupDelete, TypeOK, LoopTypeOK, HistoryTypeOK
  <2>3. QuerierTypeOK'
    BY <1>9, <2>1 DEF CleanupDelete, querierVars, syncVars, TypeOK, QuerierTypeOK
  <2> QED BY Zenon, <1>9, <2>2, <2>3, TypeKept DEF CleanupDelete, TypeOK
<1>10. CASE LoopSync
  <2>1. LoopTypeOK'
    <3>1. loopPc' \in {loopPc, "top"} /\ UNCHANGED <<loopCh, lastStats, lastULID, closePc>>
      BY Zenon, <1>10 DEF LoopSync
    <3> QED BY Zenon, <3>1 DEF TypeOK, LoopTypeOK
  <2>2. ASSUME SyncObserve PROVE QuerierTypeOK'
    <3>1. metas' \in SUBSET ULIDs
      BY Zenon, <2>2 DEF SyncObserve, BlockMetas, TypeOK, QuerierTypeOK
    <3>2. metaErrors' \in 0..MaxMetaErrors
      BY Zenon, <2>2 DEF SyncObserve, BlockMetas, TypeOK, QuerierTypeOK
    <3> QED BY Zenon, <2>2, <3>1, <3>2 DEF SyncObserve, disk, querierVars, TypeOK, QuerierTypeOK
  <2>3. ASSUME SyncApply PROVE QuerierTypeOK'
    BY <2>3, BlockQuerierAssumption
       DEF SyncApply, kept, leftOver, newQueriers, blocksOf, Querier, disk, TypeOK, QuerierTypeOK
  <2>4. ASSUME SyncClose \/ SyncEnd PROVE QuerierTypeOK'
    BY <2>4 DEF SyncClose, SyncEnd, disk, querierVars, TypeOK, QuerierTypeOK
  <2>5. ASSUME SyncFails PROVE QuerierTypeOK'
    <3>1. metaErrors' \in 0..MaxMetaErrors
      BY Zenon, <2>5, MetaErrorType DEF SyncFails
    <3> QED BY Zenon, <2>5, <3>1 DEF SyncFails, disk, querierVars, TypeOK, QuerierTypeOK
  <2>6. QuerierTypeOK'
    BY Zenon, <1>10, <2>2, <2>3, <2>4, <2>5 DEF LoopSync
  <2> QED BY Zenon, <1>10, <2>1, <2>6, TypeKept DEF LoopSync, TypeOK
<1>11. CASE CloseHead \/ CloseStopCh \/ CloseQueriers
  <2>1. LoopTypeOK'
    BY Zenon, <1>11 DEF CloseHead, CloseStopCh, CloseQueriers, loopVars, TypeOK, LoopTypeOK
  <2>2. DBTypeOK'
    BY <1>11 DEF CloseHead, CloseStopCh, CloseQueriers, headToClose, dbVars, TypeOK, DBTypeOK
  <2>3. QuerierTypeOK'
    BY <1>11 DEF CloseHead, CloseStopCh, CloseQueriers, blockVars, disk, querierVars, syncVars,
                 TypeOK, QuerierTypeOK
  <2> QED BY Zenon, <1>11, <2>1, <2>2, <2>3, TypeKept
             DEF CloseHead, CloseStopCh, CloseQueriers, TypeOK
<1>12. CASE QueryBlocks \/ QueryInRange \/ QueryHead \/ ReadHead \/ ReadEnd
  <2>1. query' \in QueryState
    BY Zenon, <1>12, QueryType
  <2>2. UNCHANGED <<blockVars, dbVars, loopVars, history, ingest, flush, closePc>>
    BY Zenon, <1>12 DEF QueryBlocks, QueryInRange, QueryHead, ReadHead, ReadEnd
  <2> QED BY Zenon, <2>1, <2>2, TypeKept DEF TypeOK
<1>13. CASE ReadBlock
  <2>1. query' \in QueryState
    BY Zenon, <1>13, QueryType
  <2>2. query.blocks \subseteq Querier
    BY DEF QueryState, TypeOK
  <2>3. opened' \in SUBSET Querier /\ closed' \in SUBSET Querier
    BY Zenon, <1>13, <2>2 DEF ReadBlock, open, TypeOK, QuerierTypeOK
  <2>4. QuerierTypeOK'
    BY <1>13, <2>3 DEF ReadBlock, disk, syncVars, TypeOK, QuerierTypeOK
  <2> QED BY Zenon, <1>13, <2>1, <2>4, TypeKept DEF ReadBlock, TypeOK
<1>14. CASE Crash \/ LoopPanic \/ SyncPanic
  <2>0. metaErrors' \in 0..MaxMetaErrors
    BY Zenon, <1>14, MetaErrorType
       DEF Crash, LoopPanic, SyncPanic, UnreadableMeta, TypeOK, QuerierTypeOK
  <2>1. Die /\ loopPc' \in {"top", "panic", "unreadable"} /\ UNCHANGED closePc
        /\ crashes' \in 0..MaxCrashes
    BY <1>14, PhlareDBAssumption DEF Crash, LoopPanic, SyncPanic, TypeOK, DBTypeOK
  <2>2. /\ ingest' \in [Profiles -> IngestState]
        /\ flush' \in [Flushers -> FlushState]
        /\ query' \in QueryState
    BY Zenon, <1>0, <2>1 DEF Die, TypeOK
  <2>3. HistoryTypeOK'
    BY Zenon, <2>1 DEF Die, Acknowledged, TypeOK, HistoryTypeOK
  <2>4. DBTypeOK'
    BY Zenon, <2>1 DEF Die, TypeOK, DBTypeOK
  <2>5. LoopTypeOK'
    BY <2>1, PhlareDBAssumption DEF Die, TypeOK, LoopTypeOK
  <2>6. QuerierTypeOK'
    BY <2>0, <2>1 DEF Die, disk, TypeOK, QuerierTypeOK
  <2> QED BY Zenon, <2>2, <2>3, <2>4, <2>5, <2>6 DEF TypeOK
<1>15. CASE Restart
  <2>1. QuerierTypeOK'
    BY <1>15, BlockQuerierAssumption
       DEF Restart, newQueriers, Querier, disk, syncVars, TypeOK, QuerierTypeOK
  <2>2. DBTypeOK'
    BY <1>15 DEF Restart, TypeOK, DBTypeOK
  <2>3. LoopTypeOK'
    BY Zenon, <1>15 DEF Restart, TypeOK, LoopTypeOK
  <2> QED BY Zenon, <1>15, <2>1, <2>2, <2>3, TypeKept DEF Restart, TypeOK
<1>16. CASE UNCHANGED vars
  BY Zenon, <1>16, TypeKept DEF vars, TypeOK
<1>17. CASE ApiFlush \/ LoopFlush \/ StopFlush
  <2>1. beforeStop' \in SUBSET Profiles
    BY Zenon, <1>17 DEF ApiFlush, LoopFlush, StopFlush, Acknowledged, TypeOK, HistoryTypeOK
  <2> QED BY Zenon, <1>4, <1>17, <2>1 DEF ApiFlush, LoopFlush, StopFlush, Flushers
<1> QED BY Zenon, Steps, <1>1, <1>2, <1>3, <1>5, <1>6, <1>7, <1>8, <1>9, <1>10, <1>11,
           <1>12, <1>13, <1>14, <1>15, <1>16, <1>17

(* Only a process that is alive takes a head or starts a flush.            *)
LEMMA DeadStep == DeadHoldsNothing /\ [Next]_vars => DeadHoldsNothing'
<1> SUFFICES ASSUME DeadHoldsNothing, [Next]_vars PROVE DeadHoldsNothing'
  OBVIOUS
<1>1. CASE Crash \/ LoopPanic \/ SyncPanic
  <2>1. head' = 0 /\ flush' = [f \in Flushers |-> NoFlush]
    BY Zenon, <1>1 DEF Crash, LoopPanic, SyncPanic, Die
  <2> QED BY <2>1 DEF DeadHoldsNothing, NoFlush
<1>2. CASE UNCHANGED vars
  BY Zenon, <1>2 DEF vars, dbVars, DeadHoldsNothing
<1>3. CASE Restart
  BY Zenon, <1>3 DEF Restart, DeadHoldsNothing
<1>4. CASE \/ \E p \in Profiles : PushGetHead(p) \/ PushIngest(p)
           \/ \E u \in ULIDs : HeadLoop(u)
           \/ ApiFlush \/ LoopFlush \/ StopFlush
           \/ \E f \in Flushers : FlushCheck(f) \/ FlushWrite(f) \/ FlushRename(f)
  <2>1. alive /\ alive' = alive
    BY Zenon, <1>4 DEF PushGetHead, PushIngest, HeadLoop, ApiFlush, LoopFlush, StopFlush,
                CallFlush, FlushCheck, FlushWrite, FlushRename, flushing, dbVars
  <2> QED BY <2>1 DEF DeadHoldsNothing
<1>5. CASE \/ LoopTop \/ LoopTick \/ LoopStop \/ CleanupDelete \/ CleanupEnd \/ LoopSync
           \/ CloseHead \/ CloseStopCh \/ CloseQueriers
           \/ QueryBlocks \/ QueryInRange \/ QueryHead \/ ReadHead \/ ReadBlock \/ ReadEnd
  <2>1. alive /\ alive' = alive
    BY Zenon, <1>5 DEF LoopTop, LoopTick, LoopStop, CleanupDelete, CleanupEnd, LoopSync,
                CloseHead, CloseStopCh, CloseQueriers, QueryBlocks, QueryInRange,
                QueryHead, ReadHead, ReadBlock, ReadEnd, dbVars
  <2> QED BY <2>1 DEF DeadHoldsNothing
<1> QED BY Zenon, Steps, <1>1, <1>2, <1>3, <1>4, <1>5

(* The parts of the inductive invariant that a step does not touch.        *)
LEMMA Kept ==
    ASSUME IInv
    PROVE  /\ UNCHANGED <<head, nextULID, ingest, flush, local, metas, queriers, query>>
                => ULIDsAreFresh'
           /\ UNCHANGED <<head, flush, local>> => HeadsAreFlushedOnce'
           /\ UNCHANGED <<head, local, metas, queriers, query>> => HeadIsNoBlock'
           /\ UNCHANGED <<ingest, rows, blockRows>> => RowsOfOneHead'
           /\ UNCHANGED <<queriers, opened, closed, closing, created, query>>
                 /\ (closePc = "closed" => closePc' = "closed")
                => QueriersAreNumbered'
           /\ UNCHANGED <<query, ingest>> => CountedOnce'
           /\ UNCHANGED <<ingest, rows, flush, local, blockRows, deleted, failed, late, lost>>
                => RowsAreKept'
           /\ UNCHANGED <<ingest, head, flush, local, blockRows, deleted, failed, late, lost>>
                => OnlyAcceptedLosses'
           /\ UNCHANGED <<ingest, head, flush, loopPc, closePc, beforeStop>> => ShutdownOrder'
<1> USE DEF IInv
<1>1. UNCHANGED <<head, nextULID, ingest, flush, local, metas, queriers, query>>
        => ULIDsAreFresh'
  BY Zenon DEF ULIDsAreFresh
<1>2. UNCHANGED <<head, flush, local>> => HeadsAreFlushedOnce'
  BY Zenon DEF HeadsAreFlushedOnce
<1>3. UNCHANGED <<head, local, metas, queriers, query>> => HeadIsNoBlock'
  BY Zenon DEF HeadIsNoBlock
<1>4. UNCHANGED <<ingest, rows, blockRows>> => RowsOfOneHead'
  BY Zenon DEF RowsOfOneHead
<1>5. UNCHANGED <<queriers, opened, closed, closing, created, query>>
         /\ (closePc = "closed" => closePc' = "closed")
        => QueriersAreNumbered'
  BY Zenon DEF QueriersAreNumbered
<1>6. UNCHANGED <<query, ingest>> => CountedOnce'
  BY Zenon DEF CountedOnce
<1>7. UNCHANGED <<ingest, rows, flush, local, blockRows, deleted, failed, late, lost>>
        => RowsAreKept'
  BY Zenon DEF RowsAreKept, Acknowledged, OnDisk, AcceptedLoss
<1>8. UNCHANGED <<ingest, head, flush, local, blockRows, deleted, failed, late, lost>>
        => OnlyAcceptedLosses'
  BY Zenon DEF OnlyAcceptedLosses, Acknowledged, OnDisk, AcceptedLoss
<1>9. UNCHANGED <<ingest, head, flush, loopPc, closePc, beforeStop>> => ShutdownOrder'
  BY Zenon DEF ShutdownOrder
<1> QED BY Zenon, <1>1, <1>2, <1>3, <1>4, <1>5, <1>6, <1>7, <1>8, <1>9

(* A push that has taken its head, and an acknowledged profile, has one.   *)
LEMMA IngestHead ==
    ASSUME TypeOK, RowsOfOneHead, NEW p \in Profiles, ingest[p].pc # "idle"
    PROVE  ingest[p].head \in ULIDs /\ ingest[p].head # 0
<1>1. ingest[p].head \in ULIDs \cup {0}
  BY DEF TypeOK, IngestState
<1>2. ingest[p].head # 0
  BY Zenon DEF RowsOfOneHead
<1> QED BY Zenon, <1>1, <1>2

(* ULIDs are numbers other than the 0 of a nil head.                       *)
LEMMA Numbers ==
    ASSUME TypeOK
    PROVE  /\ nextULID \in Nat /\ head \in Nat
           /\ \A p \in Profiles : ingest[p].head \in Nat
           /\ \A g \in Flushers : flush[g].head \in Nat
           /\ \A u \in local \cup metas : u \in Nat /\ u # 0
           /\ \A q \in queriers \cup query.blocks : q.block \in Nat /\ q.block # 0
<1>1. ULIDs \cup {0} \subseteq Nat /\ 0 \notin ULIDs
  BY BlockQuerierAssumption
<1>2. nextULID \in Nat /\ head \in Nat
  BY Zenon, <1>1 DEF TypeOK, DBTypeOK
<1>3. \A p \in Profiles : ingest[p].head \in Nat
  BY <1>1 DEF TypeOK, IngestState
<1>4. \A g \in Flushers : flush[g].head \in Nat
  BY <1>1 DEF TypeOK, FlushState
<1>5. \A u \in local \cup metas : u \in Nat /\ u # 0
  BY Zenon, <1>1 DEF TypeOK, QuerierTypeOK
<1>6. \A q \in queriers \cup query.blocks : q.block \in Nat /\ q.block # 0
  <2>1. queriers \cup query.blocks \subseteq Querier
    BY DEF TypeOK, QuerierTypeOK, QueryState
  <2>2. \A q \in Querier : q.block \in ULIDs
    BY DEF Querier
  <2> QED BY Zenon, <1>1, <2>1, <2>2
<1> QED BY Zenon, <1>2, <1>3, <1>4, <1>5, <1>6

(* Push takes the head.                                                    *)
LEMMA PushGetHeadIInv ==
    ASSUME IInv, TypeOK', DeadHoldsNothing', NEW p \in Profiles, PushGetHead(p)
    PROVE  IInv'
<1>1. /\ head # 0 /\ ingest[p].pc = "idle"
      /\ ingest'[p] = [pc |-> "ingest", head |-> head]
      /\ \A r \in Profiles : r # p => ingest'[r] = ingest[r]
  BY DEF PushGetHead, IInv, TypeOK
<1>2. UNCHANGED <<dbVars, loopVars, history, blockVars, flush, closePc, query>>
  BY Zenon DEF PushGetHead
<1>3. UNCHANGED <<head, nextULID, rows, flush, query, closePc, loopPc, beforeStop,
                  deleted, failed, late, lost>>
      /\ UNCHANGED <<local, blockRows, queriers, created, opened, closed, closing, metas>>
  BY Zenon, <1>2 DEF dbVars, loopVars, history, blockVars, disk, querierVars, syncVars
<1>4. Acknowledged' = Acknowledged /\ \A r \in Acknowledged : ingest'[r] = ingest[r] /\ r # p
  <2>1. ingest'[p].pc # "acked" /\ ingest[p].pc # "acked"
    BY ONLY <1>1
  <2> QED
    BY <1>1, <2>1, Zenon DEF Acknowledged
<1>5. ULIDsAreFresh'
  <2>1. ULIDsAreFresh
    BY Zenon DEF IInv
  <2>2. ingest'[p].head = head
    BY ONLY <1>1
  <2>3. \A r \in Profiles : ingest'[r].head < nextULID
    BY <1>1, <2>1, <2>2, Zenon DEF ULIDsAreFresh
  <2> QED
    BY <1>3, <2>1, <2>3, Zenon DEF ULIDsAreFresh
<1>6. RowsOfOneHead'
  <2>1. \A u \in ULIDs : rows[u] \cup blockRows[u] \subseteq Profiles
    BY Zenon DEF IInv, TypeOK, DBTypeOK, QuerierTypeOK
  <2> QED BY <1>1, <1>3, <2>1 DEF IInv, RowsOfOneHead
<1>7. CountedOnce'
  BY <1>1, <1>3 DEF IInv, CountedOnce
<1>8. RowsAreKept'
  BY SMTT(30), <1>3, <1>4 DEF IInv, RowsAreKept, OnDisk, AcceptedLoss
<1>9. OnlyAcceptedLosses'
  BY Zenon, <1>3, <1>4 DEF IInv, OnlyAcceptedLosses, OnDisk, AcceptedLoss
<1>10. ShutdownOrder'
  BY <1>1, <1>3 DEF IInv, ShutdownOrder, TypeOK, HistoryTypeOK
<1> QED BY Zenon, <1>3, <1>5, <1>6, <1>7, <1>8, <1>9, <1>10, Kept DEF IInv

(* Push adds the profile to the head it has taken.                         *)
LEMMA PushIngestIInv ==
    ASSUME IInv, TypeOK', DeadHoldsNothing', NEW p \in Profiles, PushIngest(p)
    PROVE  IInv'
<1> DEFINE u == ingest[p].head
<1>1. /\ ingest[p].pc = "ingest" /\ u \in ULIDs
      /\ ingest'[p].pc = "acked" /\ ingest'[p].head = u
      /\ \A r \in Profiles : r # p => ingest'[r] = ingest[r]
  <2>1. ingest[p].pc = "ingest" /\ ingest \in [Profiles -> IngestState]
        /\ ingest' = [ingest EXCEPT ![p].pc = "acked"]
    BY Zenon DEF PushIngest, IInv, TypeOK
  <2>2. u \in ULIDs
    BY <2>1, IngestHead DEF IInv
  <2> QED BY ONLY <2>1, <2>2 DEF IngestState
<1>2. rows' = [rows EXCEPT ![u] = @ \cup {p}]
      /\ late' = IF TakesRows(u) THEN late ELSE late \cup {p}
  BY Zenon DEF PushIngest
<1>3. UNCHANGED <<head, nextULID, flush, query, closePc, loopPc, beforeStop,
                  deleted, failed, lost>>
      /\ UNCHANGED <<local, blockRows, queriers, created, opened, closed, closing, metas>>
  BY Zenon DEF PushIngest, loopVars, blockVars, disk, querierVars, syncVars
<1>4. p \notin Acknowledged /\ Acknowledged' = Acknowledged \cup {p}
      /\ \A r \in Acknowledged' : ingest'[r].head = ingest[r].head
  BY <1>1 DEF Acknowledged
<1>5. p \in rows'[u] /\ (\A v \in ULIDs : rows[v] \subseteq rows'[v])
      /\ (\A v \in ULIDs : rows'[v] \subseteq rows[v] \cup {p})
      /\ \A v \in ULIDs : p \in rows'[v] => p \in rows[v] \/ v = u
  BY <1>1, <1>2 DEF IInv, TypeOK, DBTypeOK
<1>6. late \subseteq late'
  BY Zenon, <1>2
<1> HIDE DEF u
<1>7. ULIDsAreFresh'
  BY <1>1, <1>3 DEF IInv, ULIDsAreFresh, u
<1>8. RowsOfOneHead'
  <2>1. \A v \in ULIDs : rows[v] \cup blockRows[v] \subseteq Profiles
    BY Zenon DEF IInv, TypeOK, DBTypeOK, QuerierTypeOK
  <2> QED BY <1>1, <1>3, <1>5, <2>1, BlockQuerierAssumption DEF IInv, RowsOfOneHead, u
<1>9. CountedOnce'
  BY <1>1, <1>3 DEF IInv, CountedOnce, u
<1>10. RowsAreKept'
  <2>1. \A r \in Acknowledged : ingest[r].head \in ULIDs
    BY IngestHead DEF Acknowledged, IInv
  <2>2. ASSUME NEW r \in Acknowledged'
        PROVE  \/ r \in rows'[ingest'[r].head]
               \/ OnDisk(r)'
               \/ r \in lost'
               \/ ingest'[r].head \in deleted'
    BY Zenon, <1>1, <1>3, <1>4, <1>5, <2>1, <2>2 DEF IInv, RowsAreKept, OnDisk, u
  <2>3. ASSUME NEW r \in Acknowledged', NEW f \in Flushers,
               flush'[f].pc = "rename", flush'[f].head = ingest'[r].head
        PROVE  r \in blockRows'[ingest'[r].head] \/ AcceptedLoss(r)'
    <3>1. CASE r = p
      <4>1. flush[f].pc = "rename" /\ flush[f].head = u
        BY Zenon, <1>1, <1>3, <2>3, <3>1
      <4>2. u # 0
        BY Zenon, <1>1, BlockQuerierAssumption
      <4>3. u # head /\ \A g \in Flushers : flush[g].head = u => g = f
        BY Zenon, <4>1, <4>2 DEF IInv, HeadsAreFlushedOnce
      <4>4. ~TakesRows(u)
        BY <4>1, <4>3 DEF TakesRows
      <4> QED BY Zenon, <1>2, <3>1, <4>4 DEF AcceptedLoss
    <3>2. CASE r # p
      BY Zenon, <1>1, <1>3, <1>4, <1>6, <2>3, <3>2 DEF IInv, RowsAreKept, AcceptedLoss
    <3> QED BY Zenon, <3>1, <3>2
  <2> QED BY Zenon, <2>2, <2>3 DEF RowsAreKept
<1>11. OnlyAcceptedLosses'
  <2>1. ASSUME TakesRows(u)
        PROVE  ingest'[p].head = head' \/ \E f \in Flushers : flush'[f].head = ingest'[p].head
    BY Zenon, <1>1, <1>3, <2>1 DEF TakesRows
  <2>2. ASSUME ~TakesRows(u) PROVE AcceptedLoss(p)'
    BY Zenon, <1>2, <2>2 DEF AcceptedLoss
  <2>3. ASSUME NEW r \in Acknowledged
        PROVE  \/ OnDisk(r)' \/ ingest'[r].head = head'
               \/ \E f \in Flushers : flush'[f].head = ingest'[r].head
               \/ AcceptedLoss(r)'
    <3>1. ingest'[r].head = ingest[r].head
      BY Zenon, <1>4
    <3>2. \/ OnDisk(r) \/ ingest[r].head = head
          \/ \E f \in Flushers : flush[f].head = ingest[r].head
          \/ AcceptedLoss(r)
      BY Zenon DEF IInv, OnlyAcceptedLosses
    <3>3. OnDisk(r) => OnDisk(r)'
      BY Zenon, <1>3, <3>1 DEF OnDisk
    <3>4. AcceptedLoss(r) => AcceptedLoss(r)'
      BY Zenon, <1>3, <1>6, <3>1 DEF AcceptedLoss
    <3> QED BY Zenon, <1>3, <3>1, <3>2, <3>3, <3>4
  <2> QED BY Zenon, <1>4, <2>1, <2>2, <2>3 DEF OnlyAcceptedLosses
<1>12. ShutdownOrder'
  BY <1>1, <1>3 DEF IInv, ShutdownOrder, TypeOK, HistoryTypeOK
<1> QED BY Zenon, <1>3, <1>7, <1>8, <1>9, <1>10, <1>11, <1>12, Kept DEF IInv

(* What a call of Flush does to the heads: the old head is the caller's to *)
(* write, or there was none, or it is dropped as a failure.                *)
LEMMA CallFlushEffect ==
    ASSUME TypeOK, HeadsAreFlushedOnce, NEW f \in Flushers, CallFlush(f)
    PROVE  /\ flush[f].pc = "idle" /\ flush[f].head = 0
           /\ \A g \in Flushers : g # f => flush'[g] = flush[g]
           /\ \/ head' = nextULID /\ nextULID' = nextULID + 1
              \/ head' = 0 /\ nextULID' = nextULID
           /\ \/ /\ flush'[f].pc = "check" /\ flush'[f].head = head /\ head # 0
                 /\ f = "loop" => loopPc' = "flush"
                 /\ f = "stop" => closePc' = "flush"
              \/ /\ flush'[f].pc = "idle" /\ flush'[f].head = 0
                 /\ head # 0 => head \in failed'
                 /\ f = "stop" => closePc' = "flushed"
           /\ failed \subseteq failed'
           /\ f # "loop" => loopPc' = loopPc
           /\ f # "stop" => closePc' = closePc
<1>1. flush \in [Flushers -> FlushState]
  BY Zenon DEF TypeOK
<1>2. ASSUME NEW ok, Return(f, ok)
      PROVE  /\ flush'[f].pc = "idle" /\ flush'[f].head = 0
             /\ \A g \in Flushers : g # f => flush'[g] = flush[g]
             /\ f # "loop" => loopPc' = loopPc
             /\ f # "stop" => closePc' = closePc
             /\ f = "stop" => closePc' = "flushed"
  BY ONLY <1>1, <1>2, f \in Flushers DEF Return, NoFlush
<1>3. CASE initHead(f)
  <2>1. flush[f].pc = "idle" /\ failed' = failed
        /\ head' = nextULID /\ nextULID' = nextULID + 1
    BY Zenon, <1>3 DEF initHead
  <2>2. flush[f].head = 0
    BY Zenon, <2>1 DEF HeadsAreFlushedOnce
  <2>3. CASE head = 0
    <3>1. Return(f, TRUE)
      BY Zenon, <1>3, <2>3 DEF initHead, oldHead
    <3> QED BY Zenon, <1>2, <2>1, <2>2, <2>3, <3>1
  <2>4. CASE head # 0
    <3>1. /\ flush' = [flush EXCEPT ![f] = [pc |-> "check", head |-> head]]
          /\ loopPc' = IF f = "loop" THEN "flush" ELSE loopPc
          /\ closePc' = IF f = "stop" THEN "flush" ELSE closePc
      BY Zenon, <1>3, <2>4 DEF initHead, oldHead
    <3>2. /\ flush'[f].pc = "check" /\ flush'[f].head = head
          /\ \A g \in Flushers : g # f => flush'[g] = flush[g]
      BY ONLY <1>1, <3>1, f \in Flushers
    <3> QED BY Zenon, <2>1, <2>2, <2>4, <3>1, <3>2
  <2> QED BY Zenon, <2>3, <2>4
<1>4. CASE initHeadFails(f)
  <2>1. /\ flush[f].pc = "idle" /\ head' = 0 /\ nextULID' = nextULID
        /\ failed' = failed \cup ({head} \ {0})
        /\ Return(f, FALSE)
    BY Zenon, <1>4 DEF initHeadFails
  <2>2. flush[f].head = 0
    BY Zenon, <2>1 DEF HeadsAreFlushedOnce
  <2> QED BY Zenon, <1>2, <2>1, <2>2
<1> QED BY Zenon, <1>3, <1>4 DEF CallFlush

(* A call of Flush exchanges the head.                                     *)
LEMMA CallFlushIInv ==
    ASSUME IInv, TypeOK', DeadHoldsNothing', NEW f \in Flushers, CallFlush(f)
    PROVE  /\ ULIDsAreFresh' /\ HeadsAreFlushedOnce' /\ HeadIsNoBlock' /\ RowsOfOneHead'
           /\ CountedOnce' /\ RowsAreKept' /\ OnlyAcceptedLosses'
           /\ \A p \in Profiles : ingest[p].pc # "idle" => ingest'[p].head # head'
<1>1. UNCHANGED <<rows, ingest, query, loopCh, deleted, late, lost>>
      /\ UNCHANGED <<local, blockRows, queriers, created, opened, closed, closing, metas>>
  BY Zenon DEF CallFlush, blockVars, disk, querierVars, syncVars
<1>2. /\ flush[f].pc = "idle" /\ flush[f].head = 0
      /\ \A g \in Flushers : g # f => flush'[g] = flush[g]
      /\ \/ head' = nextULID /\ nextULID' = nextULID + 1
         \/ head' = 0 /\ nextULID' = nextULID
      /\ \/ /\ flush'[f].pc = "check" /\ flush'[f].head = head /\ head # 0
         \/ /\ flush'[f].pc = "idle" /\ flush'[f].head = 0
            /\ head # 0 => head \in failed'
      /\ failed \subseteq failed'
  BY Zenon, CallFlushEffect DEF IInv
<1>3. nextULID \in Nat /\ head \in Nat
      /\ (\A p \in Profiles : ingest[p].head \in Nat)
      /\ (\A g \in Flushers : flush[g].head \in Nat)
      /\ (\A u \in local \cup metas : u \in Nat /\ u # 0)
      /\ (\A q \in queriers \cup query.blocks : q.block \in Nat /\ q.block # 0)
  BY Zenon, Numbers DEF IInv
<1>4. ULIDsAreFresh'
  BY SMTT(30), <1>1, <1>2, <1>3 DEF IInv, ULIDsAreFresh
<1>5. HeadsAreFlushedOnce'
  BY <1>1, <1>2, <1>3 DEF IInv, ULIDsAreFresh, HeadsAreFlushedOnce, HeadIsNoBlock
<1>6. HeadIsNoBlock'
  BY <1>1, <1>2, <1>3 DEF IInv, ULIDsAreFresh, HeadIsNoBlock
<1>7. \A p \in Profiles : ingest[p].pc # "idle" => ingest'[p].head # head'
  BY <1>1, <1>2, <1>3, IngestHead DEF IInv, ULIDsAreFresh
<1>8. Acknowledged' = Acknowledged
      /\ \A p \in Acknowledged : p \in Profiles /\ ingest[p].head # 0
  BY Zenon, <1>1, IngestHead DEF IInv, Acknowledged
<1>9. RowsAreKept'
  <2>1. \A g \in Flushers : flush'[g].pc = "rename" => g # f /\ flush'[g] = flush[g]
    BY Zenon, <1>2
  <2>2. ASSUME NEW p, AcceptedLoss(p) PROVE AcceptedLoss(p)'
    BY Zenon, <1>1, <1>2, <2>2 DEF AcceptedLoss
  <2> QED BY Zenon, <1>1, <1>8, <2>1, <2>2 DEF IInv, RowsAreKept, OnDisk
<1>10. OnlyAcceptedLosses'
  <2> SUFFICES ASSUME NEW p \in Acknowledged
               PROVE  \/ OnDisk(p)'
                      \/ \E g \in Flushers : flush'[g].head = ingest'[p].head
                      \/ AcceptedLoss(p)'
    BY Zenon, <1>8 DEF OnlyAcceptedLosses
  <2>1. CASE ingest[p].head = head
    BY Zenon, <1>1, <1>2, <1>8, <2>1 DEF AcceptedLoss
  <2>2. ASSUME NEW g \in Flushers, flush[g].head = ingest[p].head
        PROVE  flush'[g].head = ingest'[p].head
    BY Zenon, <1>1, <1>2, <1>8, <2>2
  <2>3. ASSUME AcceptedLoss(p) PROVE AcceptedLoss(p)'
    BY Zenon, <1>1, <1>2, <2>3 DEF AcceptedLoss
  <2> QED BY Zenon, <1>1, <2>1, <2>2, <2>3 DEF IInv, OnlyAcceptedLosses, OnDisk
<1> QED BY Zenon, <1>1, <1>4, <1>5, <1>6, <1>7, <1>9, <1>10, Kept

(* The three callers of Flush.                                             *)
LEMMA FlushCallersIInv ==
    ASSUME IInv, TypeOK', DeadHoldsNothing', ApiFlush \/ LoopFlush \/ StopFlush
    PROVE  IInv'
<1>1. PICK f \in Flushers : CallFlush(f)
  BY Zenon DEF ApiFlush, LoopFlush, StopFlush, Flushers
<1>2. UNCHANGED <<ingest, queriers, created, opened, closed, closing, query>>
  BY Zenon, <1>1 DEF CallFlush, blockVars, querierVars, syncVars
<1>3. \A p \in Profiles : ingest[p].pc # "idle" => ingest'[p].head # head'
  BY Zenon, <1>1, CallFlushIInv
<1>4. \A p \in beforeStop : p \in Profiles
  BY Zenon DEF IInv, TypeOK, HistoryTypeOK
<1>5. ASSUME ApiFlush PROVE ShutdownOrder' /\ (closePc = "closed" => closePc' = "closed")
  <2>1. CallFlush("api") /\ "api" \in Flushers /\ beforeStop' = beforeStop
    BY Zenon, <1>5 DEF ApiFlush, Flushers
  <2>2. loopPc' = loopPc /\ closePc' = closePc
        /\ flush'["loop"] = flush["loop"] /\ flush'["stop"] = flush["stop"]
    BY <2>1, CallFlushEffect DEF IInv, Flushers
  <2> QED BY <1>2, <1>3, <1>4, <2>1, <2>2 DEF IInv, ShutdownOrder
<1>6. ASSUME LoopFlush PROVE ShutdownOrder' /\ (closePc = "closed" => closePc' = "closed")
  <2>1. CallFlush("loop") /\ "loop" \in Flushers /\ beforeStop' = beforeStop
        /\ loopPc = "select"
    BY Zenon, <1>6 DEF LoopFlush, Flushers
  <2>2. closePc' = closePc /\ flush'["stop"] = flush["stop"]
        /\ (flush'["loop"].pc # "idle" => loopPc' = "flush")
    BY <2>1, CallFlushEffect DEF IInv, Flushers
  <2> QED BY <1>2, <1>3, <1>4, <2>1, <2>2 DEF IInv, ShutdownOrder
<1>7. ASSUME StopFlush PROVE ShutdownOrder' /\ (closePc = "closed" => closePc' = "closed")
  <2>1. CallFlush("stop") /\ "stop" \in Flushers /\ beforeStop' = Acknowledged
        /\ closePc = "run"
    BY Zenon, <1>7 DEF StopFlush, Flushers
  <2>2. /\ loopPc' = loopPc /\ flush'["loop"] = flush["loop"]
        /\ flush'["stop"].pc # "idle" => closePc' = "flush"
        /\ closePc' \in {"flush", "flushed"}
    BY <2>1, CallFlushEffect DEF IInv, Flushers
  <2> QED BY <1>2, <1>3, <2>1, <2>2 DEF IInv, ShutdownOrder, Acknowledged
<1>8. ShutdownOrder' /\ (closePc = "closed" => closePc' = "closed")
  BY Zenon, <1>5, <1>6, <1>7
<1> QED BY Zenon, <1>1, <1>2, <1>8, CallFlushIInv, Kept DEF IInv

(* A flush that returns, whose head was empty, has been written or is      *)
(* accounted for as a failure.                                             *)
LEMMA ReturnIInv ==
    ASSUME IInv, NEW f \in Flushers, NEW ok, Return(f, ok), flush[f].pc # "idle",
           UNCHANGED <<head, nextULID, rows, ingest, query, beforeStop, deleted, late, lost>>,
           UNCHANGED <<blockRows, queriers, created, opened, closed, closing, metas>>,
           failed \subseteq failed',
           local \subseteq local', local' \subseteq local \cup {flush[f].head},
           \A p \in Acknowledged : ingest[p].head = flush[f].head =>
               OnDisk(p)' \/ AcceptedLoss(p)'
    PROVE  /\ ULIDsAreFresh' /\ HeadsAreFlushedOnce' /\ HeadIsNoBlock' /\ RowsOfOneHead'
           /\ QueriersAreNumbered' /\ CountedOnce' /\ RowsAreKept' /\ OnlyAcceptedLosses'
           /\ ShutdownOrder'
<1>1. flush \in [Flushers -> FlushState]
  BY Zenon DEF IInv, TypeOK
<1>2. /\ flush'[f].pc = "idle" /\ flush'[f].head = 0
      /\ \A g \in Flushers : g # f => flush'[g] = flush[g]
  BY ONLY <1>1, Return(f, ok), f \in Flushers DEF Return, NoFlush
<1>3. /\ f # "loop" => loopPc' = loopPc
      /\ f # "stop" => closePc' = closePc
  BY Zenon DEF Return
<1>4. flush[f].head # 0 /\ flush[f].head # head
  BY Zenon DEF IInv, HeadsAreFlushedOnce
<1>5. nextULID \in Nat /\ head \in Nat
      /\ (\A p \in Profiles : ingest[p].head \in Nat)
      /\ (\A g \in Flushers : flush[g].head \in Nat)
      /\ (\A u \in local \cup metas : u \in Nat /\ u # 0)
      /\ (\A q \in queriers \cup query.blocks : q.block \in Nat /\ q.block # 0)
  BY Zenon, Numbers DEF IInv
<1>6. ULIDsAreFresh'
  BY SMTT(30), <1>2, <1>4, <1>5 DEF IInv, ULIDsAreFresh
<1>7. HeadsAreFlushedOnce'
  <2>1. 0 \notin local'
    BY Zenon, <1>4, <1>5
  <2>2. \A g \in Flushers : g # f => flush[g].head # flush[f].head
    BY Zenon, <1>4 DEF IInv, HeadsAreFlushedOnce
  <2>3. HeadsAreFlushedOnce
    BY Zenon DEF IInv
  <2>4. ASSUME NEW g \in Flushers
        PROVE  /\ flush'[g].pc = "idle" <=> flush'[g].head = 0
               /\ flush'[g].head # 0 => flush'[g].head # head'
               /\ flush'[g].head \notin local'
    <3>1. CASE g = f
      BY Zenon, <1>2, <2>1, <3>1
    <3>2. CASE g # f
      BY SMTT(30), <1>2, <2>2, <2>3, <3>2 DEF HeadsAreFlushedOnce
    <3> QED BY Zenon, <3>1, <3>2
  <2>5. \A g, h \in Flushers : flush'[g].head = flush'[h].head => g = h \/ flush'[g].head = 0
    BY SMTT(30), <1>2, <2>3 DEF HeadsAreFlushedOnce
  <2> QED BY Zenon, <2>4, <2>5 DEF HeadsAreFlushedOnce
<1>8. HeadIsNoBlock'
  BY Zenon, <1>4 DEF IInv, HeadIsNoBlock
<1>9. Acknowledged' = Acknowledged
      /\ \A p \in Acknowledged : p \in Profiles /\ ingest[p].head # 0
  BY Zenon, IngestHead DEF IInv, Acknowledged
<1>10. \A p : /\ AcceptedLoss(p) => AcceptedLoss(p)'
              /\ OnDisk(p) => OnDisk(p)'
  BY Zenon DEF AcceptedLoss, OnDisk
<1>11. RowsAreKept'
  <2>1. \A g \in Flushers : flush'[g].pc = "rename" => g # f /\ flush'[g] = flush[g]
    BY Zenon, <1>2
  <2> QED BY Zenon, <1>9, <1>10, <2>1 DEF IInv, RowsAreKept
<1>12. OnlyAcceptedLosses'
  <2> SUFFICES ASSUME NEW p \in Acknowledged, ingest[p].head # flush[f].head
               PROVE  \/ OnDisk(p)'
                      \/ ingest'[p].head = head'
                      \/ \E g \in Flushers : flush'[g].head = ingest'[p].head
                      \/ AcceptedLoss(p)'
    BY Zenon, <1>9 DEF OnlyAcceptedLosses
  <2> QED BY Zenon, <1>2, <1>10 DEF IInv, OnlyAcceptedLosses
<1>13. "loop" \in Flushers /\ "stop" \in Flushers
  BY DEF Flushers
<1>14. closePc' = closePc \/ (f = "stop" /\ closePc = "flush" /\ closePc' = "flushed")
  <2>1. f = "stop" => closePc = "flush" /\ closePc' = "flushed"
    BY Zenon DEF IInv, ShutdownOrder, Return
  <2> QED BY <1>3, <2>1
<1>15. loopPc' = loopPc \/ (f = "loop" /\ loopPc = "flush")
  <2>1. f = "loop" => loopPc = "flush"
    BY Zenon DEF IInv, ShutdownOrder
  <2> QED BY <1>3, <2>1
<1>16. ShutdownOrder'
  <2>1. flush'["loop"].pc # "idle" => loopPc' = "flush"
    BY Zenon, <1>2, <1>13, <1>15 DEF IInv, ShutdownOrder
  <2>2. flush'["stop"].pc # "idle" => closePc' = "flush"
    BY Zenon, <1>2, <1>13, <1>14 DEF IInv, ShutdownOrder
  <2>3. closePc' = "closed" => loopPc' = "done"
    BY <1>14, <1>15 DEF IInv, ShutdownOrder
  <2> QED BY Zenon, <2>1, <2>2, <2>3 DEF IInv, ShutdownOrder
<1>17. QueriersAreNumbered'
  <2>1. closePc = "closed" => closePc' = "closed"
    BY <1>14
  <2> QED BY Zenon, <2>1, Kept
<1> QED BY Zenon, <1>6, <1>7, <1>8, <1>11, <1>12, <1>16, <1>17, Kept

(* A flush goes on to its next step.                                       *)
LEMMA FlushGoesOn ==
    ASSUME IInv, NEW f \in Flushers, NEW pc \in {"write", "rename"},
           flush[f].pc \in {"check", "write"},
           flush' = [flush EXCEPT ![f].pc = pc]
    PROVE  /\ flush'[f].pc = pc
           /\ \A g \in Flushers : /\ flush'[g].head = flush[g].head
                                  /\ flush'[g].pc = "idle" <=> flush[g].pc = "idle"
                                  /\ g # f => flush'[g] = flush[g]
<1>1. flush \in [Flushers -> FlushState]
  BY Zenon DEF IInv, TypeOK
<1> QED BY <1>1 DEF FlushState

(* The check for an empty head.                                            *)
LEMMA FlushCheckIInv ==
    ASSUME IInv, TypeOK', DeadHoldsNothing', NEW f \in Flushers, FlushCheck(f)
    PROVE  IInv'
<1>1. flush[f].pc = "check"
      /\ UNCHANGED <<head, nextULID, rows, ingest, query, beforeStop>>
      /\ UNCHANGED <<deleted, late, lost, failed>>
      /\ UNCHANGED <<local, blockRows, queriers, created, opened, closed, closing, metas>>
  BY Zenon DEF FlushCheck, flushing, dbVars, history, blockVars, disk, querierVars, syncVars
<1>2. CASE rows[flush[f].head] = {}
  <2>1. Return(f, TRUE)
    BY Zenon, <1>2 DEF FlushCheck
  <2>2. flush[f].head \notin local
    BY Zenon DEF IInv, HeadsAreFlushedOnce
  <2>3. ASSUME NEW p \in Acknowledged, ingest[p].head = flush[f].head
        PROVE  AcceptedLoss(p)'
    BY Zenon, <1>1, <1>2, <2>2, <2>3 DEF IInv, RowsAreKept, OnDisk, AcceptedLoss
  <2>4. flush[f].pc # "idle"
    BY <1>1
  <2> QED BY Zenon, <1>1, <2>1, <2>3, <2>4, ReturnIInv DEF IInv
<1>3. CASE rows[flush[f].head] # {}
  <2>1. flush' = [flush EXCEPT ![f].pc = "write"] /\ UNCHANGED <<loopPc, closePc>>
    BY Zenon, <1>3 DEF FlushCheck
  <2>2. /\ flush'[f].pc = "write"
        /\ \A g \in Flushers : /\ flush'[g].head = flush[g].head
                               /\ flush'[g].pc = "idle" <=> flush[g].pc = "idle"
                               /\ g # f => flush'[g] = flush[g]
    BY Zenon, <1>1, <2>1, FlushGoesOn
  <2>3. ULIDsAreFresh' /\ HeadsAreFlushedOnce'
    <3>1. ULIDsAreFresh'
      BY Zenon, <1>1, <2>2 DEF IInv, ULIDsAreFresh
    <3>2. HeadsAreFlushedOnce'
      BY SMTT(30), <1>1, <2>2 DEF IInv, HeadsAreFlushedOnce
    <3> QED BY Zenon, <3>1, <3>2
  <2>4. RowsAreKept'
    <3>1. \A g \in Flushers : flush'[g].pc = "rename" => flush'[g] = flush[g]
      BY Zenon, <2>2
    <3> QED BY SMTT(30), <1>1, <3>1 DEF IInv, RowsAreKept, Acknowledged, OnDisk, AcceptedLoss
  <2>5. OnlyAcceptedLosses'
    <3>1. \A g \in Flushers : flush'[g].head = flush[g].head
      BY Zenon, <2>2
    <3> QED BY <1>1, <3>1 DEF IInv, OnlyAcceptedLosses, Acknowledged, OnDisk, AcceptedLoss
  <2>6. ShutdownOrder'
    BY Zenon, <1>1, <2>1, <2>2 DEF IInv, ShutdownOrder, Flushers
  <2> QED BY Zenon, <1>1, <2>1, <2>3, <2>4, <2>5, <2>6, Kept DEF IInv
<1> QED BY Zenon, <1>2, <1>3

(* The index and the tables are written, or the flush fails.               *)
LEMMA FlushWriteIInv ==
    ASSUME IInv, TypeOK', DeadHoldsNothing', NEW f \in Flushers, FlushWrite(f)
    PROVE  IInv'
<1> DEFINE u == flush[f].head
<1>1. flush[f].pc = "write"
      /\ UNCHANGED <<head, nextULID, rows, ingest, query, beforeStop, deleted, late, lost>>
      /\ UNCHANGED <<local, queriers, created, opened, closed, closing, metas>>
  BY Zenon DEF FlushWrite, flushing, querierVars, syncVars
<1>2. u \in ULIDs /\ u \notin local
  BY Zenon, <1>1, FlushedHead DEF IInv, HeadsAreFlushedOnce
<1>3. CASE failed' = failed \cup {u} /\ Return(f, FALSE) /\ UNCHANGED blockRows
  <2>1. flush[f].pc # "idle"
    BY <1>1
  <2>2. ASSUME NEW p \in Acknowledged, ingest[p].head = flush[f].head
        PROVE  AcceptedLoss(p)'
    BY Zenon, <1>1, <1>3, <2>2 DEF AcceptedLoss
  <2> QED BY Zenon, <1>1, <1>3, <2>1, <2>2, ReturnIInv DEF IInv
<1>4. CASE /\ blockRows' = [blockRows EXCEPT ![u] = rows[u]]
           /\ flush' = [flush EXCEPT ![f].pc = "rename"]
           /\ UNCHANGED <<failed, loopPc, closePc>>
  <2>1. /\ flush'[f].pc = "rename"
        /\ \A g \in Flushers : /\ flush'[g].head = flush[g].head
                               /\ flush'[g].pc = "idle" <=> flush[g].pc = "idle"
                               /\ g # f => flush'[g] = flush[g]
    BY Zenon, <1>1, <1>4, FlushGoesOn
  <2>2. /\ blockRows'[u] = rows[u]
        /\ \A v \in ULIDs : v # u => blockRows'[v] = blockRows[v]
    BY Zenon, <1>2, <1>4 DEF IInv, TypeOK, QuerierTypeOK
  <2> HIDE DEF u
  <2>3. ULIDsAreFresh'
    BY <1>1, <2>1 DEF IInv, ULIDsAreFresh
  <2>4. HeadsAreFlushedOnce'
    BY SMTT(30), <1>1, <2>1 DEF IInv, HeadsAreFlushedOnce
  <2>5. RowsOfOneHead'
    BY SMTT(30), <1>1, <1>2, <2>2 DEF IInv, RowsOfOneHead
  <2>6. Acknowledged' = Acknowledged
        /\ \A p \in Acknowledged : p \in Profiles /\ ingest[p].head \in ULIDs
    BY Zenon, <1>1, IngestHead DEF IInv, Acknowledged
  <2>7. \A p \in Acknowledged : /\ AcceptedLoss(p) <=> AcceptedLoss(p)'
                                /\ OnDisk(p) <=> OnDisk(p)'
    <3>1. \A p \in Acknowledged : ingest[p].head \in local => ingest[p].head # u
      BY Zenon, <1>2
    <3> QED BY <1>1, <1>4, <2>2, <2>6, <3>1 DEF AcceptedLoss, OnDisk
  <2>8. RowsAreKept'
    <3>1. ASSUME NEW p \in Acknowledged', NEW g \in Flushers,
                 flush'[g].pc = "rename", flush'[g].head = ingest'[p].head
          PROVE  p \in blockRows'[ingest'[p].head] \/ AcceptedLoss(p)'
      <4>1. CASE g = f
        <5>1. ingest[p].head = u
          BY Zenon, <1>1, <2>1, <3>1, <4>1 DEF u
        <5>2. p \in rows[u] \/ AcceptedLoss(p)
          BY Zenon, <1>2, <2>6, <3>1, <5>1 DEF IInv, RowsAreKept, OnDisk, AcceptedLoss
        <5> QED BY Zenon, <1>1, <2>2, <2>6, <2>7, <3>1, <5>1, <5>2
      <4>2. CASE g # f
        <5>1. flush[g].pc = "rename" /\ flush[g].head = ingest[p].head
          BY Zenon, <1>1, <2>1, <3>1, <4>2
        <5>2. u # 0
          BY Zenon, <1>2, BlockQuerierAssumption
        <5>3. flush[g].head # u
          BY Zenon, <4>2, <5>2 DEF IInv, HeadsAreFlushedOnce, u
        <5>4. p \in blockRows[ingest[p].head] \/ AcceptedLoss(p)
          BY Zenon, <2>6, <3>1, <5>1 DEF IInv, RowsAreKept
        <5> QED BY Zenon, <1>1, <2>2, <2>6, <2>7, <3>1, <5>1, <5>3, <5>4
      <4> QED BY Zenon, <4>1, <4>2
    <3>2. ASSUME NEW p \in Acknowledged'
          PROVE  \/ p \in rows'[ingest'[p].head]
                 \/ OnDisk(p)'
                 \/ p \in lost'
                 \/ ingest'[p].head \in deleted'
      BY Zenon, <1>1, <2>6, <2>7, <3>2 DEF IInv, RowsAreKept
    <3> QED BY Zenon, <3>1, <3>2 DEF RowsAreKept
  <2>9. OnlyAcceptedLosses'
    <3>1. \A g \in Flushers : flush'[g].head = flush[g].head
      BY Zenon, <2>1
    <3> QED BY <1>1, <2>6, <2>7, <3>1 DEF IInv, OnlyAcceptedLosses
  <2>10. ShutdownOrder'
    BY Zenon, <1>1, <1>4, <2>1 DEF IInv, ShutdownOrder, Flushers
  <2> QED BY Zenon, <1>1, <1>4, <2>3, <2>4, <2>5, <2>8, <2>9, <2>10, Kept DEF IInv
<1> QED BY Zenon, <1>3, <1>4 DEF FlushWrite

(* The block moves to the local directory, or the flush fails.             *)
LEMMA FlushRenameIInv ==
    ASSUME IInv, TypeOK', DeadHoldsNothing', NEW f \in Flushers, FlushRename(f)
    PROVE  IInv'
<1>1. flush[f].pc = "rename"
      /\ UNCHANGED <<head, nextULID, rows, ingest, query, beforeStop, deleted, late, lost>>
      /\ UNCHANGED <<blockRows, queriers, created, opened, closed, closing, metas>>
  BY Zenon DEF FlushRename, flushing, dbVars, querierVars, syncVars
<1>2. flush[f].pc # "idle"
  BY <1>1
<1>3. CASE local' = local \cup {flush[f].head} /\ Return(f, TRUE) /\ UNCHANGED failed
  <2>1. ASSUME NEW p \in Acknowledged, ingest[p].head = flush[f].head
        PROVE  OnDisk(p)' \/ AcceptedLoss(p)'
    BY Zenon, <1>1, <1>3, <2>1 DEF IInv, RowsAreKept, OnDisk, AcceptedLoss
  <2> QED BY Zenon, <1>1, <1>2, <1>3, <2>1, ReturnIInv DEF IInv
<1>4. CASE failed' = failed \cup {flush[f].head} /\ Return(f, FALSE) /\ UNCHANGED local
  <2>1. ASSUME NEW p \in Acknowledged, ingest[p].head = flush[f].head
        PROVE  AcceptedLoss(p)'
    BY Zenon, <1>1, <1>4, <2>1 DEF AcceptedLoss
  <2> QED BY Zenon, <1>1, <1>2, <1>4, <2>1, ReturnIInv DEF IInv
<1> QED BY Zenon, <1>3, <1>4 DEF FlushRename

(* The steps that only move the loop, a head's loop or the shutdown on.    *)
LEMMA QuietIInv ==
    ASSUME IInv, TypeOK', DeadHoldsNothing',
           \/ \E u \in ULIDs : HeadLoop(u)
           \/ LoopTop \/ LoopTick \/ LoopStop \/ CleanupEnd \/ CloseHead \/ CloseStopCh
           \/ UNCHANGED vars
    PROVE  IInv'
<1>1. UNCHANGED <<head, nextULID, rows, ingest, flush, query, history>>
      /\ UNCHANGED <<local, blockRows, queriers, created, opened, closed, closing, metas>>
  BY Zenon DEF HeadLoop, LoopTop, LoopTick, LoopStop, CleanupEnd, CloseHead, CloseStopCh,
               vars, dbVars, blockVars, disk, querierVars, syncVars
<1>2. UNCHANGED <<beforeStop, deleted, failed, late, lost>>
  BY Zenon, <1>1 DEF history
<1>3. /\ \/ UNCHANGED <<loopPc, closePc>>
         \/ loopPc \in {"top", "select", "cleanup"} /\ closePc' = closePc
         \/ closePc \in {"flushed", "stopCh"} /\ closePc' \in {"stopCh", "wait"} /\ loopPc' = loopPc
  BY Zenon DEF HeadLoop, LoopTop, LoopTick, LoopStop, CleanupEnd, CloseHead, CloseStopCh,
               vars, loopVars
<1>4. ShutdownOrder' /\ (closePc = "closed" => closePc' = "closed")
  BY <1>1, <1>2, <1>3 DEF IInv, ShutdownOrder
<1> QED BY Zenon, <1>1, <1>2, <1>4, Kept DEF IInv

(* The cleanup deletes the oldest block.                                   *)
LEMMA CleanupDeleteIInv ==
    ASSUME IInv, TypeOK', DeadHoldsNothing', CleanupDelete
    PROVE  IInv'
<1>1. UNCHANGED <<head, nextULID, rows, ingest, flush, query, loopPc, closePc>>
      /\ UNCHANGED <<beforeStop, failed, late, lost>>
      /\ UNCHANGED <<blockRows, queriers, created, opened, closed, closing, metas>>
  BY Zenon DEF CleanupDelete, dbVars, querierVars, syncVars
<1>2. PICK u \in local : local' = local \ {u} /\ deleted' = deleted \cup {u}
  BY Zenon DEF CleanupDelete
<1>3. ULIDsAreFresh' /\ HeadIsNoBlock'
  BY Zenon, <1>1, <1>2 DEF IInv, ULIDsAreFresh, HeadIsNoBlock
<1>4. HeadsAreFlushedOnce'
  BY Zenon, <1>1, <1>2 DEF IInv, HeadsAreFlushedOnce
<1>5. /\ Acknowledged' = Acknowledged
      /\ \A p : AcceptedLoss(p) => AcceptedLoss(p)'
      /\ \A p : OnDisk(p) => OnDisk(p)' \/ (ingest[p].head \in deleted' /\ AcceptedLoss(p)')
  BY Zenon, <1>1, <1>2 DEF Acknowledged, AcceptedLoss, OnDisk
<1>6. RowsAreKept'
  BY Zenon, <1>1, <1>2, <1>5 DEF IInv, RowsAreKept
<1>7. OnlyAcceptedLosses'
  BY Zenon, <1>1, <1>5 DEF IInv, OnlyAcceptedLosses
<1> QED BY Zenon, <1>1, <1>3, <1>4, <1>6, <1>7, Kept DEF IInv

(* The steps of Sync.                                                      *)
LEMMA SyncIInv ==
    ASSUME IInv, TypeOK', DeadHoldsNothing', LoopSync
    PROVE  IInv'
<1>1. UNCHANGED <<head, nextULID, rows, ingest, flush, query, closePc>>
      /\ UNCHANGED <<beforeStop, deleted, failed, late, lost>>
      /\ loopPc = "sync"
  BY Zenon DEF LoopSync, dbVars, history
<1>2. UNCHANGED <<local, blockRows>>
  BY Zenon DEF LoopSync, SyncObserve, SyncFails, SyncApply, SyncClose, SyncEnd, disk
<1>3. ShutdownOrder'
  BY <1>1 DEF IInv, ShutdownOrder
<1>4. ASSUME SyncObserve
      PROVE  ULIDsAreFresh' /\ HeadIsNoBlock' /\ QueriersAreNumbered'
  <2>1. UNCHANGED <<queriers, created, opened, closed, closing>> /\ metas' \subseteq local
    BY Zenon, <1>4 DEF SyncObserve, BlockMetas, querierVars
  <2> QED BY Zenon, <1>1, <1>2, <2>1, Kept DEF IInv, ULIDsAreFresh, HeadIsNoBlock
<1>5. ASSUME SyncApply
      PROVE  ULIDsAreFresh' /\ HeadIsNoBlock' /\ QueriersAreNumbered'
  <2> DEFINE new == metas \ blocksOf(kept)
  <2>1. /\ queriers' = kept \cup newQueriers(new)
        /\ created' = [u \in ULIDs |-> IF u \in new THEN created[u] + 1 ELSE created[u]]
        /\ closing' = queriers \ kept
        /\ UNCHANGED <<opened, closed, metas>>
    BY Zenon, <1>5 DEF SyncApply, leftOver
  <2>2. new \subseteq metas /\ metas \subseteq ULIDs /\ kept \subseteq queriers
        /\ \A q \in kept : q.block \notin new
    BY Zenon DEF kept, blocksOf, IInv, TypeOK, QuerierTypeOK
  <2>3. \A q \in newQueriers(new) : q.block \in new /\ q.number = created[q.block] + 1
    BY DEF newQueriers
  <2>4. \A q, r \in newQueriers(new) : q.block = r.block => q = r
    BY DEF newQueriers
  <2> HIDE DEF new
  <2>5. created \in [ULIDs -> Nat]
    BY Zenon DEF IInv, TypeOK, QuerierTypeOK
  <2>6. \A u \in ULIDs : created[u] \in Nat /\ created'[u] \in Nat /\ created[u] <= created'[u]
                         /\ (u \in new => created'[u] = created[u] + 1)
    BY <2>1, <2>5
  <2>7. \A q \in queriers \cup opened \cup closed \cup closing \cup query.blocks :
            q.block \in ULIDs /\ q.number \in Nat /\ q.number <= created[q.block]
    <3>1. queriers \cup opened \cup closed \cup closing \cup query.blocks \subseteq Querier
      BY DEF IInv, TypeOK, QuerierTypeOK, QueryState
    <3>2. \A q \in Querier : q.block \in ULIDs /\ q.number \in Nat
      BY DEF Querier
    <3> QED BY Zenon, <3>1, <3>2 DEF IInv, QueriersAreNumbered
  <2>8. \A q \in newQueriers(new) :
            q \notin queriers \cup opened \cup closed \cup closing \cup query.blocks
    BY <2>2, <2>3, <2>6, <2>7
  <2>9. ULIDsAreFresh'
    BY Zenon, <1>1, <1>2, <2>1, <2>2, <2>3 DEF IInv, ULIDsAreFresh
  <2>10. HeadIsNoBlock'
    BY Zenon, <1>1, <1>2, <2>1, <2>2, <2>3 DEF IInv, HeadIsNoBlock
  <2>11. \A q \in queriers' \cup opened' \cup closed' \cup closing' \cup query'.blocks :
            q.number <= created'[q.block]
    <3>1. \A q \in newQueriers(new) : q.number <= created'[q.block]
      BY <2>2, <2>3, <2>6
    <3>2. \A q \in queriers \cup opened \cup closed \cup closing \cup query.blocks :
              q.number <= created'[q.block]
      BY <2>6, <2>7
    <3> QED BY Zenon, <1>1, <2>1, <2>2, <3>1, <3>2
  <2>12. queriers' \cap closing' = {}
    BY Zenon, <2>1, <2>8
  <2>13. \A q, r \in queriers' : q.block = r.block => q = r
    BY Zenon, <2>1, <2>2, <2>3, <2>4 DEF IInv, QueriersAreNumbered
  <2>14. closePc' # "closed" => queriers' \cap closed' = {}
    BY Zenon, <1>1, <2>1, <2>2, <2>8 DEF IInv, QueriersAreNumbered
  <2>15. QueriersAreNumbered'
    BY Zenon, <2>11, <2>12, <2>13, <2>14 DEF QueriersAreNumbered
  <2> QED BY Zenon, <2>9, <2>10, <2>15
<1>6. ASSUME SyncClose \/ SyncEnd \/ SyncFails
      PROVE  ULIDsAreFresh' /\ HeadIsNoBlock' /\ QueriersAreNumbered'
  <2>1. /\ UNCHANGED <<queriers, created, opened>>
        /\ closing' \subseteq closing /\ closed' \subseteq closed \cup closing
        /\ metas' \subseteq metas
    BY Zenon, <1>6 DEF SyncClose, SyncEnd, SyncFails, querierVars
  <2>2. ULIDsAreFresh' /\ HeadIsNoBlock'
    BY Zenon, <1>1, <1>2, <2>1 DEF IInv, ULIDsAreFresh, HeadIsNoBlock
  <2>3. QueriersAreNumbered'
    BY Zenon, <1>1, <2>1 DEF IInv, QueriersAreNumbered
  <2> QED BY Zenon, <2>2, <2>3
<1>7. ULIDsAreFresh' /\ HeadIsNoBlock' /\ QueriersAreNumbered'
  BY Zenon, <1>4, <1>5, <1>6 DEF LoopSync
<1> QED BY Zenon, <1>1, <1>2, <1>3, <1>7, Kept DEF IInv

(* Close closes the queriers when the loop has ended.                      *)
LEMMA CloseQueriersIInv ==
    ASSUME IInv, TypeOK', DeadHoldsNothing', CloseQueriers
    PROVE  IInv'
<1>1. UNCHANGED <<head, nextULID, rows, ingest, flush, query, loopPc>>
      /\ UNCHANGED <<beforeStop, deleted, failed, late, lost>>
      /\ UNCHANGED <<local, blockRows, queriers, created, opened, closing, metas>>
      /\ loopPc = "done" /\ closePc = "wait" /\ closePc' = "closed"
      /\ closed' = closed \cup queriers
  BY Zenon DEF CloseQueriers, dbVars, loopVars, history, disk, syncVars
<1>2. ShutdownOrder'
  BY <1>1 DEF IInv, ShutdownOrder
<1>3. QueriersAreNumbered'
  BY Zenon, <1>1 DEF IInv, QueriersAreNumbered
<1> QED BY Zenon, <1>1, <1>2, <1>3, Kept DEF IInv

(* The steps of a query that choose what to read: the blocks, then the     *)
(* head.                                                                   *)
LEMMA QueryChoosesIInv ==
    ASSUME IInv, TypeOK', DeadHoldsNothing', QueryBlocks \/ QueryInRange \/ QueryHead \/ ReadEnd
    PROVE  IInv'
<1>1. UNCHANGED <<head, nextULID, rows, ingest, flush, loopPc, closePc>>
      /\ UNCHANGED <<beforeStop, deleted, failed, late, lost>>
      /\ UNCHANGED <<local, blockRows, queriers, created, opened, closed, closing, metas>>
  BY Zenon DEF QueryBlocks, QueryInRange, QueryHead, ReadEnd, dbVars, loopVars, history,
               blockVars, disk, querierVars, syncVars
<1>2. query \in QueryState
  BY Zenon DEF IInv, TypeOK
<1>3. ASSUME QueryBlocks
      PROVE  ULIDsAreFresh' /\ HeadIsNoBlock' /\ QueriersAreNumbered' /\ CountedOnce'
  <2>1. query'.blocks = queriers /\ query'.head = 0
        /\ \A p \in Profiles : query'.count[p] = 0
    BY ONLY <1>3 DEF QueryBlocks, NoQuery
  <2>2. ULIDsAreFresh'
    BY Zenon, <1>1, <2>1 DEF IInv, ULIDsAreFresh
  <2>3. HeadIsNoBlock'
    BY Zenon, <1>1, <2>1 DEF IInv, HeadIsNoBlock
  <2>4. QueriersAreNumbered'
    BY Zenon, <1>1, <2>1 DEF IInv, QueriersAreNumbered
  <2>5. \A q \in queriers : q.block # 0
    BY Zenon, Numbers DEF IInv
  <2>6. CountedOnce'
    BY Zenon, <2>1, <2>5 DEF IInv, QueriersAreNumbered, CountedOnce
  <2> QED BY Zenon, <2>2, <2>3, <2>4, <2>6
<1>4. ASSUME ~QueryBlocks
      PROVE  ULIDsAreFresh' /\ HeadIsNoBlock' /\ QueriersAreNumbered' /\ CountedOnce'
  <2>1. /\ query'.blocks = query.blocks /\ query'.count = query.count
        /\ \/ /\ query'.head = query.head
              /\ query'.pc = "head" => query.pc = "inRange"
              /\ query'.pc \notin {"idle", "inRange"}
           \/ query'.head = head /\ query.pc = "head" /\ query'.pc = "read"
    BY Zenon, <1>2, <1>4 DEF QueryInRange, QueryHead, ReadEnd, QueryState
  <2>2. ULIDsAreFresh' /\ QueriersAreNumbered'
    BY Zenon, <1>1, <2>1 DEF IInv, ULIDsAreFresh, QueriersAreNumbered
  <2>3. HeadIsNoBlock'
    BY <1>1, <2>1 DEF IInv, HeadIsNoBlock
  <2>4. CountedOnce'
    <3>1. CASE /\ query'.head = query.head
               /\ query'.pc = "head" => query.pc = "inRange"
               /\ query'.pc \notin {"idle", "inRange"}
      BY <1>1, <2>1, <3>1 DEF IInv, CountedOnce
    <3>2. CASE query'.head = head /\ query.pc = "head" /\ query'.pc = "read"
      BY <1>1, <2>1, <3>2 DEF IInv, CountedOnce, HeadIsNoBlock
    <3> QED BY Zenon, <2>1, <3>1, <3>2
  <2> QED BY Zenon, <2>2, <2>3, <2>4
<1>5. ULIDsAreFresh' /\ HeadIsNoBlock' /\ QueriersAreNumbered' /\ CountedOnce'
  BY Zenon, <1>3, <1>4
<1> QED BY Zenon, <1>1, <1>5, Kept DEF IInv

(* A query reads the head it has taken: none of the profiles of the head   *)
(* was counted before.                                                     *)
LEMMA ReadHeadIInv ==
    ASSUME IInv, TypeOK', DeadHoldsNothing', ReadHead
    PROVE  IInv'
<1>1. UNCHANGED <<head, nextULID, rows, ingest, flush, loopPc, closePc>>
      /\ UNCHANGED <<beforeStop, deleted, failed, late, lost>>
      /\ UNCHANGED <<local, blockRows, queriers, created, opened, closed, closing, metas>>
  BY Zenon DEF ReadHead, dbVars, loopVars, history, blockVars, disk, querierVars, syncVars
<1>2. query \in QueryState
  BY Zenon DEF IInv, TypeOK
<1>3. query.pc = "read" /\ query.head \in ULIDs
  BY <1>2 DEF ReadHead, QueryState
<1>4. /\ query'.pc = "read" /\ query'.head = 0 /\ query'.blocks = query.blocks
      /\ query'.count = plus(query.count, rows[query.head])
  BY ONLY <1>2, <1>3, ReadHead DEF ReadHead, blocksToRead, QueryState
<1>5. ULIDsAreFresh' /\ QueriersAreNumbered'
  BY Zenon, <1>1, <1>4 DEF IInv, ULIDsAreFresh, QueriersAreNumbered
<1>6. HeadIsNoBlock'
  BY <1>1, <1>4 DEF IInv, HeadIsNoBlock
<1>7. CountedOnce'
  <2>1. \A q \in query.blocks : q.block # 0
    BY Zenon, Numbers DEF IInv
  <2>2. ASSUME NEW p \in Profiles, query'.count[p] # 0
        PROVE  /\ query'.count[p] = 1
               /\ ingest[p].pc = "acked"
               /\ ingest[p].head # 0
               /\ \A q \in query.blocks : q.block # ingest[p].head
    <3>1. query.count[p] \in Nat
      BY <1>2 DEF QueryState
    <3>2. CASE p \in rows[query.head]
      <4>1. ingest[p].pc = "acked" /\ ingest[p].head = query.head
        BY Zenon, <1>3, <3>2 DEF IInv, RowsOfOneHead
      <4>2. query.count[p] = 0
        BY Zenon, <4>1 DEF IInv, CountedOnce
      <4>3. query'.count[p] = 1
        BY <1>4, <3>2, <4>2 DEF plus
      <4>4. ingest[p].head # 0
        BY Zenon, <1>3, <4>1, BlockQuerierAssumption
      <4> QED BY Zenon, <4>1, <4>3, <4>4 DEF IInv, CountedOnce
    <3>3. CASE p \notin rows[query.head]
      <4>1. query'.count[p] = query.count[p]
        BY Zenon, <1>4, <3>3 DEF plus
      <4>2. /\ query.count[p] = 1 /\ ingest[p].pc = "acked"
            /\ \A q \in query.blocks : q.block # ingest[p].head
        BY Zenon, <2>2, <4>1 DEF IInv, CountedOnce
      <4>3. ingest[p].pc # "idle"
        BY <4>2
      <4> QED BY Zenon, <4>1, <4>2, <4>3, IngestHead DEF IInv
    <3> QED BY Zenon, <3>2, <3>3
  <2>3. query'.pc \notin {"idle", "inRange", "head"}
    BY <1>4
  <2> QED BY Zenon, <1>1, <1>4, <2>1, <2>2, <2>3 DEF IInv, CountedOnce
<1> QED BY Zenon, <1>1, <1>5, <1>6, <1>7, Kept DEF IInv

(* A query reads a block, which holds no profile it has counted, or ends.  *)
LEMMA ReadBlockIInv ==
    ASSUME IInv, TypeOK', DeadHoldsNothing', ReadBlock
    PROVE  IInv'
<1>1. UNCHANGED <<head, nextULID, rows, ingest, flush, loopPc, closePc>>
      /\ UNCHANGED <<beforeStop, deleted, failed, late, lost>>
      /\ UNCHANGED <<local, blockRows, queriers, created, closing, metas>>
  BY Zenon DEF ReadBlock, dbVars, loopVars, history, disk, syncVars
<1>2. query \in QueryState
  BY Zenon DEF IInv, TypeOK
<1>3. opened' \subseteq opened \cup query.blocks /\ closed' \subseteq closed
  BY Zenon DEF ReadBlock, open
<1>4. PICK q \in query.blocks :
         \/ \E pc \in {"panic", "failed"} : query' = [query EXCEPT !.pc = pc]
         \/ query' = [query EXCEPT !.blocks = @ \ {q}, !.count = plus(@, blockRows[q.block])]
  BY Zenon DEF ReadBlock
<1>5. /\ query'.head = query.head /\ query'.blocks \subseteq query.blocks
      /\ query'.pc \notin {"idle", "inRange", "head"}
      /\ \/ query'.blocks = query.blocks /\ query'.count = query.count
         \/ query'.blocks = query.blocks \ {q}
            /\ query'.count = plus(query.count, blockRows[q.block])
  <2>1. query.pc = "read"
    BY Zenon DEF ReadBlock
  <2> QED BY ONLY Zenon, <1>2, <1>4, <2>1 DEF QueryState
<1>6. ULIDsAreFresh'
  BY Zenon, <1>1, <1>5 DEF IInv, ULIDsAreFresh
<1>7. HeadIsNoBlock'
  BY Zenon, <1>1, <1>5 DEF IInv, HeadIsNoBlock
<1>8. QueriersAreNumbered'
  BY Zenon, <1>1, <1>3, <1>5 DEF IInv, QueriersAreNumbered
<1>9. CountedOnce'
  <2>1. CASE query'.blocks = query.blocks /\ query'.count = query.count
    BY Zenon, <1>1, <1>5, <2>1 DEF IInv, CountedOnce
  <2>2. CASE /\ query'.blocks = query.blocks \ {q}
             /\ query'.count = plus(query.count, blockRows[q.block])
    <3>1. q.block \in ULIDs
      BY <1>2 DEF QueryState, Querier
    <3>2. \A r \in query.blocks \ {q} : r.block # q.block
      BY Zenon DEF IInv, CountedOnce
    <3>3. ASSUME NEW p \in Profiles, query'.count[p] # 0
          PROVE  /\ query'.count[p] = 1
                 /\ ingest[p].pc = "acked"
                 /\ ingest[p].head # query.head
                 /\ \A r \in query'.blocks : r.block # ingest[p].head
      <4>1. query.count[p] \in Nat
        BY <1>2 DEF QueryState
      <4>2. CASE p \in blockRows[q.block]
        <5>1. ingest[p].pc = "acked" /\ ingest[p].head = q.block
          BY Zenon, <3>1, <4>2 DEF IInv, RowsOfOneHead
        <5>2. query.count[p] = 0 /\ q.block # query.head
          BY Zenon, <5>1 DEF IInv, CountedOnce
        <5>3. query'.count[p] = 1
          BY <2>2, <4>2, <5>2 DEF plus
        <5> QED BY Zenon, <2>2, <3>2, <5>1, <5>2, <5>3
      <4>3. CASE p \notin blockRows[q.block]
        <5>1. query'.count[p] = query.count[p]
          BY Zenon, <2>2, <4>3 DEF plus
        <5> QED BY Zenon, <1>5, <3>3, <5>1 DEF IInv, CountedOnce
      <4> QED BY Zenon, <4>2, <4>3
    <3> QED BY Zenon, <1>1, <1>5, <3>3 DEF IInv, CountedOnce
  <2> QED BY Zenon, <1>5, <2>1, <2>2
<1> QED BY Zenon, <1>1, <1>6, <1>7, <1>8, <1>9, Kept DEF IInv

(* The process dies: what is not on disk is lost.                          *)
LEMMA DieIInv ==
    ASSUME IInv, TypeOK', DeadHoldsNothing', Crash \/ LoopPanic \/ SyncPanic
    PROVE  IInv'
<1>1. Die /\ UNCHANGED closePc /\ closePc # "closed"
  BY DEF Crash, LoopPanic, SyncPanic, IInv, ShutdownOrder
<1>2. /\ head' = 0 /\ queriers' = {} /\ opened' = {} /\ closed' = {} /\ metas' = {} /\ closing' = {}
      /\ UNCHANGED <<nextULID, created, deleted, failed, late, beforeStop, local, blockRows>>
      /\ \A u \in ULIDs : rows'[u] = {}
      /\ \A p \in Profiles : ingest'[p] = IF ingest[p].pc = "acked" THEN ingest[p] ELSE NoIngest
      /\ lost' = lost \cup {p \in Acknowledged : ~OnDisk(p)}
  BY Zenon, <1>1 DEF Die, disk
<1>3. \A f \in Flushers : flush'[f].pc = "idle" /\ flush'[f].head = 0
  BY <1>1 DEF Die, NoFlush
<1>4. /\ query'.pc = "idle" /\ query'.blocks = {} /\ query'.head = 0
      /\ \A p \in Profiles : query'.count[p] = 0
  BY <1>1 DEF Die, NoQuery
<1>5. NoIngest.pc = "idle" /\ NoIngest.head = 0
  BY DEF NoIngest
<1>6. Acknowledged' = Acknowledged
      /\ \A p \in Acknowledged : p \in Profiles /\ ingest'[p] = ingest[p]
  BY <1>2, <1>5 DEF Acknowledged
<1>7. \A u \in local : u \in Nat /\ u # 0
  BY Zenon, Numbers DEF IInv
<1>8. 0 < nextULID
  BY Numbers DEF IInv, ULIDsAreFresh
<1>9. ULIDsAreFresh'
  <2>1. \A p \in Profiles : ingest'[p].head < nextULID
    BY Zenon, <1>2, <1>5, <1>8 DEF IInv, ULIDsAreFresh
  <2> QED BY Zenon, <1>2, <1>3, <1>4, <1>8, <2>1 DEF IInv, ULIDsAreFresh
<1>10. HeadsAreFlushedOnce'
  BY Zenon, <1>2, <1>3, <1>7 DEF HeadsAreFlushedOnce
<1>11. HeadIsNoBlock'
  BY Zenon, <1>2, <1>4, <1>7 DEF HeadIsNoBlock
<1>12. RowsOfOneHead'
  <2>1. ASSUME NEW p \in Profiles PROVE ingest'[p].pc = "idle" <=> ingest'[p].head = 0
    <3>1. ingest[p].pc = "idle" <=> ingest[p].head = 0
      BY Zenon DEF IInv, RowsOfOneHead
    <3> QED BY <1>2, <1>5, <3>1
  <2>2. ASSUME NEW u \in ULIDs, NEW p \in blockRows[u]
        PROVE  ingest'[p].pc = "acked" /\ ingest'[p].head = u
    <3>1. ingest[p].pc = "acked" /\ ingest[p].head = u
      BY Zenon DEF IInv, RowsOfOneHead
    <3>2. p \in Profiles
      BY Zenon DEF IInv, TypeOK, QuerierTypeOK
    <3> QED BY Zenon, <1>2, <3>1, <3>2
  <2> QED BY Zenon, <1>2, <2>1, <2>2 DEF RowsOfOneHead
<1>13. QueriersAreNumbered'
  BY Zenon, <1>2, <1>4 DEF QueriersAreNumbered
<1>14. CountedOnce'
  BY Zenon, <1>4 DEF CountedOnce
<1>15. \A p \in Acknowledged : p \notin lost' => OnDisk(p)'
  BY Zenon, <1>2, <1>6 DEF OnDisk
<1>16. RowsAreKept'
  <2>1. \A f \in Flushers : flush'[f].pc # "rename"
    BY <1>3
  <2> QED BY Zenon, <1>6, <1>15, <2>1 DEF RowsAreKept
<1>17. OnlyAcceptedLosses'
  BY Zenon, <1>6, <1>15 DEF OnlyAcceptedLosses, AcceptedLoss
<1>18. ShutdownOrder'
  <2>1. \A p \in beforeStop : ingest[p].pc = "acked" /\ p \in Profiles
    BY Zenon DEF IInv, ShutdownOrder, TypeOK, HistoryTypeOK
  <2>2. \A p \in beforeStop : ingest'[p].pc = "acked" /\ ingest'[p].head # 0
    <3>1. \A p \in beforeStop : ingest[p].pc # "idle"
      BY <2>1
    <3> QED BY Zenon, <1>2, <2>1, <3>1, IngestHead DEF IInv
  <2> QED BY Zenon, <1>1, <1>2, <1>3, <2>2 DEF ShutdownOrder, Flushers
<1> QED BY Zenon, <1>9, <1>10, <1>11, <1>12, <1>13, <1>14, <1>16, <1>17, <1>18 DEF IInv

(* A restart: a new head, and queriers of the blocks on disk.              *)
LEMMA RestartIInv ==
    ASSUME IInv, TypeOK', DeadHoldsNothing', Restart
    PROVE  IInv'
<1>1. /\ head' = nextULID /\ nextULID' = nextULID + 1 /\ nextULID \in ULIDs
      /\ queriers' = newQueriers(local)
      /\ created' = [u \in ULIDs |-> IF u \in local THEN created[u] + 1 ELSE created[u]]
      /\ UNCHANGED <<rows, ingest, flush, query, closePc>>
      /\ UNCHANGED <<beforeStop, deleted, failed, late, lost>>
      /\ UNCHANGED <<local, blockRows, opened, closed, closing, metas>>
      /\ closePc = "run" /\ loopPc' = "top"
  BY Zenon DEF Restart, history, disk, syncVars
<1>2. head = 0 /\ \A f \in Flushers : flush[f].pc = "idle" /\ flush[f].head = 0
  <2>1. ~alive
    BY Zenon DEF Restart
  <2> QED BY Zenon, <2>1 DEF IInv, DeadHoldsNothing, HeadsAreFlushedOnce
<1>3. nextULID \in Nat
      /\ (\A p \in Profiles : ingest[p].head \in Nat)
      /\ (\A u \in local \cup metas : u \in Nat /\ u # 0)
      /\ (\A q \in queriers \cup query.blocks : q.block \in Nat /\ q.block # 0)
  BY Zenon, Numbers DEF IInv
<1>4. /\ \A q \in queriers' : q.block \in local /\ q.number = created[q.block] + 1
      /\ \A q, r \in queriers' : q.block = r.block => q = r
  BY SMTT(30), <1>1 DEF newQueriers
<1>5. ULIDsAreFresh'
  BY SMTT(30), <1>1, <1>2, <1>3, <1>4 DEF IInv, ULIDsAreFresh
<1>6. HeadsAreFlushedOnce'
  BY Zenon, <1>1, <1>2, <1>3 DEF HeadsAreFlushedOnce
<1>7. HeadIsNoBlock'
  BY SMTT(30), <1>1, <1>3, <1>4 DEF IInv, HeadIsNoBlock, ULIDsAreFresh
<1>8. QueriersAreNumbered'
  <2>1. local \subseteq ULIDs /\ created \in [ULIDs -> Nat]
    BY Zenon DEF IInv, TypeOK, QuerierTypeOK
  <2>2. \A u \in ULIDs : created[u] \in Nat /\ created'[u] \in Nat /\ created[u] <= created'[u]
                         /\ (u \in local => created'[u] = created[u] + 1)
    BY <1>1, <2>1
  <2>3. \A q \in opened \cup closed \cup closing \cup query.blocks :
            q.block \in ULIDs /\ q.number \in Nat /\ q.number <= created[q.block]
    <3>1. opened \cup closed \cup closing \cup query.blocks \subseteq Querier
      BY DEF IInv, TypeOK, QuerierTypeOK, QueryState
    <3>2. \A q \in Querier : q.block \in ULIDs /\ q.number \in Nat
      BY DEF Querier
    <3> QED BY Zenon, <3>1, <3>2 DEF IInv, QueriersAreNumbered
  <2>4. \A q \in queriers' : q \notin closed \cup closing
    BY <1>4, <2>1, <2>2, <2>3
  <2>5. \A q \in queriers' \cup opened \cup closed \cup closing \cup query.blocks :
            q.number <= created'[q.block]
    <3>1. \A q \in queriers' : q.number <= created'[q.block]
      BY <1>4, <2>1, <2>2
    <3>2. \A q \in opened \cup closed \cup closing \cup query.blocks :
              q.number <= created'[q.block]
      BY <2>2, <2>3
    <3> QED BY Zenon, <3>1, <3>2
  <2> QED BY Zenon, <1>1, <1>4, <2>4, <2>5 DEF QueriersAreNumbered
<1>9. OnlyAcceptedLosses'
  <2>1. Acknowledged' = Acknowledged
        /\ \A p \in Acknowledged : p \in Profiles /\ ingest[p].head # 0
    BY Zenon, <1>1, IngestHead DEF IInv, Acknowledged
  <2> QED BY Zenon, <1>1, <1>2, <2>1 DEF IInv, OnlyAcceptedLosses, OnDisk, AcceptedLoss
<1>10. ShutdownOrder'
  <2>1. \A p \in beforeStop : p \in Profiles
    BY Zenon DEF IInv, TypeOK, HistoryTypeOK
  <2>2. \A p \in beforeStop : ingest[p].head # nextULID
    BY <1>3, <2>1 DEF IInv, ULIDsAreFresh
  <2> QED BY <1>1, <1>2, <2>2 DEF IInv, ShutdownOrder, Flushers
<1> QED BY Zenon, <1>1, <1>5, <1>6, <1>7, <1>8, <1>9, <1>10, Kept DEF IInv

(* The first head, and nothing else.                                       *)
LEMMA InitIInv == Init => IInv
<1> SUFFICES ASSUME Init PROVE IInv
  OBVIOUS
<1>1. TypeOK
  <2>1. QuerierTypeOK
    BY BlockQuerierAssumption DEF Init, QuerierInit, QuerierTypeOK
  <2>2. DBTypeOK /\ LoopTypeOK /\ HistoryTypeOK
    BY PhlareDBAssumption DEF Init, DBTypeOK, LoopTypeOK, HistoryTypeOK
  <2>3. NoFlush \in FlushState /\ NoIngest \in IngestState /\ NoQuery \in QueryState
    BY SMTT(30), PhlareDBAssumption DEF NoFlush, FlushState, NoIngest, IngestState, NoQuery, QueryState
  <2> QED BY Zenon, <2>1, <2>2, <2>3 DEF Init, TypeOK
<1>2. /\ query.pc = "idle" /\ query.blocks = {} /\ query.head = 0
      /\ \A p \in Profiles : query.count[p] = 0
      /\ \A p \in Profiles : ingest[p].pc = "idle" /\ ingest[p].head = 0
      /\ \A f \in Flushers : flush[f].pc = "idle" /\ flush[f].head = 0
  BY DEF Init, NoQuery, NoIngest, NoFlush
<1>3. Acknowledged = {}
  BY <1>2 DEF Acknowledged
<1>4. ULIDsAreFresh /\ HeadsAreFlushedOnce /\ HeadIsNoBlock /\ DeadHoldsNothing
  <2>1. /\ head = 1 /\ nextULID = 2 /\ local = {} /\ metas = {} /\ queriers = {} /\ alive
        /\ query.blocks = {}
    BY <1>2, Zenon DEF Init, QuerierInit
  <2>2. \A n : n = 0 \/ n = 1 => n < 2
    OBVIOUS
  <2>3. 0 < nextULID /\ head < nextULID
    BY <2>1, <2>2, Zenon
  <2>4. /\ \A p \in Profiles : ingest[p].head < nextULID
        /\ \A f \in Flushers : flush[f].head < nextULID
    BY <1>2, <2>3, Zenon
  <2>5. local \cup metas = {} /\ queriers \cup query.blocks = {}
    BY <2>1, Zenon
  <2>6. ULIDsAreFresh
    BY <2>3, <2>4, <2>5, Zenon DEF ULIDsAreFresh
  <2>7. HeadsAreFlushedOnce
    BY <1>2, <2>1, Zenon DEF HeadsAreFlushedOnce
  <2>8. HeadIsNoBlock
    BY <2>1, <2>5, Zenon DEF HeadIsNoBlock
  <2>9. DeadHoldsNothing
    BY <2>1, Zenon DEF DeadHoldsNothing
  <2> QED
    BY <2>6, <2>7, <2>8, <2>9, Zenon
<1>5. RowsOfOneHead /\ QueriersAreNumbered /\ CountedOnce
  BY Zenon, <1>2 DEF Init, QuerierInit, RowsOfOneHead, QueriersAreNumbered, CountedOnce
<1>6. RowsAreKept /\ OnlyAcceptedLosses
  BY Zenon, <1>3 DEF RowsAreKept, OnlyAcceptedLosses
<1>7. ShutdownOrder
  BY <1>2 DEF Init, ShutdownOrder, Flushers
<1> QED BY Zenon, <1>1, <1>4, <1>5, <1>6, <1>7 DEF IInv

(* The invariant behind the theorems below: every ULID is given to one     *)
(* head, a head is written by one flush, and every acknowledged profile    *)
(* can be followed from the rows of its head to a block.                   *)
THEOREM DatabaseInvariant == Spec => []IInv
<1>1. IInv /\ [Next]_vars => IInv'
  <2> SUFFICES ASSUME IInv, [Next]_vars PROVE IInv'
    OBVIOUS
  <2>1. TypeOK' /\ DeadHoldsNothing'
    BY Zenon, TypeStep, DeadStep DEF IInv
  <2>2. CASE \E p \in Profiles : PushGetHead(p) \/ PushIngest(p)
    BY Zenon, <2>1, <2>2, PushGetHeadIInv, PushIngestIInv
  <2>3. CASE ApiFlush \/ LoopFlush \/ StopFlush
    BY Zenon, <2>1, <2>3, FlushCallersIInv
  <2>4. CASE \E f \in Flushers : FlushCheck(f) \/ FlushWrite(f) \/ FlushRename(f)
    BY Zenon, <2>1, <2>4, FlushCheckIInv, FlushWriteIInv, FlushRenameIInv
  <2>5. CASE \/ \E u \in ULIDs : HeadLoop(u)
             \/ LoopTop \/ LoopTick \/ LoopStop \/ CleanupEnd \/ CloseHead \/ CloseStopCh
             \/ UNCHANGED vars
    BY Zenon, <2>1, <2>5, QuietIInv
  <2>6. CASE CleanupDelete \/ LoopSync \/ CloseQueriers
    BY Zenon, <2>1, <2>6, CleanupDeleteIInv, SyncIInv, CloseQueriersIInv
  <2>7. CASE QueryBlocks \/ QueryInRange \/ QueryHead \/ ReadHead \/ ReadBlock \/ ReadEnd
    BY Zenon, <2>1, <2>7, QueryChoosesIInv, ReadHeadIInv, ReadBlockIInv
  <2>8. CASE Crash \/ LoopPanic \/ SyncPanic \/ Restart
    BY Zenon, <2>1, <2>8, DieIInv, RestartIInv
  <2> QED BY Zenon, Steps, <2>2, <2>3, <2>4, <2>5, <2>6, <2>7, <2>8
<1> QED BY InitIInv, <1>1, PTL DEF Spec

(* A query counts no profile twice, whatever flushes, syncs and crashes    *)
(* happen between its steps: querierFor takes the blocks before the head.  *)
THEOREM CountsOnce == Spec => []NoProfileTwice
<1>1. ASSUME IInv PROVE NoProfileTwice
  <2> SUFFICES ASSUME NEW p \in Profiles PROVE query.count[p] <= 1
    BY Zenon DEF NoProfileTwice
  <2>1. query.count[p] = 0 \/ query.count[p] = 1
    BY Zenon, <1>1 DEF IInv, CountedOnce
  <2> QED BY <2>1
<1> QED BY <1>1, DatabaseInvariant, PTL

(* The list of queriers has one querier for a block, and none that Sync    *)
(* has closed after it released the lock.                                  *)
THEOREM Usable == Spec => []QueriersAreUsable
<1>1. IInv => QueriersAreUsable
  BY Zenon DEF IInv, QueriersAreNumbered, QueriersAreUsable
<1> QED BY <1>1, DatabaseInvariant, PTL

(* Whatever order the flushes of the loop, of the API and of the shutdown  *)
(* run in, an acknowledged profile is only lost in the accepted ways.      *)
THEOREM NothingElseIsLost == Spec => []OnlyAcceptedLosses
<1>1. IInv => OnlyAcceptedLosses
  BY Zenon DEF IInv
<1> QED BY <1>1, DatabaseInvariant, PTL

(* When Close has returned, what was acknowledged before the shutdown      *)
(* began is on disk, being written by a flush over the API, or lost in an  *)
(* accepted way.                                                           *)
THEOREM ShutdownKeeps == Spec => []ShutdownWritesHead
<1>1. ASSUME IInv PROVE ShutdownWritesHead
  <2> SUFFICES ASSUME closePc = "closed", NEW p \in beforeStop
               PROVE  \/ OnDisk(p)
                      \/ flush["api"].head = ingest[p].head
                      \/ AcceptedLoss(p)
    BY Zenon DEF ShutdownWritesHead
  <2>1. p \in Profiles /\ ingest[p].pc = "acked" /\ ingest[p].head # head
    BY Zenon, <1>1 DEF IInv, ShutdownOrder, TypeOK, HistoryTypeOK
  <2>2. p \in Acknowledged /\ ingest[p].head # 0
    <3>1. ingest[p].pc # "idle"
      BY <2>1
    <3> QED BY Zenon, <1>1, <2>1, <3>1, IngestHead DEF IInv, Acknowledged
  <2>3. flush["loop"].pc = "idle" /\ flush["stop"].pc = "idle"
    BY <1>1 DEF IInv, ShutdownOrder
  <2>4. flush["loop"].head = 0 /\ flush["stop"].head = 0
    BY <1>1, <2>3 DEF IInv, HeadsAreFlushedOnce, Flushers
  <2>5. \A f \in Flushers : flush[f].head = ingest[p].head => f = "api"
    BY Zenon, <2>2, <2>4 DEF Flushers
  <2> QED BY Zenon, <1>1, <2>1, <2>2, <2>5 DEF IInv, OnlyAcceptedLosses
<1> QED BY <1>1, DatabaseInvariant, PTL
=============================================================================

------------------------- MODULE DeduplicatingSlice -------------------------
(***************************************************************************)
(* One deduplicated table of the head (strings, mappings, functions,       *)
(* locations, stacktraces): concurrent calls of ingest and one Flush, with *)
(* the table's RWMutex.  The loop bodies are the steps, so that every      *)
(* interleaving the lock permits is a behaviour.                           *)
(*                                                                         *)
(* An element is the value helper.key tells apart and the id it has inside *)
(* its own profile (its position for strings and stacktraces, its Id field *)
(* for mappings, functions and locations).  Values with equal keys are the *)
(* same value: hash collisions of helper.key are out of scope.             *)
(***************************************************************************)
EXTENDS Integers, Sequences, Functions

CONSTANTS
    Ingests,            \* calls of ingest
    Keys,               \* values of the elements
    Batches,            \* the batches a call may be given
    SizeOf,             \* helper.size of each value
    MaxRowGroupBytes,   \* ParquetConfig
    MaxBufferRowCount,  \* ParquetConfig
    Flusher,            \* the goroutine that flushes the head
    NoOne               \* the write lock is free

(* A batch is a sequence of elements whose ids inside their profile are    *)
(* distinct, as pprof requires of its tables.                              *)
IsBatch(b) ==
    /\ b \in Seq([id : Nat, key : Keys])
    /\ \A i, j \in 1..Len(b) : b[i].id = b[j].id => i = j

ASSUME BatchesAssumption == \A b \in Batches : IsBatch(b)
ASSUME SizeAssumption == SizeOf \in [Keys -> Nat]
ASSUME LockAssumption ==
    /\ Flusher \notin Ingests
    /\ NoOne \notin Ingests \cup {Flusher}
ASSUME ConfigAssumption ==
    /\ MaxRowGroupBytes \in Nat
    /\ MaxBufferRowCount \in Nat \ {0}

VARIABLES
    slice,         \* s.slice: rows [id, key]; row i of the source is slice[i + 1]
    lookup,        \* s.lookup: key -> row
    size,          \* s.size
    readers,       \* goroutines that hold s.lock for reading
    writer,        \* the goroutine that holds s.lock for writing, or NoOne
    pc,            \* where each call of ingest is
    elems,         \* the batch of each call
    pos,           \* the loop variable of each call, 1-based
    missing,       \* positions of elems the read-locked pass did not find
    posSlice,      \* the next row, as the write-locked pass counts it
    rewritingMap,  \* what the call returns: id inside the profile -> row
    flushPc,       \* where Flush is
    file,          \* the rows written, in the order of the file
    groups         \* the number of rows of each row group written

ingestVars == <<pc, elems, pos, missing, posSlice, rewritingMap>>
flushVars  == <<flushPc, file, groups>>
vars == <<slice, lookup, size, readers, writer, ingestVars, flushVars>>

EmptyMap == [x \in {} |-> 0]

Put(f, k, v) == [x \in DOMAIN f \cup {k} |-> IF x = k THEN v ELSE f[x]]

Init ==
    /\ slice = <<>>
    /\ lookup = EmptyMap
    /\ size = 0
    /\ readers = {}
    /\ writer = NoOne
    /\ pc = [p \in Ingests |-> "start"]
    /\ elems = [p \in Ingests |-> <<>>]
    /\ pos = [p \in Ingests |-> 1]
    /\ missing = [p \in Ingests |-> <<>>]
    /\ posSlice = [p \in Ingests |-> 0]
    /\ rewritingMap = [p \in Ingests |-> EmptyMap]
    /\ flushPc = "idle"
    /\ file = <<>>
    /\ groups = <<>>

----------------------------------------------------------------------------
(* ingest                                                                  *)

ExistsNever(k) == FALSE

(* if posSlice, exists := s.lookup[k]; exists, under the write lock.       *)
ExistsAgain(k) == k \in DOMAIN lookup

PositionAsID(e, i) == i - 1

(* helper.setID returns the id the element had inside its profile.         *)
oldID(e, i) == e.id

(* The row the next element gets.                                          *)
nextRow == Len(slice)

(* helper.setID changes the element of the batch, not the one stored.      *)
storedAfterSetID(k, id) == slice

readersWithout(p) == readers \ {p}

(* A call arrives with its batch and takes the read lock.                  *)
RLock(p) ==
    /\ pc[p] = "start"
    /\ writer = NoOne
    /\ \E b \in Batches : elems' = [elems EXCEPT ![p] = b]
    /\ readers' = readers \cup {p}
    /\ pc' = [pc EXCEPT ![p] = "lookup"]
    /\ UNCHANGED <<slice, lookup, size, writer, pos, missing, posSlice,
                   rewritingMap, flushVars>>

(* One iteration of the read-locked pass: the element is in the table, or  *)
(* its position is remembered as missing.                                  *)
LookupNext(p) ==
    /\ pc[p] = "lookup"
    /\ pos[p] <= Len(elems[p])
    /\ LET e == elems[p][pos[p]] IN
       \/ /\ e.key \in DOMAIN lookup
          /\ rewritingMap' = [rewritingMap EXCEPT
                                ![p] = Put(@, oldID(e, pos[p]), lookup[e.key])]
          /\ UNCHANGED missing
       \/ /\ e.key \notin DOMAIN lookup
          /\ missing' = [missing EXCEPT ![p] = Append(@, pos[p])]
          /\ UNCHANGED rewritingMap
    /\ pos' = [pos EXCEPT ![p] = @ + 1]
    /\ UNCHANGED <<slice, lookup, size, readers, writer, pc, elems, posSlice,
                   flushVars>>

(* The read lock is released; with nothing missing the call returns.       *)
RUnlock(p) ==
    /\ pc[p] = "lookup"
    /\ pos[p] > Len(elems[p])
    /\ readers' = readersWithout(p)
    /\ pc' = [pc EXCEPT ![p] = IF missing[p] = <<>> THEN "done" ELSE "lock"]
    /\ UNCHANGED <<slice, lookup, size, writer, elems, pos, missing, posSlice,
                   rewritingMap, flushVars>>

(* The write lock is taken after every reader has left.                    *)
Lock(p) ==
    /\ pc[p] = "lock"
    /\ writer = NoOne
    /\ readers = {}
    /\ writer' = p
    /\ posSlice' = [posSlice EXCEPT ![p] = nextRow]
    /\ pos' = [pos EXCEPT ![p] = 1]
    /\ pc' = [pc EXCEPT ![p] = "insert"]
    /\ UNCHANGED <<slice, lookup, size, readers, elems, missing, rewritingMap,
                   flushVars>>

(* One iteration of the write-locked pass: somebody else added the element *)
(* in between, or it becomes the next row, with the row as its id.         *)
InsertNext(p) ==
    /\ pc[p] = "insert"
    /\ pos[p] <= Len(missing[p])
    /\ LET i  == missing[p][pos[p]]
           e  == elems[p][i]
           id == oldID(e, i)
       IN
       \/ /\ ExistsAgain(e.key)
          /\ rewritingMap' = [rewritingMap EXCEPT
                                ![p] = Put(@, id, lookup[e.key])]
          /\ slice' = storedAfterSetID(e.key, id)
          /\ UNCHANGED <<lookup, size, posSlice>>
       \/ /\ ~ExistsAgain(e.key)
          /\ slice' = Append(slice, [id |-> posSlice[p], key |-> e.key])
          /\ lookup' = Put(lookup, e.key, posSlice[p])
          /\ rewritingMap' = [rewritingMap EXCEPT ![p] = Put(@, id, posSlice[p])]
          /\ posSlice' = [posSlice EXCEPT ![p] = @ + 1]
          /\ size' = size + SizeOf[e.key]
    /\ pos' = [pos EXCEPT ![p] = @ + 1]
    /\ UNCHANGED <<readers, writer, pc, elems, missing, flushVars>>

(* The write lock is released and the call returns its rewritingMap.       *)
Unlock(p) ==
    /\ pc[p] = "insert"
    /\ pos[p] > Len(missing[p])
    /\ writer' = NoOne
    /\ pc' = [pc EXCEPT ![p] = "done"]
    /\ UNCHANGED <<slice, lookup, size, readers, elems, pos, missing, posSlice,
                   rewritingMap, flushVars>>

ingest(p) ==
    \/ RLock(p)
    \/ LookupNext(p)
    \/ RUnlock(p)
    \/ Lock(p)
    \/ InsertNext(p)
    \/ Unlock(p)

----------------------------------------------------------------------------
(* Flush                                                                   *)

bytesPerRow == size \div Len(slice)

(* Rows of average size that fit a row group, at least one.  The division  *)
(* is only defined for bytesPerRow # 0.                                    *)
maxRowsPerRowGroup ==
    LET maxRows == MaxRowGroupBytes \div bytesPerRow
    IN  IF maxRows <= 0 THEN 1 ELSE maxRows

rowsFlushed == Len(file)

Least(a, b) == IF a <= b THEN a ELSE b

(* The rows of the next row group.                                         *)
rowsToFlush ==
    Least(Least(Len(slice) - rowsFlushed, maxRowsPerRowGroup),
          MaxBufferRowCount)

Arranged(rows, f) == [i \in 1..Len(rows) |-> rows[f[i]]]

SortRowsDescending(rows) ==
    Arranged(rows, CHOOSE f \in Bijection(1..Len(rows), 1..Len(rows)) :
                     \A i, j \in 1..Len(rows) :
                        i < j => rows[f[i]].id >= rows[f[j]].id)

(* sort.Sort(s.buffer): the sorting columns of these tables start with the *)
(* row's id.                                                               *)
SortRows(rows) ==
    Arranged(rows, CHOOSE f \in Bijection(1..Len(rows), 1..Len(rows)) :
                     \A i, j \in 1..Len(rows) :
                        i < j => rows[f[i]].id <= rows[f[j]].id)

FlushLock ==
    /\ flushPc = "idle"
    /\ writer = NoOne
    /\ readers = {}
    /\ writer' = Flusher
    /\ flushPc' = "flush"
    /\ UNCHANGED <<slice, lookup, size, readers, ingestVars, file, groups>>

(* maxRowsPerRowGroup divides by zero: the goroutine panics, the process   *)
(* ends with the write lock held.                                          *)
FlushPanic ==
    /\ flushPc = "flush"
    /\ slice # <<>>
    /\ bytesPerRow = 0
    /\ flushPc' = "panic"
    /\ UNCHANGED <<slice, lookup, size, readers, writer, ingestVars, file,
                   groups>>

(* One iteration: the next rows are sorted and written as a row group.     *)
FlushRowGroup ==
    /\ flushPc = "flush"
    /\ rowsFlushed < Len(slice)
    /\ bytesPerRow # 0
    /\ file' = file \o SortRows(SubSeq(slice, rowsFlushed + 1,
                                       rowsFlushed + rowsToFlush))
    /\ groups' = Append(groups, rowsToFlush)
    /\ UNCHANGED <<slice, lookup, size, readers, writer, ingestVars, flushPc>>

(* Writing the rows fails: Flush returns the error.                        *)
FlushError ==
    /\ flushPc = "flush"
    /\ rowsFlushed < Len(slice)
    /\ bytesPerRow # 0
    /\ writer' = NoOne
    /\ flushPc' = "failed"
    /\ UNCHANGED <<slice, lookup, size, readers, ingestVars, file, groups>>

FlushUnlock ==
    /\ flushPc = "flush"
    /\ rowsFlushed = Len(slice)
    /\ writer' = NoOne
    /\ flushPc' = "done"
    /\ UNCHANGED <<slice, lookup, size, readers, ingestVars, file, groups>>

Flush == FlushLock \/ FlushPanic \/ FlushRowGroup \/ FlushError \/ FlushUnlock

----------------------------------------------------------------------------
(* Every call has returned, or the process is gone.                        *)
Finished ==
    /\ \/ flushPc = "panic"
       \/ flushPc \in {"done", "failed"} /\ \A p \in Ingests : pc[p] = "done"
    /\ UNCHANGED vars

Next == (\E p \in Ingests : ingest(p)) \/ Flush \/ Finished

Spec == Init /\ [][Next]_vars

----------------------------------------------------------------------------
(* Properties                                                              *)

Row == [id : Nat, key : Keys]

(* A map to rows for every call.                                           *)
IsMaps(m) ==
    /\ m = [p \in Ingests |-> [x \in DOMAIN m[p] |-> m[p][x]]]
    /\ \A p \in Ingests : \A x \in DOMAIN m[p] : m[p][x] \in Nat

TypeOK ==
    /\ slice \in Seq(Row)
    /\ DOMAIN lookup \subseteq Keys
    /\ \A k \in DOMAIN lookup : lookup[k] \in Nat
    /\ size \in Nat
    /\ readers \subseteq Ingests
    /\ writer \in Ingests \cup {Flusher, NoOne}
    /\ pc \in [Ingests -> {"start", "lookup", "lock", "insert", "done"}]
    /\ elems \in [Ingests -> Batches \cup {<<>>}]
    /\ pos \in [Ingests -> Nat \ {0}]
    /\ missing \in [Ingests -> Seq(Nat)]
    /\ posSlice \in [Ingests -> Nat]
    /\ IsMaps(rewritingMap)
    /\ flushPc \in {"idle", "flush", "panic", "failed", "done"}
    /\ file \in Seq(Row)
    /\ groups \in Seq(Nat)

(* The map and the slice of a table describe each other: every row is the  *)
(* one its key is looked up to, so no value has two rows, and the row is   *)
(* the id the stored element carries.  Two calls that miss the same value  *)
(* under the read lock both reach the write-locked pass; the second look   *)
(* at s.lookup there keeps this true.                                      *)
LookupMatchesSlice ==
    /\ \A i \in 1..Len(slice) :
          /\ slice[i].id = i - 1
          /\ slice[i].key \in DOMAIN lookup
          /\ lookup[slice[i].key] = i - 1
    /\ \A k \in DOMAIN lookup :
          /\ lookup[k] + 1 \in 1..Len(slice)
          /\ slice[lookup[k] + 1].key = k

(* Element i of call p is rewritten to the row that holds its value.       *)
Rewritten(p, i) ==
    LET e == elems[p][i] IN
    /\ e.id \in DOMAIN rewritingMap[p]
    /\ rewritingMap[p][e.id] + 1 \in 1..Len(slice)
    /\ slice[rewritingMap[p][e.id] + 1].key = e.key

(* What a call has returned stays right however the other calls go on:     *)
(* every reference of its profile is rewritten to a row with that value.   *)
RewritesAreFaithful ==
    \A p \in Ingests :
        pc[p] = "done" => \A i \in 1..Len(elems[p]) : Rewritten(p, i)

(* The lock admits readers or one writer, and who holds it is where the    *)
(* code says the lock is held.                                             *)
LockDiscipline ==
    /\ \A p \in Ingests : pc[p] = "lookup" <=> p \in readers
    /\ \A p \in Ingests : pc[p] = "insert" <=> writer = p
    /\ flushPc \in {"flush", "panic"} <=> writer = Flusher
    /\ writer # NoOne => readers = {}

(* Element i of call p has the row of its value in the rewritingMap.       *)
Handled(p, i) ==
    LET e == elems[p][i] IN
    /\ e.id \in DOMAIN rewritingMap[p]
    /\ e.key \in DOMAIN lookup
    /\ rewritingMap[p][e.id] = lookup[e.key]

(* Element i of call p is still among missing[p][from..].                  *)
StillMissing(p, i, from) == \E j \in from..Len(missing[p]) : missing[p][j] = i

(* How far call p is: what its passes have not handled, they still hold.   *)
IngestProgress(p) ==
    /\ \A j \in 1..Len(missing[p]) : missing[p][j] \in 1..Len(elems[p])
    /\ \A x \in DOMAIN rewritingMap[p] :
          \E i \in 1..Len(elems[p]) : elems[p][i].id = x
    /\ pc[p] = "start" => /\ pos[p] = 1
                          /\ missing[p] = <<>>
                          /\ DOMAIN rewritingMap[p] = {}
    /\ pc[p] # "start" => elems[p] \in Batches
    /\ pc[p] = "lookup" => /\ pos[p] <= Len(elems[p]) + 1
                           /\ \A i \in 1..(pos[p] - 1) :
                                 Handled(p, i) \/ StillMissing(p, i, 1)
    /\ pc[p] = "lock" => \A i \in 1..Len(elems[p]) :
                            Handled(p, i) \/ StillMissing(p, i, 1)
    /\ pc[p] = "insert" => /\ posSlice[p] = Len(slice)
                           /\ \A i \in 1..Len(elems[p]) :
                                 Handled(p, i) \/ StillMissing(p, i, pos[p])
    /\ pc[p] = "done" => \A i \in 1..Len(elems[p]) : Handled(p, i)

(* The file Flush writes has row i of the table at row number i, whatever  *)
(* the row groups are: a block resolves an id by row number.               *)
FileRowsAreIds ==
    /\ Len(file) <= Len(slice)
    /\ \A i \in 1..Len(file) : file[i] = slice[i]

(* The inductive invariant behind the theorems about the table: the lock   *)
(* keeps the map and the slice together, and every call has accounted for  *)
(* the elements it has passed.                                             *)
IInv ==
    /\ TypeOK
    /\ LockDiscipline
    /\ LookupMatchesSlice
    /\ FileRowsAreIds
    /\ \A p \in Ingests : IngestProgress(p)

(* Rows are never moved, changed or removed: an id handed out is for good. *)
RowsAreStable ==
    [][ /\ Len(slice) <= Len(slice')
        /\ SubSeq(slice', 1, Len(slice)) = slice ]_vars

(* The comment in maxRowsPerRowGroup, "ensure that we at least flush 1     *)
(* row", holds of every table: Flush does not panic.                       *)
FlushNeverPanics == flushPc # "panic"

----------------------------------------------------------------------------
(* Refinement: the table is an InternTable.                                *)

tableBar == [i \in 1..Len(slice) |-> slice[i].key]

resultBar ==
    [p \in Ingests |->
        IF pc[p] = "done"
          THEN [batch |-> elems[p], ids |-> rewritingMap[p]]
          ELSE NoOne]

Abstract == INSTANCE InternTable
              WITH table <- tableBar, result <- resultBar, NoResult <- NoOne

(* Ingest with its two locked passes implements atomic interning.          *)
ImplementsInternTable == Abstract!ASpec
=============================================================================

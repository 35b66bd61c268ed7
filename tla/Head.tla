-------------------------------- MODULE Head --------------------------------
(***************************************************************************)
(* The head of a database: concurrent calls of Ingest and one Flush, which *)
(* the database starts while calls that already hold the head are still    *)
(* running.  A call interns the tables of its profile one after the other, *)
(* rewriting the references of each into rows of the head, and then stores *)
(* and indexes one profile per sample type.                                *)
(*                                                                         *)
(* The ingest of one table is one step: DeduplicatingSliceProofs shows     *)
(* that its two locked passes implement atomic interning.  An element of a *)
(* table is its plain fields, as one value, and its references to other    *)
(* tables.  Rows are counted from 0, as in the code.                       *)
(***************************************************************************)
EXTENDS Integers, Sequences, FiniteSets, Functions

CONSTANTS
    Calls,         \* calls of Ingest
    Profiles,      \* the pprof profiles a call may be given
    Cumulative,    \* the series isDelta selects
    MaxTimestamp,  \* the MinTime of an empty block: later than any profile
    SampleSize     \* sampleSize, the size in memory of one Sample

(* A series stands for the rank of its labels in CompareLabelPairs.        *)
Series == Nat

(* h.tables without the last one, profiles.                                *)
TableNames == <<"strings", "mappings", "functions", "locations",
                "stacktraces">>

Tables == Range(TableNames)

(* The tables before the nth, which a call ingests before it.              *)
Earlier(n) == {TableNames[m] : m \in 1..(n - 1)}

IsSeq(s) == s \in Seq(Range(s))

(* An element of the nth table inside a pprof profile: its id there, and   *)
(* its references, which are to elements of earlier tables of the profile. *)
IsElement(p, n, e) ==
    /\ e.id \in Nat
    /\ \A i \in DOMAIN e.refs :
          /\ e.refs[i].to \in Earlier(n)
          /\ \E f \in Range(p.tables[e.refs[i].to]) : f.id = e.refs[i].id

(* A location has a mapping because the distributor's Normalize calls      *)
(* ensureHasMapping.  The id of a stacktrace is its position among the     *)
(* samples.                                                                *)
IsProfile(p) ==
    /\ \A n \in DOMAIN TableNames :
          /\ IsSeq(p.tables[TableNames[n]])
          /\ \A e \in Range(p.tables[TableNames[n]]) : IsElement(p, n, e)
    /\ \A e \in Range(p.tables["mappings"]) : e.id # 0
    /\ \A i \in DOMAIN p.tables["stacktraces"] : p.tables["stacktraces"][i].id = i - 1
    /\ p.series \in Seq(Series)
    /\ p.time \in 1..(MaxTimestamp - 1)
    /\ \A id \in {p.dropFrames, p.defaultSampleType} :
          \E e \in Range(p.tables["strings"]) : e.id = id

ASSUME ProfilesAssumption == \A p \in Profiles : IsProfile(p)
ASSUME ConstantsAssumption ==
    /\ MaxTimestamp \in Nat \ {0}
    /\ SampleSize \in Nat
    /\ Cumulative \subseteq Series

VARIABLES
    table,         \* the rows of the five deduplicated tables
    profiles,      \* the rows of the profiles table
    seriesIndex,   \* SeriesIndex of each stored profile, which rows and index share
    highest,       \* the series of delta.highestSamples
    profilesPerFP, \* index.profilesPerFP
    meta,          \* h.meta: MinTime and MaxTime
    totalSamples,  \* h.totalSamples
    pc,            \* where each call is: a table, or a step of the loop over types
    profile,       \* the profile of each call
    rewrites,      \* the rewriter of each call
    idxType,       \* the loop variable of each call, 1-based
    ingested,      \* profileIngested of each call
    flushPc,       \* where Flush is
    before,        \* history: the calls that had returned when Flush began
    block          \* what Flush has written

headVars == <<table, profiles, seriesIndex, highest, profilesPerFP, meta,
              totalSamples>>
callVars == <<pc, profile, rewrites, idxType, ingested>>
flushVars == <<flushPc, before, block>>
vars == <<headVars, callVars, flushVars>>

NoMap == [x \in {} |-> 0]

Put(f, k, v) == [x \in DOMAIN f \cup {k} |-> IF x = k THEN v ELSE f[x]]

Init ==
    /\ table = [t \in Tables |-> <<>>]
    /\ profiles = <<>>
    /\ seriesIndex = NoMap
    /\ highest = {}
    /\ profilesPerFP = NoMap
    /\ meta = [min |-> MaxTimestamp, max |-> 0]
    /\ totalSamples = 0
    /\ pc = [c \in Calls |-> "start"]
    /\ profile \in [Calls -> Profiles]
    /\ rewrites = [c \in Calls |-> NoMap]
    /\ idxType = [c \in Calls |-> 1]
    /\ ingested = [c \in Calls |-> FALSE]
    /\ flushPc = "idle"
    /\ before = {}
    /\ block = NoMap

----------------------------------------------------------------------------
(* Ingest                                                                  *)

RewriteNoFunction(rw, r) ==
    [to |-> r.to, id |-> IF r.to = "functions" THEN r.id - 1
                         ELSE IF r.to = "mappings" /\ r.id = 0 THEN 0
                         ELSE rw[r.to][r.id]]

(* helper.rewrite of one reference with the rewriter rw: "when mapping id  *)
(* is not 0, rewrite it"; any other reference is rewritten.                *)
rewrite(rw, r) ==
    [to |-> r.to, id |-> IF r.to = "mappings" /\ r.id = 0 THEN 0
                         ELSE rw[r.to][r.id]]

(* helper.key of an element after helper.rewrite: its references, and val  *)
(* for the other fields that the key has.  Fields that it leaves out       *)
(* (IsFolded of a location, HasLineNumbers of a mapping, for which the key *)
(* has HasFunctions a second time) are not in val: the first row stays.    *)
key(rw, e) ==
    [val |-> e.val, refs |-> [i \in DOMAIN e.refs |-> rewrite(rw, e.refs[i])]]

(* The rows of a table once the keys ks have been interned.                *)
Interned(rows, ks) ==
    LET upTo[n \in 0..Len(ks)] ==
          IF n = 0 THEN rows
          ELSE IF ks[n] \in Range(upTo[n - 1]) THEN upTo[n - 1]
          ELSE Append(upTo[n - 1], ks[n])
    IN  upTo[Len(ks)]

RowOf(rows, k) == (CHOOSE i \in DOMAIN rows : rows[i] = k) - 1

(* helper.addToRewriter: the id of every element inside the profile is     *)
(* mapped to the row of its key.                                           *)
ConversionTable(c, t, rows) ==
    LET es == profile[c].tables[t]
    IN  [id \in {es[i].id : i \in DOMAIN es} |->
           RowOf(rows, key(rewrites[c], CHOOSE e \in Range(es) : e.id = id))]

(* The samples of all types have the same stacktraces; without a sample    *)
(* convertSamples returns no types.                                        *)
Types(c) ==
    IF profile[c].tables["stacktraces"] = <<>> THEN 0 ELSE Len(profile[c].series)

AfterTypes(c, done) ==
    IF idxType[c] < Types(c) THEN "delta" ELSE IF done THEN "meta" ELSE "done"

(* Where a call is before it ingests its nth table, and later.             *)
AtTable(n) == IF n = 1 THEN "start" ELSE TableNames[n]
InLoop == {"delta", "profiles", "index"}
AfterTables == InLoop \cup {"meta", "done"}

(* The next table of the call, up to the stacktraces in convertSamples.    *)
IngestTable(c) ==
    \E n \in DOMAIN TableNames :
        LET t    == TableNames[n]
            es   == profile[c].tables[t]
            rows == Interned(table[t], [i \in DOMAIN es |-> key(rewrites[c], es[i])])
        IN
        /\ pc[c] = AtTable(n)
        /\ table' = [table EXCEPT ![t] = rows]
        /\ rewrites' = [rewrites EXCEPT
                          ![c] = Put(@, t, ConversionTable(c, t, rows))]
        /\ pc' = [pc EXCEPT ![c] =
                    IF n < Len(TableNames) THEN AtTable(n + 1)
                    ELSE IF Types(c) = 0 THEN "done" ELSE "delta"]
        /\ UNCHANGED <<profiles, seriesIndex, highest, profilesPerFP, meta,
                       totalSamples, profile, idxType, ingested, flushVars>>

HighestUnchanged(c) == highest

(* d.highestSamples[fp] = ps.Samples for the first profile of a series.    *)
highestWith(c) == highest \cup {profile[c].series[idxType[c]]}

(* computeDelta: the first profile of a cumulative series is only kept to  *)
(* compute the next delta, and the loop continues with the next type.      *)
ComputeDelta(c) ==
    /\ pc[c] = "delta"
    /\ LET s == profile[c].series[idxType[c]] IN
       \/ /\ s \in Cumulative \ highest
          /\ highest' = highestWith(c)
          /\ idxType' = [idxType EXCEPT ![c] = @ + 1]
          /\ pc' = [pc EXCEPT ![c] = AfterTypes(c, ingested[c])]
       \/ /\ s \notin Cumulative \ highest
          /\ pc' = [pc EXCEPT ![c] = "profiles"]
          /\ UNCHANGED <<highest, idxType>>
    /\ UNCHANGED <<table, profiles, seriesIndex, profilesPerFP, meta,
                   totalSamples, profile, rewrites, ingested, flushVars>>

(* profilesHelper.rewrite of the indices into the string table.            *)
rewriteString(c, id) == rewrites[c]["strings"][id]

(* The profile of a call for one of its types, as profilesHelper.rewrite   *)
(* leaves it: Comments, DropFrames and KeepFrames are rewritten,           *)
(* DefaultSampleType is not.                                               *)
Stored(c, k) ==
    [id |-> <<c, k>>,
     series |-> profile[c].series[k],
     time |-> profile[c].time,
     stacktraces |-> [i \in DOMAIN profile[c].tables["stacktraces"] |->
                        rewrites[c]["stacktraces"][i - 1]],
     dropFrames |-> rewriteString(c, profile[c].dropFrames),
     defaultSampleType |-> profile[c].defaultSampleType]

(* h.profiles.ingest: the profiles table is not deduplicated.  A new       *)
(* profile has SeriesIndex 0.                                              *)
IngestProfile(c) ==
    /\ pc[c] = "profiles"
    /\ profiles' = Append(profiles, Stored(c, idxType[c]))
    /\ seriesIndex' = Put(seriesIndex, <<c, idxType[c]>>, 0)
    /\ pc' = [pc EXCEPT ![c] = "index"]
    /\ UNCHANGED <<table, highest, profilesPerFP, meta, totalSamples, profile,
                   rewrites, idxType, ingested, flushVars>>

(* h.index.Add                                                             *)
IndexAdd(c) ==
    /\ pc[c] = "index"
    /\ LET p    == Stored(c, idxType[c])
           seen == IF p.series \in DOMAIN profilesPerFP
                     THEN profilesPerFP[p.series] ELSE <<>>
       IN  profilesPerFP' = Put(profilesPerFP, p.series, Append(seen, p))
    /\ ingested' = [ingested EXCEPT ![c] = TRUE]
    /\ idxType' = [idxType EXCEPT ![c] = @ + 1]
    /\ pc' = [pc EXCEPT ![c] = AfterTypes(c, TRUE)]
    /\ UNCHANGED <<table, profiles, seriesIndex, highest, meta, totalSamples,
                   profile, rewrites, flushVars>>

MaxWhenNotMin(v) ==
    IF v < meta.min THEN [meta EXCEPT !.min = v]
    ELSE IF v > meta.max THEN [meta EXCEPT !.max = v] ELSE meta

(* The two updates under metaLock.                                         *)
metaWith(v) ==
    [min |-> IF v < meta.min THEN v ELSE meta.min,
     max |-> IF v > meta.max THEN v ELSE meta.max]

(* The counter that follows is part of the step: only Flush reads it, with *)
(* meta.                                                                   *)
UpdateMeta(c) ==
    /\ pc[c] = "meta"
    /\ meta' = metaWith(profile[c].time)
    /\ totalSamples' = totalSamples + SampleSize
    /\ pc' = [pc EXCEPT ![c] = "done"]
    /\ UNCHANGED <<table, profiles, seriesIndex, highest, profilesPerFP,
                   profile, rewrites, idxType, ingested, flushVars>>

Ingest(c) ==
    \/ IngestTable(c)
    \/ ComputeDelta(c)
    \/ IngestProfile(c)
    \/ IndexAdd(c)
    \/ UpdateMeta(c)

----------------------------------------------------------------------------
(* Flush                                                                   *)

Minimum(S) == CHOOSE x \in S : \A y \in S : x <= y
Maximum(S) == CHOOSE x \in S : \A y \in S : x >= y

(* minmax                                                                  *)
minmax(ps) == [min |-> Minimum({p.time : p \in Range(ps)}),
               max |-> Maximum({p.time : p \in Range(ps)})]

(* The position of a series in the order by labels.                        *)
rank(s) == Cardinality({x \in DOMAIN profilesPerFP : x < s})

(* Nothing was ingested: the head's directory is removed.                  *)
FlushEmpty ==
    /\ flushPc = "idle"
    /\ profiles = <<>>
    /\ flushPc' = "removed"
    /\ before' = {c \in Calls : pc[c] = "done"}
    /\ UNCHANGED <<headVars, callVars, block>>

FlushBegin ==
    /\ flushPc = "idle"
    /\ profiles # <<>>
    /\ flushPc' = "index"
    /\ before' = {c \in Calls : pc[c] = "done"}
    /\ UNCHANGED <<headVars, callVars, block>>

(* h.index.WriteTo, under the index's read lock: the series are written in *)
(* the order of their labels, and every indexed profile gets the position  *)
(* of its series.                                                          *)
WriteTo ==
    /\ flushPc = "index"
    /\ block' = Put(block, "index",
                    [s \in DOMAIN profilesPerFP |->
                       [pos |-> rank(s), range |-> minmax(profilesPerFP[s])]])
    /\ seriesIndex' =
         [id \in DOMAIN seriesIndex |->
            IF \E s \in DOMAIN profilesPerFP :
                  \E p \in Range(profilesPerFP[s]) : p.id = id
              THEN rank(profile[id[1]].series[id[2]])
              ELSE seriesIndex[id]]
    /\ flushPc' = TableNames[1]
    /\ UNCHANGED <<table, profiles, highest, profilesPerFP, meta, totalSamples,
                   callVars, before>>

(* t.Flush of the next table, under its lock.                              *)
FlushTable ==
    \E n \in DOMAIN TableNames :
        /\ flushPc = TableNames[n]
        /\ block' = Put(block, TableNames[n], table[TableNames[n]])
        /\ flushPc' = IF n < Len(TableNames) THEN TableNames[n + 1] ELSE "profiles"
        /\ UNCHANGED <<headVars, callVars, before>>

(* t.Flush of the profiles table, whose rows carry the SeriesIndex of the  *)
(* moment.  The order of the rows is left out.                             *)
FlushProfiles ==
    /\ flushPc = "profiles"
    /\ block' = Put(block, "profiles",
                    {[profile |-> p, seriesIndex |-> seriesIndex[p.id]] :
                       p \in Range(profiles)})
    /\ flushPc' = "meta"
    /\ UNCHANGED <<headVars, callVars, before>>

(* The tables are closed and meta.json is written.                         *)
WriteMeta ==
    /\ flushPc = "meta"
    /\ block' = Put(block, "meta", [range |-> meta, numSamples |-> totalSamples])
    /\ flushPc' = "rename"
    /\ UNCHANGED <<headVars, callVars, before>>

(* The directory moves from head/ to local/: the block can be queried and  *)
(* shipped.                                                                *)
Rename ==
    /\ flushPc = "rename"
    /\ flushPc' = "done"
    /\ UNCHANGED <<headVars, callVars, before, block>>

(* Any of the writes may fail: Flush returns and is not called again.  The *)
(* files stay in head/, where nothing reads them.                          *)
FlushError ==
    /\ flushPc \notin {"idle", "removed", "failed", "done"}
    /\ flushPc' = "failed"
    /\ block' = NoMap
    /\ UNCHANGED <<headVars, callVars, before>>

Flush == FlushEmpty \/ FlushBegin \/ WriteTo \/ FlushTable \/ FlushProfiles
         \/ WriteMeta \/ Rename \/ FlushError

----------------------------------------------------------------------------
Finished ==
    /\ flushPc \in {"removed", "failed", "done"}
    /\ \A c \in Calls : pc[c] = "done"
    /\ UNCHANGED vars

Next == (\E c \in Calls : Ingest(c)) \/ Flush \/ Finished

Spec == Init /\ [][Next]_vars

----------------------------------------------------------------------------
(* Reading                                                                 *)

(* What a dangling reference resolves to.                                  *)
Missing == [val |-> "missing", refs |-> <<>>]

(* The elements el of the tables with what trees has for their references. *)
Resolved(el, trees) ==
    [x \in Tables \X Nat |->
       [val |-> el[x].val,
        refs |-> [j \in DOMAIN el[x].refs |->
                    trees[<<el[x].refs[j].to, el[x].refs[j].id>>]]]]

(* The elements el with their references followed: these lead to earlier   *)
(* tables only, so five steps reach the end.                               *)
Follow(el) ==
    Resolved(el, Resolved(el, Resolved(el, Resolved(el, Resolved(el,
        [x \in Tables \X Nat |-> Missing])))))

RowIn(rows, i) == IF i + 1 \in DOMAIN rows THEN rows[i + 1] ELSE Missing

(* In a pprof profile an element is found by its id.                       *)
ElementOf(p, t, i) ==
    IF \E e \in Range(p.tables[t]) : e.id = i
      THEN CHOOSE e \in Range(p.tables[t]) : e.id = i ELSE Missing

(* A stacktrace leads to locations, a location to its mapping and to the   *)
(* functions of its lines, these to strings: MergeByStacktraces walks to   *)
(* the functions' names.                                                   *)
InRows(rows) == Follow([x \in Tables \X Nat |-> RowIn(rows[x[1]], x[2])])
InProfile(p) == Follow([x \in Tables \X Nat |-> ElementOf(p, x[1], x[2])])

(* The stored profile x has the stacktraces its call was given.            *)
SameStacktraces(x, trees) ==
    \A i \in DOMAIN x.stacktraces :
        trees[<<"stacktraces", x.stacktraces[i]>>]
          = InProfile(profile[x.id[1]])[<<"stacktraces", i - 1>>]

Indexed == UNION {Range(profilesPerFP[s]) : s \in DOMAIN profilesPerFP}

----------------------------------------------------------------------------
(* Properties                                                              *)

TypeOK ==
    /\ DOMAIN table = Tables /\ \A t \in Tables : IsSeq(table[t])
    /\ IsSeq(profiles)
    /\ \A id \in DOMAIN seriesIndex : seriesIndex[id] \in Nat
    /\ highest \subseteq Cumulative
    /\ DOMAIN profilesPerFP \subseteq Series /\ IsFiniteSet(DOMAIN profilesPerFP)
    /\ \A s \in DOMAIN profilesPerFP : IsSeq(profilesPerFP[s])
    /\ meta \in [min : 1..MaxTimestamp, max : 0..MaxTimestamp]
    /\ totalSamples \in Nat
    /\ pc \in [Calls -> {AtTable(n) : n \in DOMAIN TableNames} \cup AfterTables]
    /\ profile \in [Calls -> Profiles]
    /\ DOMAIN rewrites = Calls
    /\ idxType \in [Calls -> Nat \ {0}]
    /\ ingested \in [Calls -> BOOLEAN]
    /\ flushPc \in Tables \cup {"idle", "removed", "index", "profiles", "meta",
                                "rename", "failed", "done"}
    /\ before \subseteq Calls
    /\ DOMAIN block \subseteq Tables \cup {"index", "profiles", "meta"}

(* A profile a query can find has, at any moment of the calls that run     *)
(* besides it, the stacks it was sent with, down to names and mappings:    *)
(* every row a stored profile leads to was interned before the profile was *)
(* indexed, and no call rewrites a reference with another call's ids.      *)
StacksResolve ==
    \A x \in Indexed : SameStacktraces(x, InRows(table))

(* Call c has dealt with its type k without storing a profile.             *)
Dropped(c, k) ==
    /\ k \in 1..Types(c)
    /\ k < idxType[c]
    /\ \A x \in Indexed : x.id # <<c, k>>

(* Ingest drops nothing but the first profile of each cumulative series,   *)
(* even when several calls bring a series its first profile at once.       *)
OnlyFirstIsDropped ==
    \A c, d \in Calls : \A k \in 1..Types(c), l \in 1..Types(d) :
        Dropped(c, k) =>
            /\ profile[c].series[k] \in Cumulative
            /\ Dropped(d, l) /\ profile[c].series[k] = profile[d].series[l]
                 => <<c, k>> = <<d, l>>

Covers(range, time) == range.min <= time /\ time <= range.max

(* The block attributes the row to the series of its profile and to no     *)
(* other.                                                                  *)
Attributed(row) ==
    /\ row.profile.series \in DOMAIN block["index"]
    /\ \A s \in DOMAIN block["index"] :
          block["index"][s].pos = row.seriesIndex <=> s = row.profile.series

(* What had been ingested when Flush began is in the block it publishes,   *)
(* under its series, within the ranges that the index and meta.json give,  *)
(* and with all of its stacks in the files, whatever is ingested while the *)
(* files are written one after the other.                                  *)
BlockHoldsWhatWasIngested ==
    flushPc = "done" =>
        \A x \in Indexed : x.id[1] \in before =>
            \E row \in block["profiles"] :
                /\ row.profile = x
                /\ Attributed(row)
                /\ Covers(block["index"][x.series].range, x.time)
                /\ Covers(block["meta"].range, x.time)
                /\ SameStacktraces(x, InRows(block))

(* The ingester's documentation: "Eventually, all profiles are written to  *)
(* disk".  An acknowledged profile, other than the first of a cumulative   *)
(* series, is in the block once its head is flushed.                       *)
AcknowledgedIsWritten ==
    flushPc = "done" =>
        \A x \in Indexed : pc[x.id[1]] = "done" =>
            \E row \in block["profiles"] : row.profile = x

(* schemas/v1/profiles.go: "SeriesIndex references the underlying series   *)
(* and is generated when writing the TSDB index."                          *)
RowsAreAttributed ==
    flushPc = "done" => \A row \in block["profiles"] : Attributed(row)

(* block/metadata.go: "MinTime and MaxTime specify the time range all      *)
(* samples in the block are in."                                           *)
MetaCoversRows ==
    flushPc = "done" =>
        \A row \in block["profiles"] :
            Covers(block["meta"].range, row.profile.time)

(* NewSortProfileIterator, which SelectProfiles gives one iterator per     *)
(* series of the index: "Each input iterator must return Profile in        *)
(* ascending time."                                                        *)
SeriesAscend ==
    \A s \in DOMAIN profilesPerFP :
        \A i, j \in DOMAIN profilesPerFP[s] :
            i < j => profilesPerFP[s][i].time <= profilesPerFP[s][j].time

(* schemas/v1/profiles.go: DefaultSampleType is the "Index into the string *)
(* table of the type of the preferred sample value", as DropFrames is one. *)
DefaultSampleTypeResolves ==
    \A x \in Indexed :
        LET p == profile[x.id[1]] IN
        RowIn(table["strings"], x.defaultSampleType).val
          = ElementOf(p, "strings", p.defaultSampleType).val

(* block/metadata.go: Stats are "about the contents of the block".  With   *)
(* the profiles of one call, NumSamples is the number of their samples.    *)
NumSamplesCountsSamples ==
    flushPc = "done" =>
        \A c \in Calls :
            before = {c} /\ {row.profile.id : row \in block["profiles"]} = {<<c, 1>>}
              => block["meta"].numSamples
                   = Len(profile[c].tables["stacktraces"])

----------------------------------------------------------------------------
(* The inductive invariant                                                 *)

(* A call has rewriting maps for the tables it has ingested; it is at one  *)
(* of its types while it is in the loop, and what it is about to index is  *)
(* stored; when it has returned, meta covers what it has indexed.          *)
CallProgress(c) ==
    /\ \A n \in DOMAIN TableNames : pc[c] = AtTable(n) =>
          DOMAIN rewrites[c] = Earlier(n) /\ idxType[c] = 1 /\ ~ingested[c]
    /\ pc[c] \in AfterTables => DOMAIN rewrites[c] = Tables
    /\ pc[c] \in InLoop => idxType[c] <= Types(c)
    /\ pc[c] = "index" =>
          /\ <<c, idxType[c]>> \in DOMAIN seriesIndex
          /\ Stored(c, idxType[c]) \in Range(profiles)
    /\ pc[c] = "meta" => ingested[c]
    /\ pc[c] = "done" /\ ingested[c] => Covers(meta, profile[c].time)

(* The ids of the elements that a profile has in a table.                  *)
Ids(p, t) == {e.id : e \in Range(p.tables[t])}

(* In rows the elements of table t of the profile p are where the rewriter *)
(* rw says.                                                                *)
HasRows(rows, p, rw, t) ==
    \A id \in Ids(p, t) :
        LET r == rw[t][id]
        IN  r \in Nat /\ r + 1 \in DOMAIN rows /\ rows[r + 1] = key(rw, ElementOf(p, t, id))

RewritesAreRows ==
    \A c \in Calls : \A t \in DOMAIN rewrites[c] : HasRows(table[t], profile[c], rewrites[c], t)

(* What is indexed is the stored profile of a type that its call has dealt *)
(* with.                                                                   *)
IndexedIsStored ==
    \A s \in DOMAIN profilesPerFP : \A x \in Range(profilesPerFP[s]) :
        /\ x.series = s /\ x \in Range(profiles) /\ x.id \in DOMAIN seriesIndex
        /\ \E c \in Calls : \E k \in 1..Types(c) :
              /\ pc[c] \in AfterTables /\ ingested[c]
              /\ x = Stored(c, k) /\ k < idxType[c]

ProfilesHaveIndex == \A x \in Range(profiles) : x.id \in DOMAIN seriesIndex

(* The series of a profile that was dropped is known from then on.         *)
DroppedIsHighest ==
    \A c \in Calls : \A k \in 1..Types(c) :
        Dropped(c, k) => profile[c].series[k] \in highest

(* What Flush has written before its next step.                            *)
FlushProgress ==
    /\ flushPc = "idle" => before = {}
    /\ \A c \in before : pc[c] = "done"
    /\ flushPc \in {"idle", "removed", "index", "failed"} => DOMAIN block = {}
    /\ \A n \in DOMAIN TableNames :
          flushPc = TableNames[n] => DOMAIN block = {"index"} \cup Earlier(n)
    /\ flushPc = "profiles" => DOMAIN block = {"index"} \cup Tables
    /\ flushPc = "meta" => DOMAIN block = {"index", "profiles"} \cup Tables
    /\ flushPc \in {"rename", "done"} => DOMAIN block = {"index", "profiles", "meta"} \cup Tables

(* A profile of a call that had returned when Flush began.                 *)
FromBefore == {x \in Indexed : x.id[1] \in before}

(* What is written has the calls that had returned when Flush began.       *)
WrittenHasBefore ==
    /\ \A t \in DOMAIN block \cap Tables : \A c \in before :
          HasRows(block[t], profile[c], rewrites[c], t)
    /\ "index" \in DOMAIN block =>
          /\ \A s, u \in DOMAIN block["index"] :
                block["index"][s].pos = block["index"][u].pos => s = u
          /\ \A x \in FromBefore :
                /\ x.series \in DOMAIN block["index"]
                /\ block["index"][x.series].pos = seriesIndex[x.id]
                /\ Covers(block["index"][x.series].range, x.time)
    /\ "profiles" \in DOMAIN block => \A x \in FromBefore :
          [profile |-> x, seriesIndex |-> seriesIndex[x.id]] \in block["profiles"]
    /\ "meta" \in DOMAIN block => \A x \in FromBefore : Covers(block["meta"].range, x.time)

IInv ==
    /\ TypeOK
    /\ \A c \in Calls : CallProgress(c)
    /\ RewritesAreRows /\ IndexedIsStored /\ ProfilesHaveIndex
    /\ DroppedIsHighest /\ OnlyFirstIsDropped
    /\ FlushProgress /\ WrittenHasBefore
=============================================================================

------------------------------- MODULE Agent -------------------------------
(***************************************************************************)
(* The agent: it receives the discovered targets of each job, keeps one    *)
(* scrape loop per active target, and answers GetTargets.                  *)
(*                                                                         *)
(* A discovered target stands for one label set and one profile type.      *)
(* Discovery sends the targets of all jobs at once; the Prometheus manager *)
(* that does so is not under src/.  The clock is left out: a timer may     *)
(* fire at any time after it is set.                                       *)
(***************************************************************************)
EXTENDS Integers, FiniteSets, SequencesExt

CONSTANTS
    Jobs,          \* the job names of the scrape configs
    Targets,       \* what discovery can find
    GroupOf,       \* the target group each target is discovered in
    Invalid,       \* targets populateLabels returns an error for
    Dropped,       \* targets the relabel configs drop
    DeltaTargets,  \* targets whose profile type has Delta set
    HasParams,     \* whether the scrape configs have params
    MaxUpdates,    \* bound: how often discovery sends an update
    MaxGets        \* bound: how many GetTargets requests there are

ASSUME AgentAssumption ==
    /\ IsFiniteSet(Targets) /\ Invalid \subseteq Targets /\ Dropped \subseteq Targets
    /\ DeltaTargets \subseteq Targets /\ DOMAIN GroupOf = Targets
    /\ HasParams \in BOOLEAN /\ MaxUpdates \in Nat /\ MaxGets \in Nat

VARIABLES
    sd,        \* what discovery knows: the targets of each job
    updates,   \* how many updates discovery has made
    pending,   \* whether an update waits in SyncCh
    run,       \* where running is, and the update it handles
    groups,    \* a.groups: the jobs that have a TargetGroup
    active,    \* activeTargets of each group
    dropped,   \* droppedTargets of each group
    seconds,   \* how often "seconds" is in the params of each scrape config
    readers,   \* how often the mutex of each group is read-locked
    loops,     \* the scrape loop of each target that was started
    gets,      \* the GetTargets requests
    ctxDone    \* whether the agent is stopped

vars == <<sd, updates, pending, run, groups, active, dropped, seconds, readers, loops, gets, ctxDone>>

(* A Target is named after its job, what was discovered, and the update it *)
(* was started for.                                                        *)
Ids == Jobs \X Targets \X (1..MaxUpdates)
NotStarted == [pc |-> "none", stopped |-> FALSE, hash |-> <<>>, health |-> "unspecified"]
NoGet == [pc |-> "idle", todo |-> {}, seen |-> {}, both |-> FALSE]

Init ==
    /\ sd = [j \in Jobs |-> {}]
    /\ updates = 0
    /\ pending = FALSE
    /\ run = [pc |-> "select", todo |-> {}, job |-> {}, sent |-> sd, number |-> 0]
    /\ groups = {}
    /\ active = [j \in Jobs |-> {}]
    /\ dropped = [j \in Jobs |-> {}]
    /\ seconds = [j \in Jobs |-> 0]
    /\ readers = [j \in Jobs |-> 0]
    /\ loops = [i \in Ids |-> NotStarted]
    /\ gets = [r \in 1..MaxGets |-> NoGet]
    /\ ctxDone = FALSE

(* A concurrent use of a.groups that the runtime detects ends the process. *)
Alive == run.pc # "crashed"

-----------------------------------------------------------------------------
(* Targets from discovery *)

(* The orders in which targetsFromGroup sees the targets of an update: the *)
(* groups one after the other, and within a group any order, since the     *)
(* profile types are ranged over in the order of a map.                    *)
Orders(found) ==
    {s \in SetToSeqs(found) : \A a, b, c \in DOMAIN s :
        a < b /\ b < c /\ GroupOf[s[a]] = GroupOf[s[c]] => GroupOf[s[b]] = GroupOf[s[a]]}

(* One target of targetsFromGroup.  An error discards the whole group; the *)
(* params of the config are shared, so "seconds" stays in them, and a      *)
(* target built after it carries the param as a label.                     *)
addTarget(acc, t) ==
    IF GroupOf[t] \in acc.failed THEN acc
    ELSE IF t \in Invalid THEN
        [acc EXCEPT !.failed = @ \cup {GroupOf[t]},
                    !.dropped = {d \in @ : GroupOf[d] # GroupOf[t]},
                    !.actives = {d \in @ : GroupOf[d] # GroupOf[t]}]
    ELSE IF t \in Dropped THEN [acc EXCEPT !.dropped = @ \cup {t}]
    ELSE [acc EXCEPT !.actives = @ \cup {t},
                     !.labelled = IF acc.seconds > 0 THEN @ \cup {t} ELSE @,
                     !.seconds = IF HasParams /\ t \in DeltaTargets THEN @ + 1 ELSE @]

targetsFromGroups(order, sec) ==
    LET acc[n \in 0..Len(order)] ==
            IF n = 0
            THEN [failed |-> {}, actives |-> {}, dropped |-> {}, labelled |-> {}, seconds |-> sec]
            ELSE addTarget(acc[n - 1], order[n])
    IN acc[Len(order)]

(* Hash: the labels and the URL.  The URL reads the shared params when the *)
(* hash is asked for, after all targets of the update are built.           *)
HashOfSync(built, t) == <<t, t \in built.labelled, run.number>>

Hash(built, t) ==
    <<t, t \in built.labelled, IF HasParams THEN built.seconds ELSE 0>>

(* The hashes activeTargets has; a target with another hash is started.    *)

known(j) == {loops[i].hash : i \in active[j]}

(* The active targets that an update does not find again are stopped.      *)
NothingIsInactive(j, hashes) == {}

inactive(j, hashes) == {i \in active[j] : loops[i].hash \notin hashes}

NotStopped(l) == l

stop(l) == [l EXCEPT !.stopped = TRUE]

-----------------------------------------------------------------------------
(* running *)

(* Discovery finds something else; the update replaces one that waits.     *)
Discover ==
    /\ Alive /\ updates < MaxUpdates
    /\ \E s \in [Jobs -> SUBSET Targets] : s # sd /\ sd' = s
    /\ updates' = updates + 1
    /\ pending' = TRUE
    /\ UNCHANGED <<run, groups, active, dropped, seconds, readers, loops, gets, ctxDone>>

Receive ==
    /\ run.pc = "select" /\ pending
    /\ run' = [pc |-> "next", todo |-> Jobs, job |-> {}, sent |-> sd, number |-> updates]
    /\ pending' = FALSE
    /\ UNCHANGED <<sd, updates, groups, active, dropped, seconds, readers, loops, gets, ctxDone>>

(* The next job of the update: its group is created if it is new.  Writing *)
(* a.groups while a request ranges over it is a data race.                 *)
NextJob ==
    /\ run.pc = "next"
    /\ IF run.todo = {}
       THEN run' = [run EXCEPT !.pc = "select"] /\ UNCHANGED groups
       ELSE \E j \in run.todo :
              /\ groups' = groups \cup {j}
              /\ \/ run' = [run EXCEPT !.pc = "lock", !.job = {j}, !.todo = @ \ {j}]
                 \/ /\ j \notin groups /\ \E r \in 1..MaxGets : gets[r].pc \in {"active", "dropped"}
                    /\ run' = [run EXCEPT !.pc = "crashed"]
    /\ UNCHANGED <<sd, updates, pending, active, dropped, seconds, readers, loops, gets, ctxDone>>

(* TargetGroup.sync, once the lock is held.                                *)
Sync(j) ==
    /\ run.pc = "lock" /\ run.job = {j} /\ readers[j] = 0
    /\ \E order \in Orders(run.sent[j]) :
        LET built == targetsFromGroups(order, seconds[j])
            hash == [t \in built.actives |-> Hash(built, t)]
            new == {<<j, t, run.number>> : t \in {u \in built.actives : hash[u] \notin known(j)}}
            gone == inactive(j, {hash[t] : t \in built.actives})
        IN /\ dropped' = [dropped EXCEPT ![j] = built.dropped]
           /\ seconds' = [seconds EXCEPT ![j] = built.seconds]
           /\ active' = [active EXCEPT ![j] = (@ \cup new) \ gone]
           /\ loops' = [i \in Ids |->
                IF i \in new THEN [NotStarted EXCEPT !.pc = "offset", !.hash = hash[i[2]]]
                ELSE IF i \in gone THEN stop(loops[i])
                ELSE loops[i]]
    /\ run' = [run EXCEPT !.pc = "next"]
    /\ UNCHANGED <<sd, updates, pending, groups, readers, gets, ctxDone>>

(* running selects on the context and on SyncCh.                           *)
Return ==
    /\ run.pc = "select" /\ ctxDone
    /\ run' = [run EXCEPT !.pc = "done"]
    /\ UNCHANGED <<sd, updates, pending, groups, active, dropped, seconds, readers, loops, gets, ctxDone>>

StopService ==
    /\ Alive /\ ~ctxDone
    /\ ctxDone' = TRUE
    /\ UNCHANGED <<sd, updates, pending, run, groups, active, dropped, seconds, readers, loops, gets>>

Running == Receive \/ NextJob \/ (\E j \in Jobs : Sync(j)) \/ Return

-----------------------------------------------------------------------------
(* The goroutine of a target *)

OwnContext(i) == loops[i].stopped

Cancelled(i) == loops[i].stopped \/ ctxDone

AtLoop(i, pc) == Alive /\ loops[i].pc = pc
LoopGoes(i, pc) ==
    /\ loops' = [loops EXCEPT ![i].pc = pc]
    /\ UNCHANGED <<sd, updates, pending, run, groups, active, dropped, seconds, readers, gets, ctxDone>>

(* The wait before the first scrape, and between two scrapes.              *)
NeverDue(i) == AtLoop(i, "offset") /\ Cancelled(i) /\ LoopGoes(i, "done")

Offset(i) ==
    /\ AtLoop(i, "offset")
    /\ LoopGoes(i, "check") \/ (Cancelled(i) /\ LoopGoes(i, "done"))

Tick(i) == AtLoop(i, "tick") /\ LoopGoes(i, "check")

Check(i) ==
    /\ AtLoop(i, "check")
    /\ LoopGoes(i, IF Cancelled(i) THEN "done" ELSE "fetch")

(* What fetchProfile returns: an error for a failed or timed-out request,  *)
(* a status other than 2xx or an empty body.                               *)
fetchProfile == {"error", "profile"}

(* scrape: fetch with a timeout, then push what was fetched.  An error of  *)
(* the push is only logged.                                                *)
Fetch(i) ==
    /\ AtLoop(i, "fetch")
    /\ \E b \in fetchProfile :
        loops' = IF b = "error" THEN [loops EXCEPT ![i].pc = "tick", ![i].health = "down"]
                 ELSE [loops EXCEPT ![i].pc = "push", ![i].health = "up"]
    /\ UNCHANGED <<sd, updates, pending, run, groups, active, dropped, seconds, readers, gets, ctxDone>>

Push(i) == AtLoop(i, "push") /\ LoopGoes(i, "tick")

Scraping(i) == Offset(i) \/ Tick(i) \/ Check(i) \/ Fetch(i)

-----------------------------------------------------------------------------
(* GetTargets *)

GetsGo(r, g) ==
    /\ gets' = [gets EXCEPT ![r] = g]
    /\ UNCHANGED <<sd, updates, pending, run, groups, active, dropped, seconds, loops, ctxDone>>

Ranging(pc, both) == [pc |-> pc, todo |-> groups, seen |-> {}, both |-> both]

(* The request asks for the active targets, the dropped ones, or both.     *)
GetTargets(r) ==
    /\ Alive /\ gets[r].pc = "idle"
    /\ \E g \in {Ranging("active", TRUE), Ranging("active", FALSE), Ranging("dropped", FALSE)} : GetsGo(r, g)
    /\ UNCHANGED readers

(* ActiveTargets and DroppedTargets read-lock the mutex of each group and  *)
(* do not unlock it.  A writer that waits for the lock keeps readers out.  *)

readLock(j) == readers' = [readers EXCEPT ![j] = @ + 1]

ReadGroup(r) ==
    /\ Alive /\ gets[r].pc \in {"active", "dropped"}
    /\ \E j \in groups \ gets[r].seen :
        /\ ~(run.pc = "lock" /\ run.job = {j})
        /\ readLock(j)
        /\ GetsGo(r, [gets[r] EXCEPT !.seen = @ \cup {j}, !.todo = @ \ {j}])

GroupsRead(r) ==
    /\ Alive /\ gets[r].pc \in {"active", "dropped"} /\ gets[r].todo = {}
    /\ GetsGo(r, IF gets[r].pc = "active" /\ gets[r].both THEN Ranging("dropped", FALSE)
                 ELSE [NoGet EXCEPT !.pc = "done"])
    /\ UNCHANGED readers

-----------------------------------------------------------------------------
(* The agent has ended, or its process has.                                *)
Finished ==
    /\ ~Alive \/ (ctxDone /\ \A i \in Ids : loops[i].pc \in {"none", "done"})
    /\ UNCHANGED vars

Next ==
    \/ Discover \/ Running \/ StopService \/ Finished
    \/ \E i \in Ids : Scraping(i) \/ Push(i)
    \/ \E r \in 1..MaxGets : GetTargets(r) \/ ReadGroup(r) \/ GroupsRead(r)

Spec == Init /\ [][Next]_vars

(* running is a goroutine of its own; the timers of a scrape loop fire and *)
(* a fetch ends at its timeout.  A push has no timeout: it is only sure to *)
(* end when the context of the target is cancelled.                        *)
FairSpec ==
    /\ Spec
    /\ WF_vars(Running)
    /\ \A i \in Ids : WF_vars(Scraping(i)) /\ WF_vars(Cancelled(i) /\ Push(i))

-----------------------------------------------------------------------------
(* Properties *)

LoopState ==
    [pc : {"none", "offset", "tick", "check", "fetch", "push", "done"}, stopped : BOOLEAN,
     hash : {<<>>} \cup (Targets \X BOOLEAN \X Nat), health : {"unspecified", "down", "up"}]

RunState ==
    [pc : {"select", "next", "lock", "done", "crashed"}, todo : SUBSET Jobs,
     job : {{}} \cup {{j} : j \in Jobs}, sent : [Jobs -> SUBSET Targets], number : 0..MaxUpdates]

GetState ==
    [pc : {"idle", "active", "dropped", "done"}, todo : SUBSET Jobs, seen : SUBSET Jobs, both : BOOLEAN]

AgentTypeOK ==
    /\ sd \in [Jobs -> SUBSET Targets]
    /\ updates \in 0..MaxUpdates
    /\ pending \in BOOLEAN /\ ctxDone \in BOOLEAN
    /\ run \in RunState

GroupTypeOK ==
    /\ active \in [Jobs -> SUBSET Ids]
    /\ dropped \in [Jobs -> SUBSET Targets]
    /\ seconds \in [Jobs -> Nat]
    /\ loops \in [Ids -> LoopState]

RequestTypeOK ==
    /\ groups \subseteq Jobs
    /\ readers \in [Jobs -> Nat]
    /\ gets \in [1..MaxGets -> GetState]

TypeOK == AgentTypeOK /\ GroupTypeOK /\ RequestTypeOK

(* The targets of an update that relabelling keeps, of the groups in which *)
(* it finds no invalid target.                                             *)
InCleanGroups(found) ==
    {t \in found \ Dropped : \A u \in found : GroupOf[u] = GroupOf[t] => u \notin Invalid}

(* Every loop that was started and not told to stop is the loop of a       *)
(* target in activeTargets, and the other way round: sync leaves no loop   *)
(* behind that scrapes a target nobody knows, and lists no target that is  *)
(* not scraped any more.                                                   *)
ActiveAreScraped ==
    \A i \in Ids :
        i \in active[i[1]] <=> loops[i].pc # "none" /\ ~loops[i].stopped

(* No target is scraped by two loops that were not told to stop, however   *)
(* often it is discovered, lost and found again.  When running is back at  *)
(* its select, the active targets of every job are valid targets of the    *)
(* last update that relabelling keeps, and none is missing that shares its *)
(* group with valid targets only.                                          *)
ActiveAreDiscovered ==
    /\ \A j \in Jobs : \A a, b \in active[j] : a[2] = b[2] => a = b
    /\ run.pc = "select" =>
          \A j \in Jobs :
              /\ InCleanGroups(run.sent[j]) \subseteq {i[2] : i \in active[j]}
              /\ {i[2] : i \in active[j]} \subseteq run.sent[j] \ (Dropped \cup Invalid)

(* "Check label values are valid, drop the target if not": an invalid      *)
(* target costs the update this target and no other.                       *)
OnlyInvalidAreLeftOut ==
    run.pc = "select" =>
        \A j \in Jobs : {i[2] : i \in active[j]} = run.sent[j] \ (Dropped \cup Invalid)

(* A step that leaves a target active leaves its loop alone: a sync does   *)
(* not restart the scraping of a target it finds again.                    *)
KeptTargetsKeepTheirLoop ==
    [][\A j \in Jobs : \A i \in active[j] :
        (\E k \in active'[j] : k[2] = i[2]) => i \in active'[j]]_vars

(* A target that discovery finds, and goes on finding in a group of valid  *)
(* targets, ends up active for good and scraped at least once, as long as  *)
(* nothing locks its group.                                                *)
ScrapedUnlessLocked ==
    \A j \in Jobs, t \in Targets :
        <>[](t \in InCleanGroups(sd[j]) /\ ~ctxDone /\ Alive /\ \A k \in Jobs : readers[k] = 0) =>
            <>[](\E i \in active[j] : i[2] = t /\ loops[i].health # "unspecified")

(* The same whether or not somebody asks for the targets.                  *)
DiscoveredIsScraped ==
    \A j \in Jobs, t \in Targets :
        <>[](t \in InCleanGroups(sd[j]) /\ ~ctxDone /\ Alive) =>
            <>[](\E i \in active[j] : i[2] = t /\ loops[i].health # "unspecified")

(* The loop of a target that sync has stopped ends, also when it waits,    *)
(* fetches or pushes at that time.  When the service is stopped, all loops *)
(* end, and running returns unless a group is locked.                      *)
AgentStops ==
    /\ \A i \in Ids : loops[i].stopped ~> loops[i].pc = "done" \/ ~Alive
    /\ ctxDone ~>
          \/ ~Alive
          \/ /\ \A i \in Ids : loops[i].pc \in {"none", "done"}
             /\ run.pc = "done" \/ \E j \in Jobs : readers[j] > 0

-----------------------------------------------------------------------------
(* The inductive invariant *)

Started(i) == loops[i].pc # "none"

(* The jobs running has still to sync for the update it handles.           *)
ToSync == (IF run.pc \in {"next", "lock"} THEN run.todo ELSE {}) \cup
          (IF run.pc = "lock" THEN run.job ELSE {})

(* An update that waits is later than the one running handles, and running *)
(* handles each job of it once.                                            *)
UpdatesInOrder ==
    /\ run.number <= updates
    /\ pending => run.number < updates
    /\ run.pc \in {"next", "lock"} => run.number > 0
    /\ run.pc = "lock" => run.job # {} /\ run.job \cap run.todo = {}

(* A loop was started for the update that is handled or an earlier one; in *)
(* a group that is still to be synced, for an earlier one.                 *)
LoopsOfEarlierUpdates ==
    \A i \in Ids : Started(i) =>
        i[3] <= run.number /\ (i[1] \in ToSync => i[3] < run.number)

(* activeTargets of a group holds targets of the group, and the hash of a  *)
(* target tells what was discovered.                                       *)
LoopsOfTheGroup ==
    /\ \A j \in Jobs : \A i \in active[j] : i[1] = j
    /\ \A i \in Ids : Started(i) => loops[i].hash \in Targets \X BOOLEAN \X Nat /\ loops[i].hash[1] = i[2]

(* One loop per target; and in the jobs that are synced, what the code     *)
(* makes of the update: the targets of the groups without an invalid one.  *)
SyncedGroups ==
    /\ \A j \in Jobs : \A a, b \in active[j] : a[2] = b[2] => a = b
    /\ run.pc \in {"select", "next", "lock"} =>
          \A j \in Jobs \ ToSync : {i[2] : i \in active[j]} = InCleanGroups(run.sent[j])

(* Without params in the scrape config the hash of a target never changes. *)
HashesAreStable ==
    ~HasParams =>
        /\ \A j \in Jobs : seconds[j] = 0
        /\ \A i \in Ids : Started(i) => loops[i].hash = <<i[2], FALSE, 0>>

IInv ==
    /\ TypeOK /\ UpdatesInOrder /\ LoopsOfEarlierUpdates /\ LoopsOfTheGroup
    /\ ActiveAreScraped /\ SyncedGroups /\ HashesAreStable
=============================================================================

----------------------------- MODULE AgentProofs -----------------------------
(***************************************************************************)
(* Proofs about Agent: the scrape loops that run are those of the active   *)
(* targets, one per target, and they are what the last update of discovery *)
(* asks for; without params in the scrape config a target that is found    *)
(* again keeps its loop.  All of it for any jobs, targets, target groups,  *)
(* updates and GetTargets requests.                                        *)
(*                                                                         *)
(* What targetsFromGroup builds is found by induction over the order in    *)
(* which it sees the targets.  The rest is an invariant of running: a      *)
(* group that is not synced yet for an update has no loop of that update,  *)
(* so the loops that sync starts are new ones.                             *)
(***************************************************************************)
EXTENDS Agent, TLAPS, FiniteSetTheorems

-----------------------------------------------------------------------------
(* Induction over a range of numbers, from the well-foundedness of Nat.    *)
LEMMA RangeInduction ==
    ASSUME NEW m \in Nat, NEW T, 0 \in T, \A n \in 0..m : n \in T /\ n < m => n + 1 \in T
    PROVE  \A n \in 0..m : n \in T
<1> DEFINE R == OpToRel(<, Nat)
           U == {n \in 0..m : n \notin T}
<1>1. IsWellFoundedOn(R, Nat)
  BY NatLessThanWellFounded, Zenon
<1>2. \A x \in Nat, y \in Nat : y < x => <<y, x>> \in R
  BY DEF OpToRel
<1> HIDE DEF R
<1> SUFFICES ASSUME U # {} PROVE FALSE
  OBVIOUS
<1>3. PICK x \in U : \A y \in U : <<y, x>> \notin R
  <2>1. U \subseteq Nat
    OBVIOUS
  <2> HIDE DEF U
  <2> QED
    BY Zenon, <1>1, <2>1, WFMin
<1>4. x \in Nat /\ x # 0 /\ x - 1 \in 0..m /\ x - 1 \in Nat /\ x - 1 < x
  OBVIOUS
<1>5. x - 1 \notin U
  BY Zenon, <1>2, <1>3, <1>4
<1> QED
  BY <1>4, <1>5

-----------------------------------------------------------------------------
(* What targetsFromGroup builds *)

(* What targetsFromGroups starts with.                                     *)
Nothing(sec) ==
    [failed |-> {}, actives |-> {}, dropped |-> {}, labelled |-> {}, seconds |-> sec]

(* The results for the prefixes of an order, one target after the other.   *)
LEMMA PrefixesExist ==
    ASSUME NEW order \in Seq(Targets), NEW sec
    PROVE  \E g : g = [n \in 0..Len(order) |->
                        IF n = 0 THEN Nothing(sec) ELSE addTarget(g[n - 1], order[n])]
<1> DEFINE Pre(m, g) == g = [n \in 0..m |->
                          IF n = 0 THEN Nothing(sec) ELSE addTarget(g[n - 1], order[n])]
           T == {m \in Nat : \E g : Pre(m, g)}
<1>1. 0 \in T
  <2> DEFINE g == [n \in 0..0 |-> Nothing(sec)]
  <2>1. g = [n \in 0..0 |-> IF n = 0 THEN Nothing(sec) ELSE addTarget(g[n - 1], order[n])]
    OBVIOUS
  <2> QED
    BY Zenon, <2>1
<1>2. ASSUME NEW m \in Nat, NEW g, Pre(m, g)
      PROVE  \E h : Pre(m + 1, h)
  <2> DEFINE h == [n \in 0..(m + 1) |-> IF n = m + 1 THEN addTarget(g[m], order[m + 1]) ELSE g[n]]
  <2>1. \A n \in 0..m : h[n] = g[n]
    OBVIOUS
  <2>2. h[m + 1] = addTarget(g[m], order[m + 1])
    OBVIOUS
  <2>3. \A n \in 0..m : g[n] = IF n = 0 THEN Nothing(sec) ELSE addTarget(g[n - 1], order[n])
    BY <1>2
  <2>4. \A n \in 0..(m + 1) :
            h[n] = IF n = 0 THEN Nothing(sec) ELSE addTarget(h[n - 1], order[n])
    <3> TAKE n \in 0..(m + 1)
    <3>1. CASE n = m + 1
      <4>1. n # 0 /\ n - 1 = m /\ m \in 0..m
        BY <3>1
      <4> HIDE DEF h
      <4> QED
        BY <3>1, <4>1, <2>1, <2>2
    <3>2. CASE n # m + 1
      <4>1. n \in 0..m /\ (n # 0 => n - 1 \in 0..m)
        BY <3>2
      <4> HIDE DEF h
      <4> QED
        BY <4>1, <2>1, <2>3
    <3> QED
      BY <3>1, <3>2
  <2>5. DOMAIN h = 0..(m + 1) /\ h = [n \in 0..(m + 1) |-> h[n]]
    OBVIOUS
  <2> HIDE DEF h
  <2>6. Pre(m + 1, h)
    BY <2>4, <2>5, Zenon
  <2> QED
    BY <2>6
<1>3. Len(order) \in Nat
  OBVIOUS
<1>4. \A n \in 0..Len(order) : n \in T /\ n < Len(order) => n + 1 \in T
  BY <1>2
<1>5. Len(order) \in T
  <2>1. Len(order) \in 0..Len(order)
    BY <1>3
  <2> HIDE DEF T
  <2> QED
    BY Zenon, <1>1, <1>3, <1>4, <2>1, RangeInduction
<1> QED
  BY <1>5

(* The results targetsFromGroups can have.                                 *)
BuiltState ==
    [failed : SUBSET {GroupOf[t] : t \in Targets}, actives : SUBSET Targets,
     dropped : SUBSET Targets, labelled : SUBSET Targets, seconds : Nat]

(* What is built once the targets in Seen have gone through: the groups of *)
(* invalid targets have failed, and the others have their targets that are *)
(* not dropped.  Without params nothing is added to them.                  *)
BuiltOf(b, Seen, sec) ==
    /\ b \in BuiltState
    /\ b.failed = {GroupOf[t] : t \in Seen \cap Invalid}
    /\ b.actives = {t \in Seen \ (Invalid \cup Dropped) : GroupOf[t] \notin b.failed}
    /\ ~HasParams => b.seconds = sec /\ (sec = 0 => b.labelled = {})

(* One more target.                                                        *)
LEMMA AddTarget ==
    ASSUME NEW b, NEW Seen \in SUBSET Targets, NEW sec \in Nat, BuiltOf(b, Seen, sec),
           NEW t \in Targets
    PROVE  BuiltOf(addTarget(b, t), Seen \cup {t}, sec)
<1> DEFINE G == GroupOf[t]
           c == addTarget(b, t)
<1>1. /\ b \in BuiltState
      /\ b.failed = {GroupOf[u] : u \in Seen \cap Invalid}
      /\ b.actives = {u \in Seen \ (Invalid \cup Dropped) : GroupOf[u] \notin b.failed}
      /\ ~HasParams => b.seconds = sec /\ (sec = 0 => b.labelled = {})
  BY DEF BuiltOf
<1>2. HasParams \in BOOLEAN /\ G \in {GroupOf[u] : u \in Targets}
  BY AgentAssumption
<1>3. CASE G \in b.failed
  <2>1. c = b
    BY <1>3 DEF addTarget
  <2>2. b.failed = {GroupOf[u] : u \in (Seen \cup {t}) \cap Invalid}
    BY <1>1, <1>3
  <2>3. b.actives = {u \in (Seen \cup {t}) \ (Invalid \cup Dropped) : GroupOf[u] \notin b.failed}
    BY <1>1, <1>3
  <2> QED
    BY <2>1, <2>2, <2>3, <1>1 DEF BuiltOf
<1>4. CASE G \notin b.failed /\ t \in Invalid
  <2> DEFINE A == {d \in b.actives : GroupOf[d] # G}
             D == {d \in b.dropped : GroupOf[d] # G}
             F == b.failed \cup {G}
  <2>1. c = [b EXCEPT !.failed = F, !.dropped = D, !.actives = A]
    BY <1>4 DEF addTarget
  <2>2. /\ c \in BuiltState /\ c.failed = F /\ c.actives = A
        /\ c.seconds = b.seconds /\ c.labelled = b.labelled
    <3>1. A \in SUBSET Targets /\ D \in SUBSET Targets /\ F \in SUBSET {GroupOf[u] : u \in Targets}
      BY <1>1, <1>2 DEF BuiltState
    <3>2. b \in BuiltState
      BY <1>1
    <3> HIDE DEF A, D, F, c
    <3> QED
      BY ONLY Zenon, <2>1, <3>1, <3>2 DEF BuiltState
  <2> HIDE DEF c
  <2>3. c.failed = {GroupOf[u] : u \in (Seen \cup {t}) \cap Invalid}
    BY <2>2, <1>1, <1>4
  <2>4. c.actives = {u \in (Seen \cup {t}) \ (Invalid \cup Dropped) : GroupOf[u] \notin c.failed}
    BY <2>2, <1>1, <1>4
  <2> QED
    BY <2>2, <2>3, <2>4, <1>1 DEF BuiltOf, c
<1>5. CASE G \notin b.failed /\ t \notin Invalid /\ t \in Dropped
  <2>1. c = [b EXCEPT !.dropped = @ \cup {t}]
    BY <1>5 DEF addTarget
  <2>2. /\ c \in BuiltState /\ c.failed = b.failed /\ c.actives = b.actives
        /\ c.seconds = b.seconds /\ c.labelled = b.labelled
    BY <2>1, <1>1 DEF BuiltState
  <2> HIDE DEF c
  <2>3. c.failed = {GroupOf[u] : u \in (Seen \cup {t}) \cap Invalid}
    BY <2>2, <1>1, <1>5
  <2>4. c.actives = {u \in (Seen \cup {t}) \ (Invalid \cup Dropped) : GroupOf[u] \notin c.failed}
    BY <2>2, <1>1, <1>5
  <2> QED
    BY <2>2, <2>3, <2>4, <1>1 DEF BuiltOf, c
<1>6. CASE G \notin b.failed /\ t \notin Invalid /\ t \notin Dropped
  <2> DEFINE L == IF b.seconds > 0 THEN b.labelled \cup {t} ELSE b.labelled
             S == IF HasParams /\ t \in DeltaTargets THEN b.seconds + 1 ELSE b.seconds
  <2>1. c = [b EXCEPT !.actives = @ \cup {t}, !.labelled = L, !.seconds = S]
    BY <1>6 DEF addTarget
  <2>2. L \in SUBSET Targets /\ S \in Nat
    BY <1>1 DEF BuiltState
  <2>3. ~HasParams => S = sec /\ (sec = 0 => L = {})
    BY <1>1
  <2> HIDE DEF L, S
  <2>4. /\ c \in BuiltState /\ c.failed = b.failed /\ c.actives = b.actives \cup {t}
        /\ c.seconds = S /\ c.labelled = L
    <3>1. b \in BuiltState /\ t \in Targets
      BY <1>1
    <3> HIDE DEF c
    <3> QED
      BY ONLY Zenon, <2>1, <2>2, <3>1 DEF BuiltState
  <2> HIDE DEF c
  <2>5. c.failed = {GroupOf[u] : u \in (Seen \cup {t}) \cap Invalid}
    BY <2>4, <1>1, <1>6
  <2>6. c.actives = {u \in (Seen \cup {t}) \ (Invalid \cup Dropped) : GroupOf[u] \notin c.failed}
    BY <2>4, <1>1, <1>6
  <2> QED
    BY <2>3, <2>4, <2>5, <2>6 DEF BuiltOf, c
<1> QED
  BY <1>3, <1>4, <1>5, <1>6

(* All targets of an order, by induction over its prefixes.                *)
LEMMA BuiltFromOrder ==
    ASSUME NEW order \in Seq(Targets), NEW sec \in Nat
    PROVE  BuiltOf(targetsFromGroups(order, sec), {order[k] : k \in 1..Len(order)}, sec)
<1> DEFINE Seen(n) == {order[k] : k \in 1..n}
           acc[n \in 0..Len(order)] ==
              IF n = 0
              THEN [failed |-> {}, actives |-> {}, dropped |-> {}, labelled |-> {}, seconds |-> sec]
              ELSE addTarget(acc[n - 1], order[n])
           T == {n \in 0..Len(order) : BuiltOf(acc[n], Seen(n), sec)}
<1>1. acc = [n \in 0..Len(order) |->
                IF n = 0 THEN Nothing(sec) ELSE addTarget(acc[n - 1], order[n])]
  <2>1. \E g : g = [n \in 0..Len(order) |->
                      IF n = 0 THEN Nothing(sec) ELSE addTarget(g[n - 1], order[n])]
    BY PrefixesExist
  <2> QED
    BY <2>1, Zenon DEF Nothing
<1>2. targetsFromGroups(order, sec) = acc[Len(order)]
  BY Zenon DEF targetsFromGroups
<1> HIDE DEF acc
<1>3. Len(order) \in Nat
  OBVIOUS
<1>4. 0 \in T
  <2>1. acc[0] = Nothing(sec)
    BY <1>1, <1>3
  <2>2. Seen(0) = {}
    OBVIOUS
  <2>3. BuiltOf(Nothing(sec), {}, sec)
    BY DEF BuiltOf, BuiltState, Nothing
  <2>4. 0 \in 0..Len(order)
    BY <1>3
  <2> HIDE DEF Seen
  <2> QED
    BY Zenon, <2>1, <2>2, <2>3, <2>4
<1>5. ASSUME NEW n \in 0..Len(order), n \in T, n < Len(order)
      PROVE  n + 1 \in T
  <2>1. n + 1 \in 0..Len(order) /\ n + 1 \in 1..Len(order) /\ n + 1 # 0 /\ (n + 1) - 1 = n
    BY <1>3, <1>5
  <2>2. acc[n + 1] = addTarget(acc[n], order[n + 1])
    BY <1>1, <2>1
  <2>3. Seen(n + 1) = Seen(n) \cup {order[n + 1]}
    <3>1. 1..(n + 1) = (1..n) \cup {n + 1}
      BY <1>3
    <3> QED
      BY <3>1
  <2>4. order[n + 1] \in Targets /\ Seen(n) \in SUBSET Targets
    BY <2>1
  <2>5. BuiltOf(acc[n], Seen(n), sec)
    BY <1>5
  <2> HIDE DEF Seen
  <2>6. BuiltOf(acc[n + 1], Seen(n + 1), sec)
    BY Zenon, <2>2, <2>3, <2>4, <2>5, AddTarget
  <2> QED
    BY <2>1, <2>6
<1>6. Len(order) \in T
  <2>1. Len(order) \in 0..Len(order)
    BY <1>3
  <2> HIDE DEF T
  <2> QED
    BY Zenon, <1>3, <1>4, <1>5, <2>1, RangeInduction
<1> QED
  BY <1>2, <1>6

(* An order of the targets found has all of them, since there are as many  *)
(* places as targets.                                                      *)
LEMMA OrderHasAll ==
    ASSUME NEW found \in SUBSET Targets, NEW order \in Orders(found)
    PROVE  order \in Seq(Targets) /\ {order[k] : k \in 1..Len(order)} = found
<1> DEFINE D == 1..Cardinality(found)
<1>1. IsFiniteSet(found) /\ Cardinality(found) \in Nat
  BY AgentAssumption, FS_Subset, FS_CardinalityType
<1>2. order \in [D -> found] /\ \A i, j \in D : i # j => order[i] # order[j]
  BY DEF Orders, SetToSeqs
<1>3. order \in Injection(D, found)
  BY <1>2 DEF Injection, IsInjective
<1>4. IsFiniteSet(D) /\ Cardinality(D) = Cardinality(found)
  BY <1>1, FS_Interval
<1>5. order \in Surjection(D, found)
  BY <1>1, <1>3, <1>4, FS_Injection
<1>6. order \in Seq(Targets) /\ Len(order) = Cardinality(found)
  BY <1>1, <1>2
<1> QED
  BY <1>5, <1>6 DEF Surjection

(* The targets that sync makes active are those of the groups without an   *)
(* invalid one.                                                            *)
LEMMA BuiltFromCleanGroups ==
    ASSUME NEW found \in SUBSET Targets, NEW order \in Orders(found), NEW sec \in Nat
    PROVE  LET built == targetsFromGroups(order, sec)
           IN  /\ built \in BuiltState
               /\ built.actives = InCleanGroups(found)
               /\ ~HasParams => built.seconds = sec /\ (sec = 0 => built.labelled = {})
<1> DEFINE built == targetsFromGroups(order, sec)
<1>1. BuiltOf(built, found, sec)
  BY OrderHasAll, BuiltFromOrder
<1> HIDE DEF built
<1>2. built.actives = {t \in found \ (Invalid \cup Dropped) :
                          GroupOf[t] \notin {GroupOf[u] : u \in found \cap Invalid}}
  BY <1>1 DEF BuiltOf
<1>3. built.actives = InCleanGroups(found)
  BY <1>2 DEF InCleanGroups
<1> QED
  BY <1>1, <1>3 DEF BuiltOf, built
-----------------------------------------------------------------------------
(* Steps that do not change which loops there are *)

(* No loop is started or stopped, and no target gets another hash.         *)
SameLoops ==
    \A i \in Ids : /\ (loops'[i].pc = "none" <=> loops[i].pc = "none")
                   /\ (loops'[i].stopped <=> loops[i].stopped) /\ loops'[i].hash = loops[i].hash

(* The groups are as before when no loop is started or stopped.            *)
LEMMA GroupsKept ==
    ASSUME IInv, SameLoops, UNCHANGED <<active, seconds>>
    PROVE  LoopsOfTheGroup' /\ ActiveAreScraped' /\ HashesAreStable'
<1>1. LoopsOfTheGroup'
  BY DEF IInv, SameLoops, LoopsOfTheGroup, Started, Ids
<1>2. ActiveAreScraped'
  BY DEF IInv, SameLoops, ActiveAreScraped, Ids
<1>3. HashesAreStable'
  BY Zenon DEF IInv, SameLoops, HashesAreStable, Started, Ids
<1> QED
  BY <1>1, <1>2, <1>3

(* The same for what the update in hand says of them.                      *)
LEMMA UpdateKept ==
    ASSUME IInv, SameLoops, UNCHANGED <<active, run>>
    PROVE  LoopsOfEarlierUpdates' /\ SyncedGroups'
<1>1. ToSync' = ToSync
  BY DEF ToSync
<1>2. LoopsOfEarlierUpdates'
  BY <1>1 DEF IInv, SameLoops, LoopsOfEarlierUpdates, Started, Ids
<1>3. SyncedGroups'
  BY <1>1 DEF IInv, SyncedGroups, InCleanGroups
<1> QED
  BY <1>2, <1>3

(* Steps that leave all loops alone start and stop none.                   *)
LEMMA UnchangedLoops ==
    ASSUME UNCHANGED loops
    PROVE  SameLoops
BY DEF SameLoops

(* Discovery, requests and the end of the service leave the groups alone.  *)
LEMMA OutsideIInv ==
    ASSUME IInv, \/ Discover \/ StopService \/ Finished \/ UNCHANGED vars
                 \/ \E r \in 1..MaxGets : GetTargets(r) \/ ReadGroup(r) \/ GroupsRead(r)
    PROVE  IInv'
<1>1. UNCHANGED <<run, active, dropped, seconds, loops>>
  BY Zenon DEF Discover, StopService, Finished, vars, GetTargets, ReadGroup, GroupsRead, GetsGo
<1>2. LoopsOfTheGroup' /\ ActiveAreScraped' /\ HashesAreStable' /\ LoopsOfEarlierUpdates' /\ SyncedGroups'
  BY Zenon, <1>1, UnchangedLoops, GroupsKept, UpdateKept
<1>3. GroupTypeOK'
  BY <1>1 DEF IInv, TypeOK, GroupTypeOK, Ids
<1>4. /\ sd \in [Jobs -> SUBSET Targets] /\ updates \in 0..MaxUpdates /\ MaxUpdates \in Nat
      /\ pending \in BOOLEAN /\ ctxDone \in BOOLEAN /\ run \in RunState
  BY AgentAssumption DEF IInv, TypeOK, AgentTypeOK
<1>5. AgentTypeOK' /\ UpdatesInOrder'
  <2>1. CASE Discover
    <3>1. sd' \in [Jobs -> SUBSET Targets] /\ updates' = updates + 1 /\ updates' \in 0..MaxUpdates
      BY <2>1, <1>4 DEF Discover
    <3>2. pending' = TRUE /\ ctxDone' = ctxDone
      BY <2>1 DEF Discover
    <3>3. AgentTypeOK'
      BY Zenon, <1>1, <1>4, <3>1, <3>2 DEF AgentTypeOK
    <3>4. run.number \in Nat /\ run.number <= updates
      BY <1>4 DEF RunState, IInv, UpdatesInOrder
    <3>5. run'.number < updates' /\ run'.number <= updates'
      BY <3>1, <3>4, <1>1, <1>4
    <3> QED
      BY Zenon, <1>1, <3>3, <3>5 DEF IInv, UpdatesInOrder
  <2>2. CASE ~Discover
    <3>1. UNCHANGED <<sd, updates, pending>> /\ ctxDone' \in BOOLEAN
      BY Zenon, <2>2, <1>4 DEF StopService, Finished, vars, GetTargets, ReadGroup, GroupsRead, GetsGo
    <3>2. AgentTypeOK'
      BY <1>1, <1>4, <3>1 DEF AgentTypeOK
    <3> QED
      BY <1>1, <3>1, <3>2 DEF IInv, UpdatesInOrder
  <2> QED
    BY <2>1, <2>2
<1>6. RequestTypeOK'
  <2>1. /\ groups \subseteq Jobs /\ readers \in [Jobs -> Nat]
        /\ gets \in [1..MaxGets -> GetState]
    BY DEF IInv, TypeOK, RequestTypeOK
  <2>2. UNCHANGED groups
    BY Zenon DEF Discover, StopService, Finished, vars, GetTargets, ReadGroup, GroupsRead, GetsGo
  <2>3. \A pc \in {"active", "dropped"}, both \in BOOLEAN : Ranging(pc, both) \in GetState
    BY <2>1 DEF Ranging, GetState
  <2>4. ASSUME NEW r \in 1..MaxGets, GetTargets(r)
        PROVE  readers' \in [Jobs -> Nat] /\ gets' \in [1..MaxGets -> GetState]
    <3>1. UNCHANGED readers /\ \E g \in GetState : gets' = [gets EXCEPT ![r] = g]
      BY Zenon, <2>3, <2>4 DEF GetTargets, GetsGo
    <3> QED
      BY <3>1, <2>1
  <2>5. ASSUME NEW r \in 1..MaxGets, ReadGroup(r)
        PROVE  readers' \in [Jobs -> Nat] /\ gets' \in [1..MaxGets -> GetState]
    <3>1. PICK j \in groups : /\ readers' = [readers EXCEPT ![j] = @ + 1]
                              /\ gets' = [gets EXCEPT ![r] = [gets[r] EXCEPT !.seen = @ \cup {j}, !.todo = @ \ {j}]]
      BY Zenon, <2>5 DEF ReadGroup, readLock, GetsGo
    <3>2. readers' \in [Jobs -> Nat]
      BY <3>1, <2>1
    <3>3. gets[r] \in GetState /\ j \in Jobs
      BY <2>1
    <3>4. [gets[r] EXCEPT !.seen = @ \cup {j}, !.todo = @ \ {j}] \in GetState
      BY Zenon, <3>3 DEF GetState
    <3> QED
      BY <3>1, <3>2, <3>4, <2>1
  <2>6. ASSUME NEW r \in 1..MaxGets, GroupsRead(r)
        PROVE  readers' \in [Jobs -> Nat] /\ gets' \in [1..MaxGets -> GetState]
    <3>1. [NoGet EXCEPT !.pc = "done"] \in GetState
      BY Zenon DEF NoGet, GetState
    <3>2. UNCHANGED readers /\ \E g \in GetState : gets' = [gets EXCEPT ![r] = g]
      BY Zenon, <2>3, <2>6, <3>1 DEF GroupsRead, GetsGo
    <3> QED
      BY <3>2, <2>1
  <2>7. CASE Discover \/ StopService \/ Finished \/ UNCHANGED vars
    <3>1. UNCHANGED <<readers, gets>>
      BY <2>7 DEF Discover, StopService, Finished, vars
    <3> QED
      BY Zenon, <3>1, <2>1, <2>2 DEF RequestTypeOK
  <2> QED
    BY Zenon, <2>2, <2>4, <2>5, <2>6, <2>7, <2>1 DEF RequestTypeOK
<1> QED
  BY <1>2, <1>3, <1>5, <1>6 DEF IInv, TypeOK

(* A scrape loop goes through its states; only sync starts or stops it.    *)
LEMMA LoopIInv ==
    ASSUME IInv, NEW i \in Ids, Scraping(i) \/ Push(i)
    PROVE  IInv'
<1>1. UNCHANGED <<sd, updates, pending, run, groups, active, dropped, seconds, readers, gets, ctxDone>>
  BY DEF Scraping, Offset, Tick, Check, Fetch, Push, LoopGoes
<1>2. loops \in [Ids -> LoopState] /\ loops[i].pc # "none"
  BY DEF IInv, TypeOK, GroupTypeOK, Scraping, Offset, Tick, Check, Fetch, Push, AtLoop
<1>3. \/ \E p \in {"check", "done", "fetch", "tick"} : loops' = [loops EXCEPT ![i].pc = p]
      \/ loops' = [loops EXCEPT ![i].pc = "tick", ![i].health = "down"]
      \/ loops' = [loops EXCEPT ![i].pc = "push", ![i].health = "up"]
  BY DEF Scraping, Offset, Tick, Check, Fetch, Push, LoopGoes, fetchProfile
<1>4. loops' \in [Ids -> LoopState] /\ SameLoops
  <2>1. CASE \E p \in {"check", "done", "fetch", "tick"} : loops' = [loops EXCEPT ![i].pc = p]
    BY <2>1, <1>2 DEF LoopState, SameLoops
  <2>2. CASE loops' = [loops EXCEPT ![i].pc = "tick", ![i].health = "down"]
    <3>1. /\ loops' = [k \in Ids |-> loops'[k]] /\ \A k \in Ids \ {i} : loops'[k] = loops[k]
          /\ loops'[i] = [loops[i] EXCEPT !.pc = "tick", !.health = "down"]
      BY <2>2, <1>2, Zenon
    <3>2. /\ loops'[i] \in LoopState /\ loops'[i].pc = "tick"
          /\ loops'[i].stopped = loops[i].stopped /\ loops'[i].hash = loops[i].hash
      <4> DEFINE l == loops[i]
                 m == loops'[i]
      <4>1. l \in LoopState /\ m = [l EXCEPT !.pc = "tick", !.health = "down"]
        BY <3>1, <1>2, Zenon
      <4> HIDE DEF l, m
      <4>2. m \in LoopState /\ m.pc = "tick" /\ m.stopped = l.stopped /\ m.hash = l.hash
        BY ONLY Zenon, <4>1 DEF LoopState
      <4> QED
        BY <4>2, Zenon DEF l, m
    <3>3. \A k \in Ids : loops'[k] \in LoopState
      BY <3>1, <3>2, <1>2, Zenon
    <3>4. SameLoops
      BY <3>1, <3>2, <1>2, Zenon DEF SameLoops
    <3> QED
      BY <3>1, <3>3, <3>4
  <2>3. CASE loops' = [loops EXCEPT ![i].pc = "push", ![i].health = "up"]
    <3>1. /\ loops' = [k \in Ids |-> loops'[k]] /\ \A k \in Ids \ {i} : loops'[k] = loops[k]
          /\ loops'[i] = [loops[i] EXCEPT !.pc = "push", !.health = "up"]
      BY <2>3, <1>2, Zenon
    <3>2. /\ loops'[i] \in LoopState /\ loops'[i].pc = "push"
          /\ loops'[i].stopped = loops[i].stopped /\ loops'[i].hash = loops[i].hash
      <4> DEFINE l == loops[i]
                 m == loops'[i]
      <4>1. l \in LoopState /\ m = [l EXCEPT !.pc = "push", !.health = "up"]
        BY <3>1, <1>2, Zenon
      <4> HIDE DEF l, m
      <4>2. m \in LoopState /\ m.pc = "push" /\ m.stopped = l.stopped /\ m.hash = l.hash
        BY ONLY Zenon, <4>1 DEF LoopState
      <4> QED
        BY <4>2, Zenon DEF l, m
    <3>3. \A k \in Ids : loops'[k] \in LoopState
      BY <3>1, <3>2, <1>2, Zenon
    <3>4. SameLoops
      BY <3>1, <3>2, <1>2, Zenon DEF SameLoops
    <3> QED
      BY <3>1, <3>3, <3>4
  <2> QED
    BY <2>1, <2>2, <2>3, <1>3
<1>5. LoopsOfTheGroup' /\ ActiveAreScraped' /\ HashesAreStable' /\ LoopsOfEarlierUpdates' /\ SyncedGroups'
  BY <1>1, <1>4, GroupsKept, UpdateKept
<1>6. TypeOK'
  <2>1. AgentTypeOK' /\ RequestTypeOK'
    BY <1>1 DEF IInv, TypeOK, AgentTypeOK, RequestTypeOK
  <2>2. GroupTypeOK'
    BY <1>1, <1>4 DEF IInv, TypeOK, GroupTypeOK, Ids
  <2> QED
    BY <2>1, <2>2 DEF TypeOK
<1>7. UpdatesInOrder'
  BY <1>1 DEF IInv, UpdatesInOrder
<1> QED
  BY Zenon, <1>5, <1>6, <1>7 DEF IInv
-----------------------------------------------------------------------------
(* running *)

(* What the steps of running other than sync have to show.                 *)
LEMMA RunStep ==
    ASSUME IInv, run' \in RunState, pending' \in BOOLEAN, groups' \subseteq Jobs,
           UNCHANGED <<sd, updates, active, dropped, seconds, readers, loops, gets, ctxDone>>,
           UpdatesInOrder', LoopsOfEarlierUpdates', SyncedGroups'
    PROVE  IInv'
<1>1. AgentTypeOK'
  BY DEF IInv, TypeOK, AgentTypeOK
<1>2. GroupTypeOK'
  BY DEF IInv, TypeOK, GroupTypeOK, Ids
<1>3. RequestTypeOK'
  BY DEF IInv, TypeOK, RequestTypeOK
<1>4. LoopsOfTheGroup' /\ ActiveAreScraped' /\ HashesAreStable'
  BY UnchangedLoops, GroupsKept
<1> QED
  BY Zenon, <1>1, <1>2, <1>3, <1>4 DEF IInv, TypeOK

(* A new update has a higher number than all loops.                        *)
LEMMA ReceiveIInv ==
    ASSUME IInv, Receive
    PROVE  IInv'
<1>1. /\ run.number \in 0..MaxUpdates /\ updates \in 0..MaxUpdates /\ MaxUpdates \in Nat
      /\ sd \in [Jobs -> SUBSET Targets] /\ pending
  BY AgentAssumption DEF IInv, TypeOK, AgentTypeOK, RunState, Receive
<1>2. run.number < updates /\ updates > 0
  BY <1>1 DEF IInv, UpdatesInOrder
<1>3. /\ run' = [pc |-> "next", todo |-> Jobs, job |-> {}, sent |-> sd, number |-> updates]
      /\ ~pending' /\ pending' \in BOOLEAN
      /\ UNCHANGED <<sd, updates, groups, active, dropped, seconds, readers, loops, gets, ctxDone>>
  BY Zenon DEF Receive
<1>4. run' \in RunState
  BY <1>1, <1>3 DEF RunState
<1>5. run'.pc = "next" /\ run'.todo = Jobs /\ run'.number = updates
  BY <1>3
<1>6. UpdatesInOrder'
  BY <1>1, <1>2, <1>3, <1>5 DEF UpdatesInOrder
<1>7. LoopsOfEarlierUpdates'
  <2> SUFFICES ASSUME NEW i \in Ids, loops[i].pc # "none"
               PROVE  i[3] <= updates /\ i[3] < updates
    BY <1>3, <1>5 DEF LoopsOfEarlierUpdates, Started, Ids
  <2>1. i[3] \in Nat /\ i[3] <= run.number
    BY <1>1 DEF IInv, LoopsOfEarlierUpdates, Started, Ids
  <2> QED
    BY <2>1, <1>1, <1>2
<1>8. SyncedGroups'
  <2>1. ToSync' = Jobs
    BY <1>5 DEF ToSync
  <2> QED
    BY <2>1, <1>3 DEF IInv, SyncedGroups
<1>9. groups' \subseteq Jobs
  BY <1>3 DEF IInv, TypeOK, RequestTypeOK
<1> QED
  BY Zenon, <1>3, <1>4, <1>6, <1>7, <1>8, <1>9, RunStep

(* running goes on with the update: the same jobs are left, or none.       *)
LEMMA RunGoesOn ==
    ASSUME IInv, run' \in RunState, groups' \subseteq Jobs,
           UNCHANGED <<sd, updates, pending, active, dropped, seconds, readers, loops, gets, ctxDone>>,
           run'.sent = run.sent, run'.number = run.number, ToSync' \subseteq ToSync,
           run'.pc \in {"select", "next", "lock"} =>
               run.pc \in {"select", "next", "lock"} /\ ToSync' = ToSync,
           run'.pc \in {"next", "lock"} => run.pc \in {"next", "lock"},
           run'.pc = "lock" => run'.job # {} /\ run'.job \cap run'.todo = {}
    PROVE  IInv'
<1>1. UpdatesInOrder'
  BY DEF IInv, UpdatesInOrder
<1>2. LoopsOfEarlierUpdates'
  BY DEF IInv, LoopsOfEarlierUpdates, Started, Ids
<1>3. SyncedGroups'
  BY DEF IInv, SyncedGroups, InCleanGroups
<1>4. pending' \in BOOLEAN
  BY DEF IInv, TypeOK, AgentTypeOK
<1> QED
  BY Zenon, <1>1, <1>2, <1>3, <1>4, RunStep

(* Taking the next job of an update moves it from todo to the one that is  *)
(* synced.                                                                 *)
LEMMA NextJobIInv ==
    ASSUME IInv, NextJob
    PROVE  IInv'
<1>1. /\ run \in RunState /\ run.pc = "next" /\ groups \subseteq Jobs
      /\ UNCHANGED <<sd, updates, pending, active, dropped, seconds, readers, loops, gets, ctxDone>>
  BY Zenon DEF IInv, TypeOK, AgentTypeOK, RequestTypeOK, NextJob
<1>2. ToSync = run.todo
  BY <1>1 DEF ToSync
<1>3. CASE run.todo = {} /\ run' = [run EXCEPT !.pc = "select"] /\ UNCHANGED groups
  <2>1. /\ run' \in RunState /\ run'.pc = "select"
        /\ run'.sent = run.sent /\ run'.number = run.number
    BY <1>1, <1>3 DEF RunState
  <2>2. ToSync' = {}
    BY <2>1 DEF ToSync
  <2> QED
    BY Zenon, <1>1, <1>2, <1>3, <2>1, <2>2, RunGoesOn
<1>4. ASSUME NEW j \in run.todo, groups' = groups \cup {j},
             run' = [run EXCEPT !.pc = "lock", !.job = {j}, !.todo = @ \ {j}]
      PROVE  IInv'
  <2>0. j \in Jobs
    BY <1>1, <1>4 DEF RunState
  <2>1. /\ run' \in RunState /\ run'.pc = "lock" /\ run'.job = {j} /\ run'.todo = run.todo \ {j}
        /\ run'.sent = run.sent /\ run'.number = run.number
    BY Zenon, <1>1, <1>4, <2>0 DEF RunState
  <2>2. ToSync' = run.todo
    BY <2>1 DEF ToSync
  <2> QED
    BY Zenon, <1>1, <1>2, <1>4, <2>0, <2>1, <2>2, RunGoesOn
<1>5. ASSUME NEW j \in run.todo, groups' = groups \cup {j}, run' = [run EXCEPT !.pc = "crashed"]
      PROVE  IInv'
  <2>0. j \in Jobs
    BY <1>1, <1>5 DEF RunState
  <2>1. /\ run' \in RunState /\ run'.pc = "crashed"
        /\ run'.sent = run.sent /\ run'.number = run.number
    BY <1>1, <1>5 DEF RunState
  <2>2. ToSync' = {}
    BY <2>1 DEF ToSync
  <2> QED
    BY Zenon, <1>1, <1>5, <2>0, <2>1, <2>2, RunGoesOn
<1> QED
  BY Zenon, <1>3, <1>4, <1>5 DEF NextJob

(* When running returns, nothing is said of the update any more.           *)
LEMMA ReturnIInv ==
    ASSUME IInv, Return
    PROVE  IInv'
<1>1. /\ run \in RunState /\ groups' \subseteq Jobs /\ run' = [run EXCEPT !.pc = "done"]
      /\ UNCHANGED <<sd, updates, pending, active, dropped, seconds, readers, loops, gets, ctxDone>>
  BY DEF IInv, TypeOK, AgentTypeOK, RequestTypeOK, Return
<1>2. /\ run' \in RunState /\ run'.pc = "done"
      /\ run'.sent = run.sent /\ run'.number = run.number
  BY <1>1 DEF RunState
<1>3. ToSync' = {}
  BY <1>2 DEF ToSync
<1> QED
  BY <1>1, <1>2, <1>3, RunGoesOn

(* The hashes a target can have: the target, whether the seconds are one   *)
(* of its labels, and the seconds in its URL.                              *)
Hashes == Targets \X BOOLEAN \X Nat

(* What sync does, in terms of the targets A it keeps active and their     *)
(* hashes H.                                                               *)
SyncEffect(j, A, H, new, gone) ==
    /\ A = InCleanGroups(run.sent[j]) /\ A \subseteq Targets
    /\ \A t \in A : H[t] \in Hashes /\ H[t][1] = t /\ (~HasParams => H[t] = <<t, FALSE, 0>>)
    /\ new = {<<j, t, run.number>> : t \in {u \in A : H[u] \notin known(j)}}
    /\ gone = {i \in active[j] : loops[i].hash \notin {H[t] : t \in A}}
    /\ active' = [active EXCEPT ![j] = (@ \cup new) \ gone]
    /\ loops' = [i \in Ids |->
          IF i \in new THEN [NotStarted EXCEPT !.pc = "offset", !.hash = H[i[2]]]
          ELSE IF i \in gone THEN [loops[i] EXCEPT !.stopped = TRUE]
          ELSE loops[i]]

(* A sync has the effect below, whatever order the groups are gone through *)
(* in.                                                                     *)
LEMMA SyncDoes ==
    ASSUME IInv, NEW j \in Jobs, Sync(j)
    PROVE  /\ \E A, H, new, gone : SyncEffect(j, A, H, new, gone)
           /\ dropped' \in [Jobs -> SUBSET Targets] /\ seconds' \in [Jobs -> Nat]
           /\ ~HasParams => \A k \in Jobs : seconds'[k] = 0
<1> DEFINE b(o) == targetsFromGroups(o, seconds[j])
           h(o) == [t \in b(o).actives |-> Hash(b(o), t)]
           n(o) == {<<j, t, run.number>> : t \in {u \in b(o).actives : h(o)[u] \notin known(j)}}
           g(o) == inactive(j, {h(o)[t] : t \in b(o).actives})
<1>0. PICK order \in Orders(run.sent[j]) :
          /\ dropped' = [dropped EXCEPT ![j] = b(order).dropped]
          /\ seconds' = [seconds EXCEPT ![j] = b(order).seconds]
          /\ active' = [active EXCEPT ![j] = (@ \cup n(order)) \ g(order)]
          /\ loops' = [i \in Ids |->
                IF i \in n(order) THEN [NotStarted EXCEPT !.pc = "offset", !.hash = h(order)[i[2]]]
                ELSE IF i \in g(order) THEN stop(loops[i])
                ELSE loops[i]]
  BY Zenon DEF Sync
<1> DEFINE built == b(order)
           hash == h(order)
           new == n(order)
           gone == g(order)
<1>1. run.sent[j] \in SUBSET Targets /\ seconds[j] \in Nat
  BY DEF IInv, TypeOK, AgentTypeOK, GroupTypeOK, RunState
<1>2. /\ built \in BuiltState /\ built.actives = InCleanGroups(run.sent[j])
      /\ ~HasParams => built.seconds = seconds[j] /\ (seconds[j] = 0 => built.labelled = {})
  BY SMTT(30), <1>1, BuiltFromCleanGroups
<1>3. /\ dropped' = [dropped EXCEPT ![j] = built.dropped]
      /\ seconds' = [seconds EXCEPT ![j] = built.seconds]
      /\ active' = [active EXCEPT ![j] = (@ \cup new) \ gone]
      /\ loops' = [i \in Ids |->
            IF i \in new THEN [NotStarted EXCEPT !.pc = "offset", !.hash = hash[i[2]]]
            ELSE IF i \in gone THEN [loops[i] EXCEPT !.stopped = TRUE]
            ELSE loops[i]]
  BY <1>0, Zenon DEF stop
<1>a. hash = [t \in built.actives |-> Hash(built, t)]
  BY Zenon
<1>b. /\ new = {<<j, t, run.number>> : t \in {u \in built.actives : hash[u] \notin known(j)}}
      /\ gone = inactive(j, {hash[t] : t \in built.actives})
  BY Zenon
<1> HIDE DEF built, hash, new, gone
<1>4. built.actives \subseteq Targets /\ built.dropped \subseteq Targets /\ built.seconds \in Nat
  BY Zenon, <1>2 DEF BuiltState
<1>5. ~HasParams => \A k \in Jobs : seconds[k] = 0
  BY DEF IInv, HashesAreStable
<1>6. ASSUME NEW t \in built.actives
      PROVE  hash[t] \in Hashes /\ hash[t][1] = t /\ (~HasParams => hash[t] = <<t, FALSE, 0>>)
  <2>1. HasParams \in BOOLEAN /\ t \in Targets /\ (t \in built.labelled) \in BOOLEAN
    BY AgentAssumption, <1>4
  <2>2. ~HasParams => t \notin built.labelled
    BY <1>2, <1>5
  <2>3. hash[t] = <<t, t \in built.labelled, IF HasParams THEN built.seconds ELSE 0>>
    BY <1>a, <1>6, Zenon DEF Hash
  <2> DEFINE l == t \in built.labelled
             n3 == IF HasParams THEN built.seconds ELSE 0
  <2>4. l \in BOOLEAN /\ n3 \in Nat /\ (~HasParams => l = FALSE /\ n3 = 0)
    BY <1>4, <2>1, <2>2
  <2>5. hash[t] = <<t, l, n3>>
    BY <2>3, Zenon
  <2> HIDE DEF l, n3
  <2>6. <<t, l, n3>> \in Hashes /\ <<t, l, n3>>[1] = t
    BY <2>1, <2>4 DEF Hashes
  <2>7. ~HasParams => <<t, l, n3>> = <<t, FALSE, 0>>
    BY Zenon, <2>4
  <2> QED
    BY Zenon, <2>5, <2>6, <2>7
<1>7. gone = {i \in active[j] : loops[i].hash \notin {hash[t] : t \in built.actives}}
  BY <1>b DEF inactive
<1>8. SyncEffect(j, built.actives, hash, new, gone)
  BY <1>b, <1>2, <1>3, <1>4, <1>6, <1>7, Zenon DEF SyncEffect
<1>9. dropped' \in [Jobs -> SUBSET Targets] /\ seconds' \in [Jobs -> Nat]
  BY Zenon, <1>3, <1>4 DEF IInv, TypeOK, GroupTypeOK
<1>10. ~HasParams => \A k \in Jobs : seconds'[k] = 0
  BY Zenon, <1>2, <1>3, <1>5 DEF IInv, TypeOK, GroupTypeOK
<1> QED
  BY <1>8, <1>9, <1>10

(* The loops before and after a sync: the new ones were not started        *)
(* before, and the ones that are gone are told to stop.                    *)
LEMMA SyncLoops ==
    ASSUME IInv, NEW j \in Jobs, run.pc = "lock", run.job = {j},
           NEW A, NEW H, NEW new, NEW gone, SyncEffect(j, A, H, new, gone)
    PROVE  /\ new \subseteq Ids /\ \A i \in new : i[1] = j /\ i[2] \in A /\ i[3] = run.number
           /\ \A i \in new : loops[i].pc = "none" /\ i \notin active[j]
           /\ gone \subseteq active[j] /\ \A i \in gone : loops[i].pc # "none"
           /\ active'[j] = (active[j] \cup new) \ gone
           /\ \A k \in Jobs : k # j => active'[k] = active[k]
           /\ active' \in [Jobs -> SUBSET Ids] /\ loops' \in [Ids -> LoopState]
           /\ \A i \in new : loops'[i].pc = "offset" /\ ~loops'[i].stopped /\ loops'[i].hash = H[i[2]]
           /\ \A i \in gone : loops'[i].pc = loops[i].pc /\ loops'[i].stopped /\ loops'[i].hash = loops[i].hash
           /\ \A i \in Ids : i \notin new \cup gone => loops'[i] = loops[i]
<1>1. active \in [Jobs -> SUBSET Ids] /\ loops \in [Ids -> LoopState]
  BY DEF IInv, TypeOK, GroupTypeOK
<1>2. run.number \in 1..MaxUpdates /\ j \in ToSync
  BY AgentAssumption DEF IInv, TypeOK, AgentTypeOK, RunState, UpdatesInOrder, ToSync
<1>3. A \subseteq Targets
  BY Zenon DEF SyncEffect
<1>4. new \subseteq Ids /\ \A i \in new : i[1] = j /\ i[2] \in A /\ i[3] = run.number
  <2>1. \A t \in A : <<j, t, run.number>> \in Ids
    BY <1>2, <1>3 DEF Ids
  <2>2. \A i \in new : \E t \in A : i = <<j, t, run.number>>
    BY Zenon DEF SyncEffect
  <2> QED
    BY <2>1, <2>2
<1>5. \A i \in active[j] : i \in Ids /\ i[1] = j
  BY <1>1 DEF IInv, LoopsOfTheGroup
<1>6. \A i \in active[j] : loops[i].pc # "none"
  BY <1>5 DEF IInv, ActiveAreScraped
<1>7. \A i \in new : loops[i].pc = "none"
  <2> SUFFICES ASSUME NEW i \in new, loops[i].pc # "none" PROVE FALSE
    OBVIOUS
  <2>1. i \in Ids /\ i[1] \in ToSync /\ i[3] = run.number
    BY Zenon, <1>2, <1>4
  <2>2. i[3] < run.number
    BY <2>1 DEF IInv, LoopsOfEarlierUpdates, Started
  <2> QED
    BY <1>2, <2>1, <2>2
<1>8. \A i \in new : i \notin active[j]
  BY <1>6, <1>7
<1>9. gone \subseteq active[j]
  BY Zenon DEF SyncEffect
<1>10. active' = [active EXCEPT ![j] = (@ \cup new) \ gone]
  BY Zenon DEF SyncEffect
<1>11. /\ active'[j] = (active[j] \cup new) \ gone /\ active' \in [Jobs -> SUBSET Ids]
       /\ \A k \in Jobs : k # j => active'[k] = active[k]
  BY <1>1, <1>4, <1>10
<1>12. \A i \in Ids : loops'[i] =
          IF i \in new THEN [NotStarted EXCEPT !.pc = "offset", !.hash = H[i[2]]]
          ELSE IF i \in gone THEN [loops[i] EXCEPT !.stopped = TRUE]
          ELSE loops[i]
  BY Zenon DEF SyncEffect
<1>13. DOMAIN loops' = Ids /\ loops' = [i \in Ids |-> loops'[i]]
  BY Zenon DEF SyncEffect
<1>14. ASSUME NEW i \in new
       PROVE  /\ loops'[i].pc = "offset" /\ ~loops'[i].stopped /\ loops'[i].hash = H[i[2]]
              /\ loops'[i] \in LoopState
  <2>1. loops'[i] = [NotStarted EXCEPT !.pc = "offset", !.hash = H[i[2]]]
    BY Zenon, <1>4, <1>12
  <2>2. H[i[2]] \in Hashes
    BY Zenon, <1>4 DEF SyncEffect
  <2> QED
    BY Zenon, <2>1, <2>2 DEF NotStarted, LoopState, Hashes
<1>15. ASSUME NEW i \in gone
       PROVE  /\ loops'[i].pc = loops[i].pc /\ loops'[i].stopped
              /\ loops'[i].hash = loops[i].hash /\ loops'[i] \in LoopState
  <2>1. i \in Ids /\ i \notin new
    BY <1>5, <1>8, <1>9
  <2>2. loops'[i] = [loops[i] EXCEPT !.stopped = TRUE] /\ loops[i] \in LoopState
    BY Zenon, <1>1, <1>12, <2>1
  <2> QED
    BY Zenon, <2>2 DEF LoopState
<1>16. \A i \in Ids : i \notin new \cup gone => loops'[i] = loops[i]
  BY Zenon, <1>12
<1>17. loops' \in [Ids -> LoopState]
  <2>1. \A i \in Ids : loops'[i] \in LoopState
    BY Zenon, <1>1, <1>14, <1>15, <1>16
  <2> QED
    BY Zenon, <1>13, <2>1
<1> QED
  BY <1>4, <1>6, <1>7, <1>8, <1>9, <1>11, <1>14, <1>15, <1>16, <1>17
(* sync leaves exactly the targets of the update active, one loop each.    *)
LEMMA SyncActive ==
    ASSUME IInv, NEW j \in Jobs, run.pc = "lock", run.job = {j},
           NEW A, NEW H, NEW new, NEW gone, SyncEffect(j, A, H, new, gone)
    PROVE  /\ {i[2] : i \in active'[j]} = InCleanGroups(run.sent[j])
           /\ \A a, b \in active'[j] : a[2] = b[2] => a = b
<1>1. /\ \A i \in new : i[1] = j /\ i[2] \in A /\ i[3] = run.number /\ i \in Ids
      /\ \A i \in new : i \notin active[j]
      /\ gone \subseteq active[j]
      /\ active'[j] = (active[j] \cup new) \ gone
  BY SMTT(30), SyncLoops
<1>2. /\ A = InCleanGroups(run.sent[j])
      /\ \A t \in A : H[t][1] = t
      /\ new = {<<j, t, run.number>> : t \in {u \in A : H[u] \notin known(j)}}
      /\ gone = {i \in active[j] : loops[i].hash \notin {H[t] : t \in A}}
  BY Zenon DEF SyncEffect
<1>3. \A i \in active[j] : i \in Ids /\ i[1] = j /\ loops[i].pc # "none"
  BY Zenon DEF IInv, TypeOK, GroupTypeOK, LoopsOfTheGroup, ActiveAreScraped
<1>4. \A i \in active[j] : loops[i].hash[1] = i[2]
  BY <1>3 DEF IInv, LoopsOfTheGroup, Started
<1>5. \A i \in active[j] \ gone : i[2] \in A /\ loops[i].hash = H[i[2]]
  BY SMTT(30), <1>2, <1>4
<1>6. ASSUME NEW i \in new
      PROVE  i = <<j, i[2], run.number>> /\ H[i[2]] \notin known(j)
  BY SMTT(30), <1>2
<1>7. \A t \in A : \E i \in active'[j] : i[2] = t
  <2> SUFFICES ASSUME NEW t \in A PROVE \E i \in active'[j] : i[2] = t
    OBVIOUS
  <2>1. CASE H[t] \notin known(j)
    <3> DEFINE i == <<j, t, run.number>>
    <3>1. i \in new /\ i[2] = t
      BY Zenon, <1>2, <2>1
    <3> HIDE DEF i
    <3> QED
      BY Zenon, <3>1, <1>1
  <2>2. CASE H[t] \in known(j)
    <3>1. PICK i \in active[j] : loops[i].hash = H[t]
      BY <2>2 DEF known
    <3>2. i \notin gone
      BY Zenon, <1>2, <3>1
    <3>3. i[2] = t
      BY Zenon, <1>2, <1>4, <3>1
    <3> QED
      BY Zenon, <1>1, <3>2, <3>3
  <2> QED
    BY <2>1, <2>2
<1>8. \A i \in active'[j] : i[2] \in A
  BY Zenon, <1>1, <1>5
<1>9. {i[2] : i \in active'[j]} = InCleanGroups(run.sent[j])
  BY <1>2, <1>7, <1>8
<1>10. ASSUME NEW a \in active'[j], NEW b \in active'[j], a[2] = b[2]
       PROVE  a = b
  <2>1. CASE a \in new /\ b \in new
    BY <2>1, <1>6, <1>10
  <2>2. CASE a \notin new /\ b \notin new
    <3>1. a \in active[j] /\ b \in active[j]
      BY <2>2, <1>1
    <3> QED
      BY <3>1, <1>10 DEF IInv, SyncedGroups
  <2>3. ASSUME NEW x \in new, NEW y \in active'[j], y \notin new, x[2] = y[2]
        PROVE  FALSE
    <3>1. y \in active[j] \ gone
      BY Zenon, <2>3, <1>1
    <3>2. loops[y].hash = H[x[2]]
      BY Zenon, <3>1, <2>3, <1>5
    <3>3. H[x[2]] \in known(j)
      BY <3>1, <3>2 DEF known
    <3> QED
      BY Zenon, <3>3, <1>6
  <2> QED
    BY Zenon, <2>1, <2>2, <2>3, <1>10
<1> QED
  BY Zenon, <1>9, <1>10

(* A sync keeps the invariant: it stops the loops of the targets that are  *)
(* gone, starts those of the new ones and leaves the others.               *)
LEMMA SyncIInv ==
    ASSUME IInv, NEW j \in Jobs, Sync(j)
    PROVE  IInv'
<1>1. PICK A, H, new, gone : SyncEffect(j, A, H, new, gone)
  BY SyncDoes
<1>2. run.pc = "lock" /\ run.job = {j} /\ run \in RunState
  BY Zenon DEF Sync, IInv, TypeOK, AgentTypeOK
<1>3. /\ run' = [run EXCEPT !.pc = "next"]
      /\ UNCHANGED <<sd, updates, pending, groups, readers, gets, ctxDone>>
  BY Zenon DEF Sync
<1>4. /\ run' \in RunState /\ run'.pc = "next" /\ run'.sent = run.sent
      /\ run'.number = run.number /\ run'.todo = run.todo
  BY Zenon, <1>2, <1>3 DEF RunState
<1>5. /\ new \subseteq Ids /\ \A i \in new : i[1] = j /\ i[2] \in A /\ i[3] = run.number
      /\ \A i \in new : loops[i].pc = "none" /\ i \notin active[j]
      /\ gone \subseteq active[j] /\ \A i \in gone : loops[i].pc # "none"
      /\ active'[j] = (active[j] \cup new) \ gone
      /\ \A k \in Jobs : k # j => active'[k] = active[k]
      /\ active' \in [Jobs -> SUBSET Ids] /\ loops' \in [Ids -> LoopState]
      /\ \A i \in new : loops'[i].pc = "offset" /\ ~loops'[i].stopped /\ loops'[i].hash = H[i[2]]
      /\ \A i \in gone : loops'[i].pc = loops[i].pc /\ loops'[i].stopped /\ loops'[i].hash = loops[i].hash
      /\ \A i \in Ids : i \notin new \cup gone => loops'[i] = loops[i]
  BY SMTT(30), <1>1, <1>2, SyncLoops
<1>5a. \A t \in A : H[t] \in Hashes /\ H[t][1] = t /\ (~HasParams => H[t] = <<t, FALSE, 0>>)
  BY <1>1, Zenon DEF SyncEffect
<1>6. \A i \in active[j] : i \in Ids /\ i[1] = j
  BY DEF IInv, TypeOK, GroupTypeOK, LoopsOfTheGroup
<1>7. ToSync = run.todo \cup {j} /\ ToSync' = run.todo /\ j \notin run.todo
  BY <1>2, <1>4 DEF ToSync, IInv, UpdatesInOrder
<1>8. TypeOK'
  <2>1. AgentTypeOK'
    BY Zenon, <1>3, <1>4 DEF IInv, TypeOK, AgentTypeOK
  <2>2. GroupTypeOK'
    <3>1. dropped' \in [Jobs -> SUBSET Targets] /\ seconds' \in [Jobs -> Nat]
      BY SyncDoes
    <3> QED
      BY <1>5, <3>1 DEF GroupTypeOK, Ids
  <2>3. RequestTypeOK'
    BY <1>3 DEF IInv, TypeOK, RequestTypeOK
  <2> QED
    BY Zenon, <2>1, <2>2, <2>3 DEF TypeOK
<1>9. UpdatesInOrder'
  BY <1>2, <1>3, <1>4 DEF IInv, UpdatesInOrder
<1>10. LoopsOfEarlierUpdates'
  <2> SUFFICES ASSUME NEW i \in Ids, loops'[i].pc # "none"
               PROVE  i[3] <= run.number /\ (i[1] \in run.todo => i[3] < run.number)
    BY Zenon, <1>4, <1>7 DEF LoopsOfEarlierUpdates, Started, Ids
  <2>1. CASE i \in new
    BY <2>1, <1>2, <1>5, <1>7 DEF RunState
  <2>2. CASE i \notin new
    <3>1. loops[i].pc # "none"
      BY <2>2, <1>5
    <3> QED
      BY Zenon, <3>1, <1>7 DEF IInv, LoopsOfEarlierUpdates, Started
  <2> QED
    BY <2>1, <2>2
<1>11. LoopsOfTheGroup'
  <2>1. \A k \in Jobs : \A i \in active'[k] : i[1] = k
    BY SMTT(30), <1>5, <1>6 DEF IInv, LoopsOfTheGroup
  <2>2. ASSUME NEW i \in Ids, loops'[i].pc # "none"
        PROVE  loops'[i].hash \in Hashes /\ loops'[i].hash[1] = i[2]
    <3>1. CASE i \in new
      <4>1. loops'[i].hash = H[i[2]] /\ i[2] \in A
        BY <3>1, <1>5
      <4> QED
        BY Zenon, <4>1, <1>5a
    <3>2. CASE i \notin new
      <4>1. loops[i].pc # "none" /\ loops'[i].hash = loops[i].hash
        BY Zenon, <3>2, <2>2, <1>5
      <4> QED
        BY <4>1 DEF IInv, LoopsOfTheGroup, Started, Hashes
    <3> QED
      BY <3>1, <3>2
  <2> QED
    BY Zenon, <2>1, <2>2 DEF LoopsOfTheGroup, Started, Hashes, Ids
<1>12. ActiveAreScraped'
  <2> SUFFICES ASSUME NEW i \in Ids
               PROVE  i \in active'[i[1]] <=> loops'[i].pc # "none" /\ ~loops'[i].stopped
    BY DEF ActiveAreScraped, Ids
  <2>0. i[1] \in Jobs
    BY Zenon DEF Ids
  <2>1. CASE i \in new
    <3>1. i[1] = j /\ i \in active'[j]
      BY Zenon, <2>1, <1>5
    <3>2. loops'[i].pc # "none" /\ ~loops'[i].stopped
      BY <2>1, <1>5
    <3> QED
      BY Zenon, <3>1, <3>2
  <2>2. CASE i \in gone
    <3>1. i[1] = j /\ i \notin active'[j]
      BY Zenon, <2>2, <1>5, <1>6
    <3>2. loops'[i].stopped
      BY Zenon, <2>2, <1>5
    <3> QED
      BY Zenon, <3>1, <3>2
  <2>3. CASE i \notin new \cup gone
    <3>1. i \in active'[i[1]] <=> i \in active[i[1]]
      BY Zenon, <2>0, <2>3, <1>5
    <3>2. loops'[i] = loops[i]
      BY <2>3, <1>5
    <3>3. i \in active[i[1]] <=> loops[i].pc # "none" /\ ~loops[i].stopped
      BY DEF IInv, ActiveAreScraped
    <3> QED
      BY <3>1, <3>2, <3>3
  <2> QED
    BY Zenon, <2>1, <2>2, <2>3
<1>13. SyncedGroups'
  <2>1. /\ {i[2] : i \in active'[j]} = InCleanGroups(run.sent[j])
        /\ \A a, b \in active'[j] : a[2] = b[2] => a = b
    BY <1>1, <1>2, SyncActive
  <2>2. ASSUME NEW k \in Jobs, k # j
        PROVE  /\ \A a, b \in active'[k] : a[2] = b[2] => a = b
               /\ k \notin run.todo => {i[2] : i \in active'[k]} = InCleanGroups(run.sent[k])
    BY Zenon, <2>2, <1>2, <1>5, <1>7 DEF IInv, SyncedGroups
  <2> QED
    BY SMTT(30), <2>1, <2>2, <1>4, <1>7 DEF SyncedGroups, InCleanGroups
<1>14. HashesAreStable'
  <2> SUFFICES ASSUME ~HasParams
               PROVE  /\ \A k \in Jobs : seconds'[k] = 0
                      /\ \A i \in Ids : loops'[i].pc # "none" => loops'[i].hash = <<i[2], FALSE, 0>>
    BY Zenon DEF HashesAreStable, Started, Ids
  <2>1. \A k \in Jobs : seconds'[k] = 0
    BY SyncDoes
  <2>2. ASSUME NEW i \in Ids, loops'[i].pc # "none"
        PROVE  loops'[i].hash = <<i[2], FALSE, 0>>
    <3>1. CASE i \in new
      <4>1. loops'[i].hash = H[i[2]] /\ i[2] \in A
        BY <3>1, <1>5
      <4> QED
        BY Zenon, <4>1, <1>5a
    <3>2. CASE i \notin new
      <4>1. loops[i].pc # "none" /\ loops'[i].hash = loops[i].hash
        BY <3>2, <2>2, <1>5
      <4> QED
        BY Zenon, <4>1 DEF IInv, HashesAreStable, Started
    <3> QED
      BY Zenon, <3>1, <3>2
  <2> QED
    BY Zenon, <2>1, <2>2
<1> QED
  BY Zenon, <1>8, <1>9, <1>10, <1>11, <1>12, <1>13, <1>14 DEF IInv
-----------------------------------------------------------------------------
(* The theorems *)

(* An agent that has not heard of discovery yet.                           *)
LEMMA InitIInv == Init => IInv
<1> SUFFICES ASSUME Init PROVE IInv
  OBVIOUS
<1>1. sd \in [Jobs -> SUBSET Targets] /\ \A j \in Jobs : sd[j] = {}
  BY DEF Init
<1>2. run \in RunState
  <2>1. run = [pc |-> "select", todo |-> {}, job |-> {}, sent |-> sd, number |-> 0]
    BY DEF Init
  <2> QED
    BY <1>1, <2>1, AgentAssumption DEF RunState
<1>3. run.pc = "select" /\ run.number = 0 /\ run.sent = sd
  BY DEF Init
<1>4. AgentTypeOK
  <2>1. updates = 0 /\ pending = FALSE /\ ctxDone = FALSE
    BY DEF Init
  <2>2. updates \in 0..MaxUpdates
    BY <2>1, AgentAssumption
  <2> QED
    BY Zenon, <1>1, <1>2, <2>1, <2>2 DEF AgentTypeOK
<1>5. loops \in [Ids -> LoopState] /\ \A i \in Ids : loops[i].pc = "none"
  <2>1. NotStarted \in LoopState /\ NotStarted.pc = "none"
    BY DEF NotStarted, LoopState
  <2> QED
    BY <2>1 DEF Init
<1>6. GroupTypeOK
  BY <1>5 DEF Init, GroupTypeOK
<1>7. RequestTypeOK
  <2>1. NoGet \in GetState
    BY DEF NoGet, GetState
  <2> QED
    BY Zenon, <2>1 DEF Init, RequestTypeOK
<1>8. UpdatesInOrder
  BY <1>3 DEF Init, UpdatesInOrder
<1>9. LoopsOfEarlierUpdates /\ LoopsOfTheGroup
  BY <1>5 DEF Init, LoopsOfEarlierUpdates, LoopsOfTheGroup, Started
<1>10. ActiveAreScraped
  BY Zenon, <1>5 DEF Init, ActiveAreScraped, Ids
<1>11. SyncedGroups
  BY <1>1, <1>3 DEF Init, SyncedGroups, InCleanGroups
<1>12. HashesAreStable
  BY Zenon, <1>5 DEF Init, HashesAreStable, Started
<1> QED
  BY Zenon, <1>4, <1>6, <1>7, <1>8, <1>9, <1>10, <1>11, <1>12 DEF IInv, TypeOK

(* Every step of the agent.                                                *)
LEMMA NextIInv ==
    ASSUME IInv, [Next]_vars
    PROVE  IInv'
BY Zenon, OutsideIInv, LoopIInv, ReceiveIInv, NextJobIInv, SyncIInv, ReturnIInv DEF Next, Running

(* The inductive invariant: the types, updates that are handled in order   *)
(* and loops that are older than the update a group still waits for.       *)
THEOREM AgentInvariant == Spec => []IInv
BY InitIInv, NextIInv, PTL DEF Spec

(* The loops that were started and not told to stop are those of the       *)
(* targets in activeTargets, across all syncs, requests and the shutdown.  *)
THEOREM LoopsAreActive == Spec => []ActiveAreScraped
<1>1. IInv => ActiveAreScraped
  BY Zenon DEF IInv
<1> QED
  BY <1>1, AgentInvariant, PTL

(* No target has two loops.  When running is back at its select the active *)
(* targets are valid and in the update, and none is missing that shares    *)
(* its group with valid targets only.                                      *)
THEOREM SyncIsExact == Spec => []ActiveAreDiscovered
<1>1. IInv => ActiveAreDiscovered
  <2>1. run.pc = "select" => ToSync = {}
    BY DEF ToSync
  <2> SUFFICES ASSUME IInv PROVE ActiveAreDiscovered
    OBVIOUS
  <2>2. \A j \in Jobs :
            InCleanGroups(run.sent[j]) \subseteq run.sent[j] \ (Dropped \cup Invalid)
    BY Zenon DEF InCleanGroups
  <2>3. run.pc = "select" =>
            \A j \in Jobs : {i[2] : i \in active[j]} = InCleanGroups(run.sent[j])
    BY <2>1 DEF IInv, SyncedGroups
  <2>4. \A j \in Jobs : \A a, b \in active[j] : a[2] = b[2] => a = b
    BY Zenon DEF IInv, SyncedGroups
  <2>5. ASSUME run.pc = "select", NEW j \in Jobs
        PROVE  /\ InCleanGroups(run.sent[j]) \subseteq {i[2] : i \in active[j]}
               /\ {i[2] : i \in active[j]} \subseteq run.sent[j] \ (Dropped \cup Invalid)
    <3> DEFINE A == {i[2] : i \in active[j]}
    <3>1. A = InCleanGroups(run.sent[j])
      BY Zenon, <2>3, <2>5
    <3> HIDE DEF A
    <3>2. InCleanGroups(run.sent[j]) \subseteq A
          /\ A \subseteq run.sent[j] \ (Dropped \cup Invalid)
      BY Zenon, <2>2, <3>1
    <3> QED
      BY Zenon, <3>2 DEF A
  <2> QED
    BY Zenon, <2>4, <2>5 DEF ActiveAreDiscovered
<1> QED
  BY <1>1, AgentInvariant, PTL

(* With no params in the scrape config a step that leaves a target active  *)
(* leaves its loop alone: sync finds the same hash again.                  *)
THEOREM FoundAgainIsKept ==
    ASSUME ~HasParams
    PROVE  Spec => KeptTargetsKeepTheirLoop
<1> DEFINE Keeps == \A j \in Jobs : \A i \in active[j] :
                        (\E k \in active'[j] : k[2] = i[2]) => i \in active'[j]
<1>1. ASSUME IInv, [Next]_vars
      PROVE  Keeps
  <2>1. CASE UNCHANGED active
    BY <2>1
  <2>2. ASSUME NEW j \in Jobs, Sync(j)
        PROVE  Keeps
    <3>1. PICK A, H, new, gone : SyncEffect(j, A, H, new, gone)
      BY <1>1, <2>2, SyncDoes
    <3>2. run.pc = "lock" /\ run.job = {j}
      BY Zenon, <2>2 DEF Sync
    <3>3. /\ \A i \in new : i[2] \in A
          /\ active'[j] = (active[j] \cup new) \ gone
          /\ \A l \in Jobs : l # j => active'[l] = active[l]
      BY SMTT(30), <1>1, <3>1, <3>2, SyncLoops
    <3>4. /\ \A t \in A : H[t] = <<t, FALSE, 0>>
          /\ new = {<<j, t, run.number>> : t \in {u \in A : H[u] \notin known(j)}}
      BY Zenon, <3>1 DEF SyncEffect
    <3>5. ASSUME NEW i \in active[j], NEW k \in active'[j], k[2] = i[2]
          PROVE  i \in active'[j]
      <4>1. i \in Ids /\ loops[i].pc # "none"
        BY <1>1 DEF IInv, TypeOK, GroupTypeOK, LoopsOfTheGroup, ActiveAreScraped
      <4>2. loops[i].hash = <<i[2], FALSE, 0>>
        BY Zenon, <1>1, <4>1 DEF IInv, HashesAreStable, Started
      <4>3. <<i[2], FALSE, 0>> \in known(j)
        BY Zenon, <4>2 DEF known
      <4>4. k \notin new
        <5> SUFFICES ASSUME k \in new PROVE FALSE
          OBVIOUS
        <5>1. H[k[2]] \notin known(j) /\ k[2] \in A
          BY SMTT(30), <3>3, <3>4
        <5> QED
          BY Zenon, <5>1, <3>4, <3>5, <4>3
      <4>5. k \in active[j]
        BY Zenon, <3>3, <4>4
      <4>6. k = i
        BY <1>1, <3>5, <4>5 DEF IInv, SyncedGroups
      <4> QED
        BY Zenon, <4>6
    <3> QED
      BY <3>3, <3>5
  <2>3. ~(\E j \in Jobs : Sync(j)) => UNCHANGED active
    BY Zenon, <1>1 DEF Next, Running, Discover, Receive, NextJob, Return, StopService, Finished, vars,
                Scraping, Offset, Tick, Check, Fetch, Push, LoopGoes, GetTargets, ReadGroup,
                GroupsRead, GetsGo
  <2> QED
    BY Zenon, <2>1, <2>2, <2>3
<1>2. IInv /\ [Next]_vars => [Keeps]_vars
  BY <1>1
<1> QED
  BY <1>2, AgentInvariant, PTL DEF Spec, KeptTargetsKeepTheirLoop
=============================================================================

------------------------- MODULE ElasticsearchCluster --------------------------
(***************************************************************************)
(* The Elasticsearch controller (pkg/controllers/elasticsearch) with its   *)
(* actions CreateNodePool, UpdateVersion and Scale, against the API server,*)
(* the StatefulSet controller and the pilots, which post the documents and *)
(* the version of their nodes and, as leader, the health of the cluster.   *)
(*                                                                         *)
(* The controller reads caches of any age.  An update carries the contents *)
(* it was computed from and is refused when the stored object differs.     *)
(* Versions are numbers, with 0 for none; an image is the version it runs. *)
(***************************************************************************)
EXTENDS Integers, Sequences, FiniteSets, FiniteSetsExt

CONSTANTS NumPools,      \* pools that Spec.NodePools may name, in its order
          ConfigMaps,    \* the names of their ConfigMaps
          MaxReplicas,   \* largest replica count of a pool
          MaxVersion,    \* versions of Elasticsearch
          DataPools,     \* pools whose nodes hold documents
          MasterPools,   \* pools whose nodes are eligible as master
          Edits,         \* pairs of specs: what users change, and into what
          Scenarios      \* how to start: the spec of a cluster that has all its
                         \* nodes, the owners of its other resources, whether
                         \* somebody labels its Pilots with their pool, which
                         \* PilotForPod does not, and bounds on edits, changes
                         \* of health and failing API calls

Pools    == 1 .. NumPools
Ordinals == 0 .. (MaxReplicas - 1)

VARIABLES
  cluster, cCluster,  \* the ElasticsearchCluster and its informer cache
  sets, cSets,        \* its StatefulSets and their cache, by pool
  objs, cObjs,        \* owners of the other resources, and their caches
  pilots, cPilots,    \* the Pilots and their cache, by pool and ordinal
  pods,               \* the pods, by pool and ordinal, and (history) whether
                      \* the pilot of the pod has posted its version
  docs,               \* the ordinals of each pool that hold documents
  podEvents,          \* pools with a change of a pod still to be delivered
  queued,             \* the cluster's key is in the workqueue
  pc,                 \* the step of the sync in progress, or "idle"
  c,                  \* the copy of the cluster the sync works on
  act,                \* the Action that nextAction chose, and its pool
  syncErr,            \* control.Sync returned an error
  labelled,           \* the Pilots carry the labels of their pool
  budget              \* edits, changes of health and errors still to come

apiVars   == <<cluster, sets, objs, pilots>>
cacheVars == <<cCluster, cSets, cObjs, cPilots>>
nodeVars  == <<pods, docs>>
syncVars  == <<queued, pc, c, act, syncErr>>
vars      == <<apiVars, cacheVars, nodeVars, syncVars, podEvents, labelled,
               budget>>

Shared     == <<"serviceAccount", "discovery", "client", "role",
                "roleBinding">>

\* The resources that Sync makes sure of, in the order it does.
Ensured    == [n \in 1 .. (5 + NumPools) |->
                 IF n <= 5 THEN Shared[n] ELSE ConfigMaps[n - 5]]
Resources  == {Ensured[n] : n \in DOMAIN Ensured}
Owners     == {"none", "this", "other"}

Unknown    == -1     \* Documents is nil
NoPod      == [image |-> 0, ready |-> FALSE, posted |-> FALSE]
NoPilot    == [exists |-> FALSE, ver |-> 0, docs |-> Unknown, orphan |-> FALSE]
NewPilot   == [NoPilot EXCEPT !.exists = TRUE]
NoSet      == [replicas |-> 0, partition |-> 0, image |-> 0, annot |-> 0,
               current |-> 0, updated |-> 0, ready |-> 0]
NoAction   == [kind |-> "reconcile", pool |-> 0]
NoSpec     == [pools |-> {}, replicas |-> [p \in Pools |-> 0], version |-> 0,
               paused |-> FALSE]
NoCluster  == [spec |-> NoSpec, cond |-> "none", health |-> "none"]
Budget     == [edits: Nat, moves: Nat, errors: Nat]
Specs      == {s.spec : s \in Scenarios} \cup {e[1] : e \in Edits}
                \cup {e[2] : e \in Edits}

ClusterType == [spec: Specs,
                cond: {"none", "Paused", "Resumed"},
                health: {"none", "Red", "Green"}]
SetType     == [replicas: 0 .. MaxReplicas, partition: Ordinals,
                image: 0 .. MaxVersion, annot: 0 .. MaxVersion,
                current: 0 .. MaxVersion, updated: 0 .. MaxReplicas,
                ready: 0 .. MaxReplicas]
PilotType   == [exists: BOOLEAN, ver: 0 .. MaxVersion,
                docs: {Unknown, 0, 1}, orphan: BOOLEAN]

\* The conditions under which ValidateElasticsearchCluster lets a spec in that
\* these properties depend on.
Valid(spec) ==
  /\ \A p \in spec.pools : spec.replicas[p] >= 0
  /\ \E p \in spec.pools \cap MasterPools : spec.replicas[p] > 0

ASSUME ElasticsearchAssumption ==
  /\ NumPools \in Nat \ {0} /\ MaxReplicas \in Nat \ {0}
  /\ \A p \in Pools :
       /\ ConfigMaps[p] \notin {"idle", "next", "execute", "status"}
       /\ \A n \in 1 .. Len(Shared) : ConfigMaps[p] # Shared[n]
       /\ \A q \in Pools : ConfigMaps[p] = ConfigMaps[q] => p = q
  /\ MaxVersion \in Nat \ {0}
  /\ DataPools \subseteq Pools /\ MasterPools \subseteq Pools
  /\ \A r \in Specs :
       r \in [pools: SUBSET Pools, replicas: [Pools -> 0 .. MaxReplicas],
              version: 1 .. MaxVersion, paused: BOOLEAN]
  /\ \A r \in Specs : Valid(r)
  /\ \A s \in Scenarios :
       s \in [spec: Specs, objs: [Resources -> Owners], labelled: BOOLEAN,
              budget: Budget]

TypeOK ==
  /\ cluster \in ClusterType /\ cCluster \in ClusterType
  /\ c \in ClusterType \cup {NoCluster} /\ (pc = "idle" <=> c = NoCluster)
  /\ sets \in [Pools -> SetType] /\ cSets \in [Pools -> SetType]
  /\ objs \in [Resources -> Owners] /\ cObjs \in [Resources -> Owners]
  /\ pilots \in [Pools -> [Ordinals -> PilotType]]
  /\ cPilots \in [Pools -> [Ordinals -> PilotType]]
  /\ pods \in [Pools -> [Ordinals -> [image: 0 .. MaxVersion,
                                      ready: BOOLEAN, posted: BOOLEAN]]]
  /\ docs \in [Pools -> SUBSET Ordinals]
  /\ podEvents \subseteq Pools /\ queued \in BOOLEAN /\ syncErr \in BOOLEAN
  /\ pc \in {"idle", "next", "execute", "status"} \cup Resources
  /\ act \in [kind: {"create", "update", "scale", "reconcile"},
              pool: 0 .. NumPools]

-----------------------------------------------------------------------------
(* A cluster that has all its nodes, a controller that has just started.   *)

NodesOf(spec, p) == IF p \in spec.pools THEN 0 .. (spec.replicas[p] - 1) ELSE {}

\* nodePoolStatefulSet, with the version in its annotation.
NewSet(spec, p) ==
  [NoSet EXCEPT !.replicas = spec.replicas[p], !.image = spec.version,
                !.annot = spec.version, !.current = spec.version]

InitialSet(spec, p) ==
  IF p \in spec.pools
  THEN [NewSet(spec, p) EXCEPT !.ready = spec.replicas[p]] ELSE NoSet

\* What a Pilot posts of documents; those of other pools are not looked at.
Holds(p, i, d) == IF p \notin DataPools THEN Unknown
                  ELSE IF i \in d[p] THEN 1 ELSE 0

InitialPod(spec, p, i) ==
  IF i \in NodesOf(spec, p)
  THEN [image |-> spec.version, ready |-> TRUE, posted |-> TRUE] ELSE NoPod

InitialPilot(spec, p, i, d) ==
  IF i \in NodesOf(spec, p)
  THEN [NewPilot EXCEPT !.ver = spec.version, !.docs = Holds(p, i, d)]
  ELSE NoPilot

InitialDocs(spec, p) == IF p \in DataPools THEN NodesOf(spec, p) ELSE {}

Init ==
  \E s \in Scenarios :
    /\ cluster = [spec |-> s.spec, cond |-> "none", health |-> "Green"]
    /\ sets = [p \in Pools |-> InitialSet(s.spec, p)]
    /\ pods = [p \in Pools |-> [i \in Ordinals |-> InitialPod(s.spec, p, i)]]
    /\ docs = [p \in Pools |-> InitialDocs(s.spec, p)]
    /\ pilots = [p \in Pools |->
                   [i \in Ordinals |-> InitialPilot(s.spec, p, i, docs)]]
    /\ objs = s.objs
    /\ cCluster = cluster /\ cSets = sets /\ cObjs = objs /\ cPilots = pilots
    /\ podEvents = {}
    /\ queued = TRUE /\ pc = "idle" /\ c = NoCluster
    /\ act = NoAction /\ syncErr = FALSE
    /\ labelled = s.labelled
    /\ budget = s.budget

-----------------------------------------------------------------------------
(* Users.                                                                  *)

EditSpec(spec) ==
  /\ budget.edits > 0
  /\ <<cluster.spec, spec>> \in Edits
  /\ cluster' = [cluster EXCEPT !.spec = spec]
  /\ budget' = [budget EXCEPT !.edits = @ - 1]
  /\ UNCHANGED <<sets, objs, pilots, cacheVars, nodeVars, syncVars, podEvents,
                 labelled>>

-----------------------------------------------------------------------------
(* The StatefulSet controller and the kubelet.                             *)

\* A pod below the partition is created at the revision before the update.
Revision(p, i) == IF i < sets[p].partition THEN sets[p].current
                                           ELSE sets[p].image

CreatePod(p, i) ==
  /\ i < sets[p].replicas /\ pods[p][i] = NoPod
  /\ pods' = [pods EXCEPT ![p][i].image = Revision(p, i)]
  /\ podEvents' = podEvents \cup {p}
  /\ UNCHANGED <<apiVars, cacheVars, docs, syncVars, labelled, budget>>

\* The Pilot of a pod that goes is left to the garbage collector.
EndPod(p, i) ==
  /\ pods[p][i] # NoPod
  /\ pods' = [pods EXCEPT ![p][i] = NoPod]
  /\ pilots' = [pilots EXCEPT ![p][i].orphan = pilots[p][i].exists]
  /\ podEvents' = podEvents \cup {p}
  /\ UNCHANGED <<cluster, sets, objs, cacheVars, docs, syncVars, labelled,
                 budget>>

RemovePod(p, i) == i >= sets[p].replicas /\ EndPod(p, i)

\* The rolling update replaces the highest pod that is not at the new revision,
\* once the ones above it are ready, and none below the partition.
RollPod(p, i) ==
  LET s == sets[p] IN
  /\ i \in s.partition .. (s.replicas - 1)
  /\ pods[p][i].image # s.image
  /\ \A j \in (i + 1) .. (s.replicas - 1) :
       pods[p][j].image = s.image /\ pods[p][j].ready
  /\ EndPod(p, i)

PodReady(p, i) ==
  /\ pods[p][i] # NoPod /\ ~pods[p][i].ready
  /\ pods' = [pods EXCEPT ![p][i].ready = TRUE]
  /\ podEvents' = podEvents \cup {p}
  /\ UNCHANGED <<apiVars, cacheVars, docs, syncVars, labelled, budget>>

\* Pods at the new revision are counted only while it is not the current one,
\* which it becomes when every pod has it and is ready.
Live(p)    == {i \in Ordinals : pods[p][i] # NoPod}
Ready(p)   == {i \in Live(p) : pods[p][i].ready}
Updated(p) == {i \in Live(p) : /\ sets[p].image # sets[p].current
                               /\ pods[p][i].image = sets[p].image}

StatusNow(p) ==
  [sets[p] EXCEPT !.ready = Cardinality(Ready(p)),
                  !.updated = Cardinality(Updated(p)),
                  !.current = IF Updated(p) = Live(p) /\ Ready(p) = Live(p)
                              THEN sets[p].image ELSE @]

SetStatus(p) ==
  /\ sets[p] # NoSet /\ StatusNow(p) # sets[p]
  /\ sets' = [sets EXCEPT ![p] = StatusNow(p)]
  /\ UNCHANGED <<cluster, objs, pilots, cacheVars, nodeVars, syncVars,
                 podEvents, labelled, budget>>

-----------------------------------------------------------------------------
(* The pilots and the pilot controller.                                    *)

SetPilot(p, i, v) ==
  /\ pilots' = [pilots EXCEPT ![p][i] = v]
  /\ UNCHANGED <<cluster, sets, objs, cacheVars, docs, syncVars, podEvents,
                 labelled, budget>>

PilotCreated(p, i) ==
  /\ pods[p][i] # NoPod /\ ~pilots[p][i].exists
  /\ SetPilot(p, i, NewPilot) /\ UNCHANGED pods

PilotCollected(p, i) ==
  /\ pilots[p][i].orphan
  /\ SetPilot(p, i, NoPilot) /\ UNCHANGED pods

\* syncFunc asks Elasticsearch for the statistics and for the version of its
\* node, and may get either, both or none.  Documents is unknown without the
\* statistics, the version stays, and the status is written in any case.
PilotPosts(p, i, stats, info) ==
  LET pod == pods[p][i]
      old == pilots[p][i]
      v   == [old EXCEPT !.docs = IF stats THEN Holds(p, i, docs) ELSE Unknown,
                         !.ver = IF info THEN pod.image ELSE @]
  IN
  /\ pod # NoPod /\ old.exists /\ (stats \/ info => pod.ready)
  /\ v # old \/ (info /\ ~pod.posted)
  /\ SetPilot(p, i, v)
  /\ pods' = [pods EXCEPT ![p][i].posted = @ \/ info]

\* The leader's UpdateStatus, with a copy that is not refused.
LeaderPosts(h) ==
  /\ budget.moves > 0 /\ h # cluster.health
  /\ cluster' = [cluster EXCEPT !.health = h]
  /\ budget' = [budget EXCEPT !.moves = @ - 1]
  /\ UNCHANGED <<sets, objs, pilots, cacheVars, nodeVars, syncVars, podEvents,
                 labelled>>

\* Elasticsearch moves the documents of a node away.
Drain(p, i) ==
  /\ i \in docs[p]
  /\ docs' = [docs EXCEPT ![p] = @ \ {i}]
  /\ UNCHANGED <<apiVars, cacheVars, pods, syncVars, podEvents, labelled,
                 budget>>

-----------------------------------------------------------------------------
(* The informers.  A Pilot is controlled by its Pod, and handleObject       *)
(* ignores an object that no ElasticsearchCluster controls.                 *)

ObserveCluster ==
  /\ cCluster # cluster
  /\ cCluster' = cluster
  /\ queued' = TRUE
  /\ UNCHANGED <<apiVars, cSets, cObjs, cPilots, nodeVars, pc, c, act, syncErr,
                 podEvents, labelled, budget>>

ObserveSet(p) ==
  /\ cSets[p] # sets[p]
  /\ cSets' = [cSets EXCEPT ![p] = sets[p]]
  /\ queued' = TRUE
  /\ UNCHANGED <<apiVars, cCluster, cObjs, cPilots, nodeVars, pc, c, act,
                 syncErr, podEvents, labelled, budget>>

ObserveObj(r) ==
  /\ cObjs[r] # objs[r]
  /\ cObjs' = [cObjs EXCEPT ![r] = objs[r]]
  /\ queued' = TRUE
  /\ UNCHANGED <<apiVars, cCluster, cSets, cPilots, nodeVars, pc, c, act,
                 syncErr, podEvents, labelled, budget>>

\* The owner of a Pilot is of no concern to the controller.
Seen(v) == [v EXCEPT !.orphan = FALSE]

ObservePilot(p, i) ==
  /\ cPilots[p][i] # Seen(pilots[p][i])
  /\ cPilots' = [cPilots EXCEPT ![p][i] = Seen(pilots[p][i])]
  /\ UNCHANGED <<apiVars, cCluster, cSets, cObjs, nodeVars, syncVars,
                 podEvents, labelled, budget>>

\* handlePodObject looks the StatefulSet of the pod up.
ObservePod(p) ==
  /\ p \in podEvents
  /\ podEvents' = podEvents \ {p}
  /\ queued' = (queued \/ cSets[p] # NoSet)
  /\ UNCHANGED <<apiVars, cacheVars, nodeVars, pc, c, act, syncErr, labelled,
                 budget>>

-----------------------------------------------------------------------------
(* The worker.                                                             *)

\* Mutant: a cluster that goes on still shows as paused.
SyncPausedConditionsOnce(k) ==
  [k EXCEPT !.cond = IF k.spec.paused THEN "Paused" ELSE @]

\* The status a sync returns.  Its NodePools stays empty: the deferred
\* updateClusterStatus fills a map that the returned copy does not have.
SyncPausedConditions(k) ==
  [k EXCEPT !.cond = IF k.spec.paused THEN "Paused"
                     ELSE IF @ = "Paused" THEN "Resumed" ELSE @]

\* The service account is looked up by label, the others by name.
Found(r) == cObjs[r] = "this" \/ (cObjs[r] = "other" /\ r # "serviceAccount")

\* ownerCheck, of roles and role bindings only.
Foreign(r) == r \in {"role", "roleBinding"} /\ cObjs[r] = "other"

\* A config map is ensured for the pools of the spec only.
Wanted(n, k) == n > Len(Shared) => (n - Len(Shared)) \in k.spec.pools

Passed(n, k) == Wanted(n, k) => Found(Ensured[n]) /\ ~Foreign(Ensured[n])

\* The step of Sync after the first m resources: the next resource that calls
\* for more than a look into a cache, or nextAction.  What is there stays.
StepAfter(m, k) ==
  LET todo == {n \in DOMAIN Ensured : n > m /\ ~Passed(n, k)}
  IN IF todo = {} THEN "next" ELSE Ensured[Min(todo)]

BeginSync ==
  /\ pc = "idle" /\ queued
  /\ queued' = FALSE
  /\ c' = cCluster
  /\ pc' = IF cCluster.spec.paused THEN "status" ELSE StepAfter(0, cCluster)
  /\ UNCHANGED <<apiVars, cacheVars, nodeVars, act, syncErr, podEvents,
                 labelled, budget>>

At(r) == CHOOSE n \in DOMAIN Ensured : Ensured[n] = r

GiveUp == pc' = "status" /\ syncErr' = TRUE

EnsureResource ==
  LET r    == pc
      goOn == pc' = StepAfter(At(r), c) /\ UNCHANGED syncErr
  IN
  /\ r \in Resources
  /\ \/ Passed(At(r), c) /\ goOn /\ UNCHANGED objs
     \/ /\ ~Found(r) /\ objs[r] = "none"
        /\ objs' = [objs EXCEPT ![r] = "this"] /\ goOn
     \/ /\ Foreign(r) \/ (~Found(r) /\ objs[r] # "none")
        /\ GiveUp /\ UNCHANGED objs
  /\ UNCHANGED <<cluster, sets, pilots, cacheVars, nodeVars, queued, c, act,
                 podEvents, labelled, budget>>

NextActionForNodePool(p) ==
  CASE cSets[p] = NoSet -> "create"
    [] cSets[p] # NoSet /\ cSets[p].annot # c.spec.version -> "update"
    [] cSets[p] # NoSet /\ cSets[p].annot = c.spec.version
         /\ cSets[p].replicas # c.spec.replicas[p] -> "scale"
    [] OTHER -> "none"

\* The first pool in the order of the spec that needs an Action.
NextAction ==
  LET needy == {p \in c.spec.pools : NextActionForNodePool(p) # "none"}
  IN
  /\ pc = "next"
  /\ act' = IF needy = {} THEN NoAction
            ELSE [kind |-> NextActionForNodePool(Min(needy)),
                  pool |-> Min(needy)]
  /\ pc' = "execute"
  /\ UNCHANGED <<apiVars, cacheVars, nodeVars, queued, c, syncErr, podEvents,
                 labelled, budget>>

Executing(kind) == pc = "execute" /\ act.kind = kind

Finish(err) ==
  /\ pc' = "status" /\ syncErr' = err
  /\ UNCHANGED <<cluster, objs, pilots, cacheVars, nodeVars, queued, c, act,
                 podEvents, labelled, budget>>

Leave == Finish(FALSE) /\ UNCHANGED sets

\* Update, with the copy of the lister; refused when the set has changed and,
\* by the validation of StatefulSets, when the partition is negative.
WriteSet(p, s) ==
  LET accepted == sets[p] = cSets[p] /\ s.partition >= 0 IN
  \/ /\ accepted
     /\ sets' = [sets EXCEPT ![p] = s] /\ Finish(FALSE)
  \/ /\ ~accepted
     /\ UNCHANGED sets /\ Finish(TRUE)

CreateNodePool ==
  LET p == act.pool IN
  /\ Executing("create")
  /\ \/ /\ sets[p] = NoSet
        /\ sets' = [sets EXCEPT ![p] = NewSet(c.spec, p)] /\ Finish(FALSE)
     \/ sets[p] # NoSet /\ UNCHANGED sets /\ Finish(TRUE)

\* pilotsForStatefulSet selects by label and wants a Pilot for every replica.
PilotsFound(p) ==
  \A i \in 0 .. (cSets[p].replicas - 1) : labelled /\ cPilots[p][i].exists

\* Mutant: an unknown number of documents is taken for none.
DrainedOrUnknownAbove(p, n) ==
  \A i \in n .. (cSets[p].replicas - 1) : cPilots[p][i].docs # 1

DrainedAbove(p, n) ==
  \A i \in n .. (cSets[p].replicas - 1) : cPilots[p][i].docs = 0

CanScaleNodePool(p) ==
  \/ c.spec.replicas[p] >= cSets[p].replicas
  \/ p \notin DataPools
  \/ PilotsFound(p) /\ DrainedAbove(p, c.spec.replicas[p])

Scale ==
  LET p == act.pool
      s == cSets[p]
      n == c.spec.replicas[p]
  IN
  /\ Executing("scale")
  /\ IF s # NoSet /\ s.replicas # n /\ CanScaleNodePool(p)
     THEN WriteSet(p, [s EXCEPT !.replicas = n])
     ELSE Leave

\* reconcileNodePools, in any order; it stops at a set that is gone already.
ReconcileNodePools ==
  LET old  == {p \in Pools \ c.spec.pools : cSets[p] # NoSet}
      gone == {p \in old : sets[p] = NoSet}
  IN
  /\ Executing("reconcile")
  /\ \E done \in SUBSET (old \ gone) :
       /\ gone = {} => done = old
       /\ sets' = [p \in Pools |-> IF p \in done THEN NoSet ELSE sets[p]]
  /\ Finish(gone # {})

\* Mutant: the count starts above the highest pod.
NextPartitionAbove(s) == s.replicas - s.updated

\* The pod to replace next, counted down from the top by the pods replaced.
NextPartition(s) ==
  LET n == s.replicas - s.updated - 1 IN IF n = -1 THEN 0 ELSE n

\* Mutant: one Pilot that is up to date is enough.
AnyPilotUpToDate(p) ==
  /\ PilotsFound(p)
  /\ \E i \in 0 .. (cSets[p].replicas - 1) :
       cPilots[p][i].ver = c.spec.version

PilotsUpToDate(p) ==
  /\ PilotsFound(p)
  /\ \A i \in 0 .. (cSets[p].replicas - 1) :
       cPilots[p][i].ver = c.spec.version

CachedPilot(p, i) == IF i \in Ordinals THEN cPilots[p][i] ELSE NoPilot

\* Mutant: the Pilot of the pod replaced last is not asked.
LowerPartitionAtOnce(p) ==
  LET s == cSets[p]
      n == NextPartition(s)
  IN
  IF s.partition # n \/ s.image # c.spec.version
  THEN WriteSet(p, [s EXCEPT !.partition = n, !.image = c.spec.version])
  ELSE Leave

\* The next pod is handed to the rolling update once the pod replaced last has
\* a Pilot that posts the new version.
LowerPartition(p) ==
  LET s    == cSets[p]
      n    == NextPartition(s)
      last == CachedPilot(p, n + 1)
      due  == s.partition # n \/ s.image # c.spec.version
      ask  == n + 1 < s.replicas
  IN
  \/ /\ due /\ ask /\ ~last.exists
     /\ UNCHANGED sets /\ Finish(TRUE)
  \/ /\ ~due \/ (ask /\ last.exists /\ last.ver # c.spec.version)
     /\ Leave
  \/ /\ due /\ (ask => last.exists /\ last.ver = c.spec.version)
     /\ WriteSet(p, [s EXCEPT !.partition = n, !.image = c.spec.version])

UpdateVersion ==
  LET p      == act.pool
      s      == cSets[p]
      failed == s = NoSet \/ c.health = "none"
      may    == /\ c.health # "Red" /\ s.annot # c.spec.version
                /\ s.ready = s.replicas
  IN
  /\ Executing("update")
  /\ \/ failed /\ UNCHANGED sets /\ Finish(TRUE)
     \/ ~failed /\ ~may /\ Leave
     \/ /\ ~failed /\ may /\ PilotsUpToDate(p)
        /\ WriteSet(p, [s EXCEPT !.annot = c.spec.version])
     \/ ~failed /\ may /\ ~PilotsUpToDate(p) /\ LowerPartition(p)

Idle == pc' = "idle" /\ c' = NoCluster /\ act' = NoAction /\ syncErr' = FALSE

\* Mutant: the status is written over whatever is there.
UpdateStatusAnyway ==
  /\ pc = "status"
  /\ cluster' = SyncPausedConditions(c)
  /\ queued' = (queued \/ syncErr)
  /\ Idle
  /\ UNCHANGED <<sets, objs, pilots, cacheVars, nodeVars, podEvents, labelled,
                 budget>>

\* Mutant: an error of Sync is forgotten when the status is written.
UpdateStatusForgets ==
  /\ pc = "status"
  /\ \/ cluster = c /\ cluster' = SyncPausedConditions(c) /\ UNCHANGED queued
     \/ cluster # c /\ UNCHANGED cluster /\ queued' = TRUE
  /\ Idle
  /\ UNCHANGED <<sets, objs, pilots, cacheVars, nodeVars, podEvents, labelled,
                 budget>>

\* updateStatus runs whatever Sync returned; an error of either queues the
\* key again.
UpdateStatus ==
  /\ pc = "status"
  /\ \/ /\ cluster = c
        /\ cluster' = SyncPausedConditions(c)
        /\ queued' = (queued \/ syncErr)
     \/ /\ cluster # c
        /\ UNCHANGED cluster
        /\ queued' = TRUE
  /\ Idle
  /\ UNCHANGED <<sets, objs, pilots, cacheVars, nodeVars, podEvents, labelled,
                 budget>>

\* A call of the API fails, in a step that makes one.
FailCall ==
  /\ budget.errors > 0
  /\ budget' = [budget EXCEPT !.errors = @ - 1]
  /\ \/ /\ pc \in Resources /\ ~Passed(At(pc), c)
        /\ GiveUp /\ UNCHANGED <<queued, c, act>>
     \/ pc = "execute" /\ GiveUp /\ UNCHANGED <<queued, c, act>>
     \/ pc = "status" /\ Idle /\ queued' = TRUE
  /\ UNCHANGED <<apiVars, cacheVars, nodeVars, podEvents, labelled>>

-----------------------------------------------------------------------------

Execute == CreateNodePool \/ UpdateVersion \/ Scale \/ ReconcileNodePools

Sync == BeginSync \/ EnsureResource \/ NextAction \/ Execute \/ UpdateStatus

Informers ==
  \/ ObserveCluster
  \/ \E p \in Pools : ObserveSet(p) \/ ObservePod(p)
  \/ \E r \in Resources : ObserveObj(r)
  \/ \E p \in Pools, i \in Ordinals : ObservePilot(p, i)

StatefulSets ==
  \/ \E p \in Pools, i \in Ordinals :
       CreatePod(p, i) \/ RemovePod(p, i) \/ RollPod(p, i) \/ PodReady(p, i)
  \/ \E p \in Pools : SetStatus(p)

PilotsOfNodes ==
  \E p \in Pools, i \in Ordinals :
    \/ PilotCreated(p, i) \/ PilotCollected(p, i)
    \/ \E stats, info \in BOOLEAN : PilotPosts(p, i, stats, info)

Environment ==
  \/ \E spec \in Specs : EditSpec(spec)
  \/ \E h \in {"none", "Red", "Green"} : LeaderPosts(h)
  \/ \E p \in Pools, i \in Ordinals : Drain(p, i)
  \/ FailCall

Next == Sync \/ Informers \/ StatefulSets \/ PilotsOfNodes \/ Environment

Spec == Init /\ [][Next]_vars

\* The worker goes on, and the informers the properties below need deliver.
\* Nothing is assumed of the StatefulSet controller or of the pilots.
FairSpec ==
  /\ Spec
  /\ WF_vars(Sync)
  /\ WF_vars(ObserveCluster)
  /\ WF_vars(\E p \in Pools : ObserveSet(p))
  /\ WF_vars(\E r \in Resources : ObserveObj(r))

-----------------------------------------------------------------------------
(* Safety.                                                                 *)

Replicas(p) == 0 .. (sets[p].replicas - 1)
Kept(p)     == sets[p] # NoSet /\ sets'[p] # NoSet

\* The version annotation of a StatefulSet, which says that an upgrade is
\* complete, is moved to a version only when the template and every pod of the
\* pool are at that version, however old the caches UpdateVersion decides by.
AnnotationTruthful ==
  [][\A p \in Pools :
       Kept(p) /\ sets'[p].annot # sets[p].annot =>
         /\ sets[p].image = sets'[p].annot
         /\ \A i \in Replicas(p) : pods[p][i].image = sets'[p].annot]_vars

\* UpdateVersion hands the next node to the rolling update only when all nodes
\* above it run the new version and have posted it to their Pilots.  (As long as
\* users do not go back to a version in the middle of an upgrade: a cached Pilot
\* may still have it of a pod that is gone.)
UpgradedFromTheTop ==
  [][\A p \in Pools :
       Kept(p) /\ (sets'[p].partition # sets[p].partition
                     \/ sets'[p].image # sets[p].image) =>
         \A i \in Replicas(p) : i > sets'[p].partition =>
           pods[p][i].image = sets'[p].image /\ pods[p][i].posted]_vars

\* Scale takes a node out of a data pool only when the node holds no documents,
\* although it decides by what a cached Pilot posted earlier.  (Documents only
\* leave nodes here: nothing keeps them from a node that has posted none.)
DrainedBeforeScaleDown ==
  [][\A p \in DataPools :
       Kept(p) => \A i \in sets'[p].replicas .. (sets[p].replicas - 1) :
                    i \notin docs[p]]_vars

\* A status that the controller writes takes back neither the health that the
\* leading pilot posted nor an edit of the spec meanwhile.
StatusKeepsOthers ==
  [][cluster'.cond # cluster.cond =>
       cluster' = [cluster EXCEPT !.cond = cluster'.cond]]_vars

-----------------------------------------------------------------------------
(* Liveness, once users stop editing.                                      *)

\* UpdateVersion or a scale-down waits for the Pilots of the pool.
Waits(p) ==
  /\ sets[p] # NoSet
  /\ \/ sets[p].annot # cluster.spec.version
     \/ p \in DataPools /\ sets[p].replicas > cluster.spec.replicas[p]

Blocked ==
  \/ cluster.spec.paused
  \/ \E r \in {"serviceAccount", "role", "roleBinding"} : objs[r] = "other"
  \/ \E p \in cluster.spec.pools : Waits(p)

\* Every pool of the spec ends with a StatefulSet of the requested size and the
\* sets of all other pools are deleted, unless the cluster is paused, a name it
\* needs is taken, or an Action waits for Pilots, which holds up all pools.
PoolsConverge ==
  <>[](Blocked \/ \A p \in Pools :
         IF p \in cluster.spec.pools
         THEN sets[p] # NoSet /\ sets[p].replicas = cluster.spec.replicas[p]
         ELSE sets[p] = NoSet)

\* The status ends up saying whether the cluster is paused, whatever conflicts
\* with the leading pilot's writes the controller runs into.
PausedShown == <>[](cluster.spec.paused <=> cluster.cond = "Paused")

=============================================================================

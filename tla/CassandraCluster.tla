--------------------------- MODULE CassandraCluster ---------------------------
(***************************************************************************)
(* The Cassandra controller of Navigator (pkg/controllers/cassandra): one  *)
(* CassandraCluster, the objects it owns, the informer caches the          *)
(* controller reads and the sync loop that reconciles them.                *)
(*                                                                         *)
(* Everything the controller reads comes from a lister, that is from a     *)
(* cache that trails the API server.  A resourceVersion is abstracted to   *)
(* what the code uses it for: a copy of an object is "current" as long as  *)
(* the object was not written since the copy was taken, and an Update with *)
(* a copy that is not current is refused with a conflict.                  *)
(*                                                                         *)
(* Node pools are numbered by their place in Spec.NodePools.               *)
(***************************************************************************)
EXTENDS Integers

CONSTANTS NumPools,      \* pools that Spec.NodePools may name
          MaxReplicas,   \* largest replica count a user asks for
          Scenarios      \* how a behaviour may start, and what may go wrong

Pools     == 1 .. NumPools
Resources == {"nodesService", "seedsService",
              "serviceAccount", "role", "roleBinding"}
Owners    == {"none", "this", "other"}
Faults    == {"edits", "deletes", "failures", "errors", "crashes"}

\* pools and desired: the spec at the start; established: the cluster has all
\* its nodes; foreign: pools whose StatefulSet name is already taken; objs: the
\* owners of the other resources; budget: edits and deletions by the user,
\* lost pods, failing API calls and restarts of the controller
ScenarioType ==
  [pools: SUBSET Pools, desired: 0 .. MaxReplicas, established: BOOLEAN,
   foreign: SUBSET Pools, objs: [Resources -> Owners], budget: [Faults -> Nat]]

ASSUME ConstantsAssumption ==
  /\ NumPools \in Nat /\ MaxReplicas \in Nat
  /\ \A s \in Scenarios : s \in ScenarioType

\* A cluster that has all its nodes has a StatefulSet for each of its pools.
ASSUME EstablishedAssumption ==
  \A s \in Scenarios : s.established => s.pools \cap s.foreign = {}

VARIABLES
  cluster,     \* the CassandraCluster in the API server
  sets,        \* its StatefulSets, by pool
  objs,        \* owner of each service, service account, role, role binding
  seeds,       \* pod 0 of each pool: absent, without or with the seed label
  cCluster,    \* informer cache of the cluster
  cSets,       \* informer cache of the StatefulSets
  cObjs,       \* informer caches of the other resources
  cSeeds,      \* informer cache of the pods
  queued,      \* the cluster's key is in the workqueue
  pc,          \* the step of the sync in progress, or "idle"
  c,           \* the copy of the cluster the sync works on
  syncErr,     \* control.Sync returned an error
  todo,        \* pools whose seed node is still to be labelled
  budget,      \* faults of each kind that may still happen and that happened
  peak         \* the largest replica count ever requested, by pool

apiVars   == <<cluster, sets, objs, seeds>>
cacheVars == <<cCluster, cSets, cObjs, cSeeds>>
syncVars  == <<queued, pc, c, syncErr, todo>>
vars      == <<apiVars, cacheVars, syncVars, budget, peak>>

Absent    == -1        \* a pool without an entry in Status.NodePools
PodStates == {"none", "plain", "seed"}
Steps     == Resources \cup {"idle", "nodepool", "seeds", "label", "action",
                             "status"}

Requests    == [Pools -> 0 .. MaxReplicas]
Statuses    == [Pools -> {Absent} \cup Nat]
Conditions  == {"none", "Paused", "Resumed"}
ClusterType == [exists: BOOLEAN, paused: BOOLEAN, pools: SUBSET Pools,
                desired: Requests, nodePools: Statuses, cond: Conditions]
SetType     == [owner: Owners, replicas: Nat, ready: Nat]
BudgetType  == [Faults -> [left: Nat, spent: Nat]]

CopyOf(T)   == [val: T, current: BOOLEAN]
Copy(v)     == [val |-> v, current |-> TRUE]
Outdated(k) == [val |-> k.val, current |-> FALSE]

NoSet       == [owner |-> "none", replicas |-> 0, ready |-> 0]
NoCluster   == [exists |-> FALSE, paused |-> FALSE, pools |-> {},
                desired |-> [p \in Pools |-> 0],
                nodePools |-> [p \in Pools |-> Absent], cond |-> "none"]

NoCopy      == [val |-> NoCluster, current |-> FALSE]

TypeOK ==
  /\ cluster \in ClusterType
  /\ sets \in [Pools -> SetType]
  /\ objs \in [Resources -> Owners]
  /\ seeds \in [Pools -> PodStates]
  /\ cCluster \in CopyOf(ClusterType)
  /\ cSets \in [Pools -> CopyOf(SetType)]
  /\ cObjs \in [Resources -> Owners]
  /\ cSeeds \in [Pools -> CopyOf(PodStates)]
  /\ queued \in BOOLEAN
  /\ pc \in Steps
  /\ c \in CopyOf(ClusterType)
  /\ syncErr \in BOOLEAN
  /\ todo \subseteq Pools
  /\ budget \in BudgetType
  /\ peak \in [Pools -> Nat]

-----------------------------------------------------------------------------
(* A cluster that was just created or that has all its nodes.  The         *)
(* controller has just started, so its caches hold what the API server     *)
(* holds and the Add event is queued.                                      *)

InitialCluster(s) ==
  [exists |-> TRUE, paused |-> FALSE, pools |-> s.pools,
   desired |-> [p \in Pools |-> IF p \in s.pools THEN s.desired ELSE 0],
   nodePools |-> [p \in Pools |->
                    IF s.established /\ p \in s.pools \ s.foreign
                    THEN s.desired ELSE Absent],
   cond |-> "none"]

InitialSet(s, p) ==
  CASE p \in s.foreign -> [owner |-> "other", replicas |-> 1, ready |-> 1]
    [] s.established /\ p \in s.pools \ s.foreign ->
         [owner |-> "this", replicas |-> s.desired, ready |-> s.desired]
    [] OTHER -> NoSet

InitialPod(set) ==
  CASE set.replicas = 0 -> "none"
    [] set.owner = "other" -> "plain"
    [] OTHER -> "seed"

InitialBudget(s) ==
  [f \in Faults |-> [left |-> s.budget[f], spent |-> 0]]

Init ==
  /\ \E s \in Scenarios : /\ cluster = InitialCluster(s)
                          /\ sets = [p \in Pools |-> InitialSet(s, p)]
                          /\ objs = s.objs
                          /\ budget = InitialBudget(s)
  /\ seeds = [p \in Pools |-> InitialPod(sets[p])]
  /\ cCluster = Copy(cluster)
  /\ cSets = [p \in Pools |-> Copy(sets[p])]
  /\ cObjs = objs
  /\ cSeeds = [p \in Pools |-> Copy(seeds[p])]
  /\ queued = TRUE
  /\ pc = "idle"
  /\ c = NoCopy
  /\ syncErr = FALSE
  /\ todo = {}
  /\ peak = cluster.desired

-----------------------------------------------------------------------------
(* Writes to the API server.  Each one makes every copy of the object out  *)
(* of date.                                                                *)

WriteCluster(new) ==
  /\ cluster' = new
  /\ cCluster' = Outdated(cCluster)

WriteSet(p, new) ==
  /\ sets' = [sets EXCEPT ![p] = new]
  /\ cSets' = [cSets EXCEPT ![p] = Outdated(@)]

WritePod(p, new) ==
  /\ seeds' = [seeds EXCEPT ![p] = new]
  /\ cSeeds' = [cSeeds EXCEPT ![p] = Outdated(@)]

Spend(kind) ==
  /\ budget[kind].left > 0
  /\ budget' = [budget EXCEPT ![kind] = [left  |-> budget[kind].left - 1,
                                         spent |-> budget[kind].spent + 1]]

-----------------------------------------------------------------------------
(* The sync loop.  processNextWorkItem takes the key; a key that is added  *)
(* while it is processed is handed out again only after Done.              *)

\* cluster_control.go syncPausedConditions
PausedCondition(cl) ==
  IF cl.paused THEN "Paused"
  ELSE IF cl.cond = "Paused" THEN "Resumed" ELSE cl.cond

WithPausedCondition(k) ==
  [k EXCEPT !.val = [k.val EXCEPT !.cond = PausedCondition(k.val)]]

\* Mutants: a paused cluster is reconciled all the same; a cluster that is gone
\* is reconciled.
BeginSyncIgnoresPaused ==
  /\ pc = "idle" /\ queued /\ cCluster.val.exists
  /\ queued' = FALSE
  /\ c' = WithPausedCondition(cCluster)
  /\ pc' = "nodesService"
  /\ UNCHANGED <<apiVars, cacheVars, syncErr, todo, budget, peak>>

BeginSyncIgnoresNotFound ==
  /\ pc = "idle" /\ queued
  /\ queued' = FALSE
  /\ c' = cCluster
  /\ pc' = "nodesService"
  /\ UNCHANGED <<apiVars, cacheVars, syncErr, todo, budget, peak>>

BeginSync ==
  /\ pc = "idle" /\ queued
  /\ queued' = FALSE
  /\ syncErr' = FALSE
  /\ \/ /\ ~cCluster.val.exists
        /\ UNCHANGED <<pc, c>>
     \/ /\ cCluster.val.exists
        /\ c' = WithPausedCondition(cCluster)
        /\ pc' = IF cCluster.val.paused THEN "status" ELSE "nodesService"
  /\ UNCHANGED <<apiVars, cacheVars, todo, budget, peak>>

\* An error ends control.Sync; the status is written all the same.
Fail ==
  /\ pc' = "status"
  /\ syncErr' = TRUE
  /\ UNCHANGED <<queued, c>>
  /\ todo' = {}

Goto(step) ==
  /\ pc' = step
  /\ UNCHANGED <<queued, c, syncErr, todo>>

StepAfter(r) ==
  CASE r = "nodesService"   -> "seedsService"
    [] r = "seedsService"   -> "nodepool"
    [] r = "serviceAccount" -> "role"
    [] r = "role"           -> "roleBinding"
    [] r = "roleBinding"    -> "seeds"

\* What the controls of services, service account, role and role binding have
\* in common: an object in the cache must be ours, a missing one is created.
EnsureResource(r) ==
  /\ pc = r
  /\ \/ /\ cObjs[r] = "this"
        /\ Goto(StepAfter(r))
        /\ UNCHANGED <<objs, budget>>
     \/ /\ cObjs[r] = "other"
        /\ Fail
        /\ UNCHANGED <<objs, budget>>
     \/ /\ cObjs[r] = "none" /\ objs[r] = "none"
        /\ objs' = [objs EXCEPT ![r] = "this"]
        /\ Goto(StepAfter(r))
        /\ UNCHANGED budget
     \/ /\ cObjs[r] = "none" /\ objs[r] # "none"       \* AlreadyExists
        /\ Fail
        /\ UNCHANGED <<objs, budget>>
     \/ /\ cObjs[r] = "none"
        /\ Spend("errors")
        /\ Fail
        /\ UNCHANGED objs
  /\ UNCHANGED <<cluster, sets, seeds, cacheVars, peak>>

SyncNodesService   == EnsureResource("nodesService")
SyncSeedsService   == EnsureResource("seedsService")
SyncServiceAccount == EnsureResource("serviceAccount")
SyncRole           == EnsureResource("role")
SyncRoleBinding    == EnsureResource("roleBinding")

\* Mutant: no owner check.
StatefulSetsByName == {p \in Pools : cSets[p].val.owner # "none"}

\* util.go StatefulSetsForCluster: the cached sets this cluster controls
StatefulSetsForCluster == {p \in Pools : cSets[p].val.owner = "this"}

\* Mutant: pools without a set are dropped from the status map altogether.
UpdateNodePoolStatusPartial ==
  /\ pc = "nodepool"
  /\ c' = [c EXCEPT !.val.nodePools =
             [p \in StatefulSetsForCluster |-> cSets[p].val.ready]]
  /\ pc' = "serviceAccount"
  /\ UNCHANGED <<apiVars, cacheVars, queued, syncErr, todo, budget, peak>>

\* nodepool.go updateStatus rebuilds Status.NodePools of the copy
UpdateNodePoolStatus ==
  /\ pc = "nodepool"
  /\ LET status == [p \in Pools |-> IF p \in StatefulSetsForCluster
                                    THEN cSets[p].val.ready ELSE Absent]
     IN c' = [c EXCEPT !.val = [c.val EXCEPT !.nodePools = status]]
  /\ pc' = "serviceAccount"
  /\ UNCHANGED <<apiVars, cacheVars, queued, syncErr, todo, budget, peak>>

\* seedlabeller Sync lists the sets, then labels pod 0 of each in turn
ListSeedNodes ==
  /\ pc = "seeds"
  /\ todo' = StatefulSetsForCluster
  /\ pc' = IF StatefulSetsForCluster = {} THEN "action" ELSE "label"
  /\ UNCHANGED <<apiVars, cacheVars, queued, c, syncErr, budget, peak>>

SeedDone(p) ==
  /\ todo' = todo \ {p}
  /\ pc' = IF todo = {p} THEN "action" ELSE "label"
  /\ UNCHANGED <<queued, c, syncErr>>

\* labelSeedNodes puts the label into the map of the cached pod before it
\* copies the pod, so the cache shows the label whatever Update returns.
LabelSeedNode(p) ==
  /\ pc = "label" /\ p \in todo
  /\ \/ /\ cSeeds[p].val # "plain"
        /\ SeedDone(p)
        /\ UNCHANGED <<seeds, cSeeds, budget>>
     \/ /\ cSeeds[p].val = "plain" /\ cSeeds[p].current
        /\ seeds' = [seeds EXCEPT ![p] = "seed"]
        /\ cSeeds' = [cSeeds EXCEPT ![p] = [val |-> "seed", current |-> FALSE]]
        /\ SeedDone(p)
        /\ UNCHANGED budget
     \/ /\ cSeeds[p].val = "plain"
        /\ \/ ~cSeeds[p].current /\ UNCHANGED budget           \* conflict
           \/ Spend("errors")
        /\ cSeeds' = [cSeeds EXCEPT ![p].val = "seed"]
        /\ Fail
        /\ UNCHANGED seeds
  /\ UNCHANGED <<cluster, sets, objs, cCluster, cSets, cObjs, peak>>

\* Mutant: the loop starts at the other end.
IsLast(p, S) == p \in S /\ \A q \in S : p >= q

IsFirst(p, S) == p \in S /\ \A q \in S : p <= q

\* cluster_control.go NextAction, its first and its second loop
MissingPools(cl) == {p \in cl.pools : cl.nodePools[p] = Absent}
ShortPools(cl)   == {p \in cl.pools : cl.desired[p] > cl.nodePools[p]}

\* resource.go: a new set belongs to the cluster and has no replicas
StatefulSetForCluster == [NoSet EXCEPT !.owner = "this"]

CreateNodePool(p) ==
  /\ \/ /\ sets[p].owner = "none"
        /\ WriteSet(p, StatefulSetForCluster)
        /\ Goto("status")
        /\ UNCHANGED budget
     \/ /\ sets[p].owner # "none"                      \* AlreadyExists
        /\ Goto("status")
        /\ UNCHANGED <<sets, cSets, budget>>
     \/ /\ Spend("errors")
        /\ Fail
        /\ UNCHANGED <<sets, cSets>>
  /\ UNCHANGED <<cluster, objs, seeds, cCluster, cObjs, cSeeds, peak>>

\* Mutants: one of the early returns is missing.
ScaleOutIgnoresUnready(existing, p) ==
  existing.replicas >= c.val.desired[p]

ScaleOutIgnoresEqual(existing, p) ==
  \/ existing.replicas > c.val.desired[p]
  \/ existing.ready # existing.replicas

\* scaleout.go Execute returns without an update
ScaleOutBlocked(existing, p) ==
  \/ existing.replicas = c.val.desired[p]
  \/ existing.replicas > c.val.desired[p]
  \/ existing.ready # existing.replicas

\* Mutant: the update is applied without comparing resource versions.
ScaleOutUnconditional(p) ==
  LET existing == cSets[p].val IN
  /\ \/ /\ ScaleOutBlocked(existing, p)
        /\ UNCHANGED <<sets, cSets>>
     \/ /\ ~ScaleOutBlocked(existing, p)
        /\ WriteSet(p, [sets[p] EXCEPT !.replicas = existing.replicas + 1])
  /\ Goto("status")
  /\ UNCHANGED <<cluster, objs, seeds, cCluster, cObjs, cSeeds, budget, peak>>

ScaleOut(p) ==
  LET existing == cSets[p].val IN
  /\ \/ /\ existing.owner = "none"                     \* not in the lister
        /\ Fail
        /\ UNCHANGED <<sets, cSets, budget>>
     \/ /\ existing.owner # "none" /\ ScaleOutBlocked(existing, p)
        /\ Goto("status")
        /\ UNCHANGED <<sets, cSets, budget>>
     \/ /\ existing.owner # "none" /\ ~ScaleOutBlocked(existing, p)
        /\ \/ /\ cSets[p].current
              /\ WriteSet(p, [existing EXCEPT !.replicas = @ + 1])
              /\ Goto("status")
              /\ UNCHANGED budget
           \/ /\ ~cSets[p].current /\ UNCHANGED budget          \* conflict
              /\ Fail
              /\ UNCHANGED <<sets, cSets>>
           \/ /\ Spend("errors")
              /\ Fail
              /\ UNCHANGED <<sets, cSets>>
  /\ UNCHANGED <<cluster, objs, seeds, cCluster, cObjs, cSeeds, peak>>

NextAction ==
  /\ pc = "action"
  /\ LET missing == MissingPools(c.val)
         short   == ShortPools(c.val)
     IN \/ \E p \in Pools : IsFirst(p, missing) /\ CreateNodePool(p)
        \/ /\ missing = {}
           /\ \E p \in Pools : IsFirst(p, short) /\ ScaleOut(p)
        \/ /\ missing = {} /\ short = {}
           /\ Goto("status")
           /\ UNCHANGED <<apiVars, cacheVars, budget, peak>>

EndSync(err) ==
  /\ pc' = "idle"
  /\ c' = NoCopy
  /\ syncErr' = FALSE
  /\ queued' = (queued \/ err)       \* AddRateLimited, or Forget
  /\ UNCHANGED todo

\* strategy.go of the status subresource: everything but the status stays
WithStatus(old, new) ==
  [[old EXCEPT !.nodePools = new.nodePools] EXCEPT !.cond = new.cond]

\* cassandra.go sync: UpdateStatus runs whatever control.Sync returned.  A
\* write that changes nothing leaves the stored object as it is.
UpdateStatus ==
  /\ pc = "status"
  /\ LET new == WithStatus(cluster, c.val)
     IN \/ /\ cluster.exists /\ c.current
           /\ IF new = cluster THEN UNCHANGED <<cluster, cCluster>>
                               ELSE WriteCluster(new)
           /\ EndSync(syncErr)
           /\ UNCHANGED budget
        \/ /\ ~(cluster.exists /\ c.current)           \* conflict, NotFound
           /\ EndSync(TRUE)
           /\ UNCHANGED <<cluster, cCluster, budget>>
        \/ /\ Spend("errors")
           /\ EndSync(TRUE)
           /\ UNCHANGED <<cluster, cCluster>>
  /\ UNCHANGED <<sets, objs, seeds, cSets, cObjs, cSeeds, peak>>

Sync ==
  \/ BeginSync
  \/ SyncNodesService
  \/ SyncSeedsService
  \/ UpdateNodePoolStatus
  \/ SyncServiceAccount
  \/ SyncRole
  \/ SyncRoleBinding
  \/ ListSeedNodes
  \/ \E p \in Pools : LabelSeedNode(p)
  \/ NextAction
  \/ UpdateStatus

-----------------------------------------------------------------------------
(* The informers: an event brings one cached object up to date and its     *)
(* handler queues the owning cluster.                                      *)

\* QueuingEventHandler of the cluster informer
ObserveCluster ==
  /\ ~cCluster.current
  /\ cCluster' = Copy(cluster)
  /\ queued' = TRUE
  /\ UNCHANGED <<apiVars, cSets, cObjs, cSeeds, pc, c, syncErr, todo,
                 budget, peak>>

\* Mutant: the handler does not queue the cluster.
HandleObjectIgnored(set) == UNCHANGED queued

\* handleObject: the owner must be a CassandraCluster the lister knows; the
\* object of a Delete event is the last cached one.
HandleObject(set) ==
  queued' = (queued \/ (set.owner = "this" /\ cCluster.val.exists))

ObserveSet(p) ==
  /\ ~cSets[p].current
  /\ cSets' = [cSets EXCEPT ![p] = Copy(sets[p])]
  /\ HandleObject(IF sets[p] = NoSet THEN cSets[p].val ELSE sets[p])
  /\ UNCHANGED <<apiVars, cCluster, cObjs, cSeeds, pc, c, syncErr, todo,
                 budget, peak>>

\* Mutant: no handler on the pod informer.
ObservePodSilently(p) ==
  /\ ~cSeeds[p].current
  /\ cSeeds' = [cSeeds EXCEPT ![p] = Copy(seeds[p])]
  /\ UNCHANGED <<apiVars, cCluster, cSets, cObjs, syncVars, budget, peak>>

\* handlePodObject looks the StatefulSet up in the lister first
ObservePod(p) ==
  /\ ~cSeeds[p].current
  /\ cSeeds' = [cSeeds EXCEPT ![p] = Copy(seeds[p])]
  /\ HandleObject(cSets[p].val)
  /\ UNCHANGED <<apiVars, cCluster, cSets, cObjs, pc, c, syncErr, todo,
                 budget, peak>>

\* No handler is registered on these informers.  No step reads two of their
\* caches, so they are brought up to date together.
ObserveObjs ==
  /\ cObjs # objs
  /\ cObjs' = objs
  /\ UNCHANGED <<apiVars, cCluster, cSets, cSeeds, syncVars, budget, peak>>

Informers ==
  \/ ObserveCluster
  \/ \E p \in Pools : ObserveSet(p) \/ ObservePod(p)
  \/ ObserveObjs

-----------------------------------------------------------------------------
(* Kubernetes: the StatefulSet controller starts pods, pods become ready   *)
(* or are lost, and the objects of a deleted cluster are collected.        *)

StartPod(p) ==
  /\ sets[p].owner = "this" /\ sets[p].replicas > 0
  /\ seeds[p] = "none"
  /\ WritePod(p, "plain")
  /\ UNCHANGED <<cluster, sets, objs, cCluster, cSets, cObjs, syncVars,
                 budget, peak>>

PodReady(p) ==
  /\ sets[p].owner = "this"
  /\ sets[p].ready + (IF seeds[p] = "none" THEN 1 ELSE 0) < sets[p].replicas
  /\ WriteSet(p, [sets[p] EXCEPT !.ready = @ + 1])
  /\ WritePod(p, seeds[p]) \/ UNCHANGED <<seeds, cSeeds>>
  /\ UNCHANGED <<cluster, objs, cCluster, cObjs, syncVars, budget, peak>>

PodLost(p) ==
  /\ Spend("failures")
  /\ sets[p].owner = "this" /\ sets[p].ready > 0
  /\ WriteSet(p, [sets[p] EXCEPT !.ready = @ - 1])
  /\ WritePod(p, "none") \/ UNCHANGED <<seeds, cSeeds>>
  /\ UNCHANGED <<cluster, objs, cCluster, cObjs, syncVars, peak>>

CollectSet(p) ==
  /\ ~cluster.exists /\ sets[p].owner = "this"
  /\ WriteSet(p, NoSet)
  /\ WritePod(p, "none")
  /\ UNCHANGED <<cluster, objs, cCluster, cObjs, syncVars, budget, peak>>

CollectObjs ==
  /\ ~cluster.exists /\ \E r \in Resources : objs[r] = "this"
  /\ objs' = [r \in Resources |-> IF objs[r] = "this" THEN "none" ELSE objs[r]]
  /\ UNCHANGED <<cluster, sets, seeds, cacheVars, syncVars, budget, peak>>

Kubernetes ==
  \/ \E p \in Pools : StartPod(p) \/ PodReady(p) \/ CollectSet(p)
  \/ CollectObjs

-----------------------------------------------------------------------------
(* The user edits the spec within what ValidateCassandraClusterUpdate      *)
(* accepts, or deletes the cluster.                                        *)

Edit(kind, new) ==
  /\ cluster.exists
  /\ Spend(kind)
  /\ WriteCluster(new)
  /\ c' = Outdated(c)
  /\ peak' = [p \in Pools |-> IF new.desired[p] > peak[p]
                              THEN new.desired[p] ELSE peak[p]]
  /\ UNCHANGED <<sets, objs, seeds, cSets, cObjs, cSeeds, queued, pc,
                 syncErr, todo>>

WithPools(pools, desired) ==
  [[cluster EXCEPT !.pools = pools] EXCEPT !.desired = desired]

SetReplicas(p, n) ==
  /\ p \in cluster.pools /\ n # cluster.desired[p]
  /\ Edit("edits", WithPools(cluster.pools, [cluster.desired EXCEPT ![p] = n]))

AddPool(p, n) ==
  /\ p \notin cluster.pools
  /\ Edit("edits", WithPools(cluster.pools \cup {p},
                             [cluster.desired EXCEPT ![p] = n]))

RemovePool(p) ==
  /\ p \in cluster.pools
  /\ Edit("edits", WithPools(cluster.pools \ {p},
                             [cluster.desired EXCEPT ![p] = 0]))

SetPaused(b) ==
  /\ b # cluster.paused
  /\ Edit("edits", [cluster EXCEPT !.paused = b])

DeleteCluster == Edit("deletes", NoCluster)

User ==
  \/ \E p \in Pools, n \in 0 .. MaxReplicas : SetReplicas(p, n) \/ AddPool(p, n)
  \/ \E p \in Pools : RemovePool(p)
  \/ \E b \in BOOLEAN : SetPaused(b)
  \/ DeleteCluster

\* The process restarts.  Run waits for the caches of clusters, services,
\* StatefulSets and pods only; the other three may still be empty.
Restart ==
  /\ Spend("crashes")
  /\ cCluster' = Copy(cluster)
  /\ cSets' = [p \in Pools |-> Copy(sets[p])]
  /\ cSeeds' = [p \in Pools |-> Copy(seeds[p])]
  /\ cObjs' = [r \in Resources |-> IF r \in {"nodesService", "seedsService"}
                                    THEN objs[r] ELSE "none"]
  /\ queued' = cluster.exists
  /\ pc' = "idle" /\ c' = NoCopy /\ syncErr' = FALSE /\ todo' = {}
  /\ UNCHANGED <<apiVars, peak>>

Next ==
  \/ Sync
  \/ Informers
  \/ Kubernetes
  \/ \E p \in Pools : PodLost(p)
  \/ User
  \/ Restart

Spec == Init /\ [][Next]_vars

\* The workers run, every watch delivers and Kubernetes does its part; nobody
\* has to edit, fail or crash.
FairSpec ==
  /\ Spec
  /\ WF_vars(Sync)
  /\ WF_vars(ObserveCluster)
  /\ WF_vars(\E p \in Pools : ObserveSet(p))
  /\ WF_vars(\E p \in Pools : ObservePod(p))
  /\ WF_vars(ObserveObjs)
  /\ WF_vars(Kubernetes)

-----------------------------------------------------------------------------
(* Properties.                                                             *)

Owned(p) == sets[p].owner = "this"

\* However stale the caches are, and whoever else writes the set, a set of the
\* cluster is only ever grown by one node, and only at a moment when every
\* node it has is ready (scaleout.go Execute with the conflict check of the
\* API server); it is created empty and is never scaled in.
GrowsByOneWhenReady ==
  [][\A p \in Pools :
       /\ Owned(p) /\ Owned(p)' /\ sets'[p].replicas # sets[p].replicas
            => /\ sets'[p].replicas = sets[p].replicas + 1
               /\ sets[p].ready = sets[p].replicas
       /\ ~Owned(p) /\ Owned(p)' => sets'[p].replicas = 0]_vars

\* The two cache reads of a sync (the status, then the set to scale) may see
\* different states; even so no set outgrows the largest replica count that
\* was ever requested for its pool.
WithinRequested == \A p \in Pools : Owned(p) => sets[p].replicas <= peak[p]

\* A StatefulSet, service or account of the same name that belongs to somebody
\* else is never adopted, scaled or labelled (util.go OwnerCheck and
\* StatefulSetsForCluster).
ForeignUntouched ==
  [][/\ \A p \in Pools : sets[p].owner = "other" =>
                           sets'[p] = sets[p] /\ seeds'[p] = seeds[p]
     /\ \A r \in Resources : objs[r] = "other" => objs'[r] = "other"]_vars

\* Once the controller has seen spec.paused, and no sync that started earlier
\* is still running, it creates nothing, scales nothing and labels nothing.
PausedMeansNoAction ==
  [][cCluster.val.paused /\ (pc = "idle" \/ c.val.paused) =>
       /\ \A p \in Pools : /\ sets'[p].replicas <= sets[p].replicas
                           /\ Owned(p)' => Owned(p)
                           /\ seeds'[p] = "seed" => seeds[p] = "seed"
       /\ \A r \in Resources : objs'[r] = "this" => objs[r] = "this"]_vars

\* Pools with nodes that were asked for and that the kubelet does not report
\* ready yet (DatabasePod says what a node's readiness tells of its ring).
Joining == {p \in Pools : Owned(p) /\ sets[p].ready < sets[p].replicas}

\* The cluster is still being brought up: no edit and no lost pod so far.
Undisturbed ==
  budget["edits"].spent + budget["deletes"].spent + budget["failures"].spent = 0

\* docs/cassandra.rst: nodes are added in series, one at a time, as long as
\* the spec is not edited and no pod is lost, however stale the caches that
\* scaleout.go judges readiness by.
JoinsInSeries ==
  Undisturbed => /\ \A p, q \in Joining : p = q
                 /\ \A p \in Joining : sets[p].replicas = sets[p].ready + 1

\* docs/cassandra.rst, Create Cluster: pools are filled in the order of the
\* spec; a pool gets its first node when all pools before it are complete.
FilledInOrder ==
  Undisturbed => \A p, q \in cluster.pools :
    p < q /\ Owned(q) /\ sets[q].replicas > 0 =>
      Owned(p) /\ sets[p].ready >= cluster.desired[p]

Healthy(p) ==
  /\ Owned(p)
  /\ sets[p].replicas >= cluster.desired[p]
  /\ sets[p].ready = sets[p].replicas
  /\ cluster.nodePools[p] = sets[p].ready

SpecMet ==
  /\ \A p \in cluster.pools : Healthy(p)
  /\ cluster.cond # "Paused"

\* NextAction's ScaleOut returns nil, not an error, when it has to wait for a
\* node, so the loop depends on watch events to be woken up again.  No wake-up
\* is lost: when edits, losses, errors and crashes end, a cluster gets every
\* node it asks for and reports it, or else reports that it is paused.
EventuallySpecMet ==
  <>[](cluster.exists =>
         IF cluster.paused THEN cluster.cond = "Paused" ELSE SpecMet)

\* A sync that still works on the cached copy of a deleted cluster may create
\* objects after the deletion; in the end nothing of the cluster is left.
NothingOutlivesCluster ==
  ~cluster.exists ~> [](/\ \A p \in Pools : ~Owned(p)
                      /\ \A r \in Resources : objs[r] # "this")

\* docs/cassandra.rst: the seeds service resolves to node 0, so pod 0 of every
\* pool ends up with the seed label.
EventuallySeedsLabelled ==
  <>[](cluster.exists /\ ~cluster.paused =>
         \A p \in cluster.pools : cluster.desired[p] > 0 => seeds[p] = "seed")
=============================================================================

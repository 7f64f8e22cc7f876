-------------------------- MODULE ElasticsearchProofs --------------------------
(***************************************************************************)
(* The Elasticsearch controller, for any pools, replica counts, versions   *)
(* and edits.                                                              *)
(***************************************************************************)
EXTENDS ElasticsearchCluster, FiniteSetTheorems, TLAPS

\* Most leaves are first-order steps; those that need arithmetic cite SMT.
USE Zenon

PodType == [image: 0 .. MaxVersion, ready: BOOLEAN, posted: BOOLEAN]

\* The pool of an Action is one of the spec that the sync works on.
ActOK == act.kind # "reconcile" => act.pool \in c.spec.pools

Typed == TypeOK /\ ActOK

\* The specs that users submit.
LEMMA SpecType ==
  ASSUME NEW s \in Specs
  PROVE  /\ s.pools \subseteq Pools /\ s.version \in 1 .. MaxVersion
         /\ s.paused \in BOOLEAN
         /\ \A p \in Pools : s.replicas[p] \in 0 .. MaxReplicas
BY ElasticsearchAssumption

\* A sync works on a cluster that is there; without one there is no spec.
LEMMA CopyType ==
  /\ NoCluster \notin ClusterType
  /\ \A k \in ClusterType : k.spec \in Specs
  /\ \A k \in ClusterType : SyncPausedConditions(k) \in ClusterType
<1>1. NoSpec \notin Specs
  <2>1. NoSpec.version = 0
    BY DEF NoSpec
  <2> QED
    BY <2>1, SpecType, SMT
<1>2. NoCluster.spec = NoSpec
  BY DEF NoCluster
<1>3. \A k \in ClusterType : k.spec \in Specs
  BY DEF ClusterType
<1>4. \A k \in ClusterType : SyncPausedConditions(k) \in ClusterType
  BY DEF ClusterType, SyncPausedConditions
<1> QED
  BY <1>1, <1>2, <1>3, <1>4

\* TypeOK, by the groups of variables that an action changes together.
ClusterOK == cluster \in ClusterType /\ cCluster \in ClusterType
SetsOK    == sets \in [Pools -> SetType] /\ cSets \in [Pools -> SetType]
ObjsOK    == objs \in [Resources -> Owners] /\ cObjs \in [Resources -> Owners]
PilotsOK  == /\ pilots \in [Pools -> [Ordinals -> PilotType]]
             /\ cPilots \in [Pools -> [Ordinals -> PilotType]]
NodesOK   == /\ pods \in [Pools -> [Ordinals -> PodType]]
             /\ docs \in [Pools -> SUBSET Ordinals]
             /\ podEvents \subseteq Pools
SyncOK    == /\ c \in ClusterType \cup {NoCluster}
             /\ pc = "idle" <=> c = NoCluster
             /\ queued \in BOOLEAN /\ syncErr \in BOOLEAN
             /\ pc \in {"idle", "next", "execute", "status"} \cup Resources
             /\ act \in [kind: {"create", "update", "scale", "reconcile"},
                         pool: 0 .. NumPools]
             /\ ActOK

\* The groups together are what Typed says.
LEMMA Groups ==
  Typed <=> ClusterOK /\ SetsOK /\ ObjsOK /\ PilotsOK /\ NodesOK /\ SyncOK
BY DEF Typed, TypeOK, ClusterOK, SetsOK, ObjsOK, PilotsOK, NodesOK, SyncOK,
       PodType

\* The fields of a StatefulSet.
LEMMA SetFields ==
  ASSUME NEW s \in SetType
  PROVE  /\ s.replicas \in 0 .. MaxReplicas /\ s.partition \in Ordinals
         /\ s.image \in 0 .. MaxVersion /\ s.annot \in 0 .. MaxVersion
         /\ s.current \in 0 .. MaxVersion /\ s.updated \in 0 .. MaxReplicas
         /\ s.ready \in 0 .. MaxReplicas
BY DEF SetType

\* The fields of a pod.
LEMMA PodFields ==
  ASSUME NEW v \in PodType
  PROVE  /\ v.image \in 0 .. MaxVersion /\ v.ready \in BOOLEAN
         /\ v.posted \in BOOLEAN
BY DEF PodType

\* The fields of a Pilot.
LEMMA PilotFields ==
  ASSUME NEW v \in PilotType
  PROVE  /\ v.exists \in BOOLEAN /\ v.ver \in 0 .. MaxVersion
         /\ v.docs \in {Unknown, 0, 1} /\ v.orphan \in BOOLEAN
BY DEF PilotType

\* The objects of a pool.
LEMMA Objects ==
  ASSUME Typed, NEW p \in Pools
  PROVE  /\ sets[p] \in SetType /\ cSets[p] \in SetType
         /\ \A i \in Ordinals : /\ pilots[p][i] \in PilotType
                                /\ cPilots[p][i] \in PilotType
                                /\ pods[p][i] \in PodType
BY Groups, ZenonT(60) DEF SetsOK, PilotsOK, NodesOK

\* The values that the objects start with.
LEMMA ValueTypes ==
  /\ NoSet \in SetType /\ NoPilot \in PilotType /\ NewPilot \in PilotType
  /\ NoPod \in PodType
  /\ \A s \in Specs, p \in Pools :
       NewSet(s, p) \in SetType /\ InitialSet(s, p) \in SetType
<1>1. 0 \in Ordinals /\ 0 \in 0 .. MaxReplicas /\ 0 \in 0 .. MaxVersion
  BY ElasticsearchAssumption, SMT DEF Ordinals
<1>2. NoSet \in SetType
  BY <1>1 DEF NoSet, SetType
<1>3. NoPilot \in PilotType /\ NewPilot \in PilotType /\ NoPod \in PodType
  BY <1>1 DEF NoPilot, NewPilot, PilotType, NoPod, PodType, Unknown
<1>4. ASSUME NEW s \in Specs, NEW p \in Pools
      PROVE  NewSet(s, p) \in SetType /\ InitialSet(s, p) \in SetType
  <2>1. s.version \in 0 .. MaxVersion /\ s.replicas[p] \in 0 .. MaxReplicas
    BY SpecType, SMT
  <2>2. NewSet(s, p) \in SetType
    BY <1>2, <2>1 DEF NewSet, SetType
  <2> QED
    BY <1>2, <2>1, <2>2 DEF InitialSet, SetType
<1> QED
  BY <1>2, <1>3, <1>4

\* What an Action works on.
LEMMA ActionType ==
  ASSUME Typed, pc = "execute", act.kind # "reconcile"
  PROVE  /\ c \in ClusterType /\ c.spec \in Specs
         /\ act.pool \in c.spec.pools /\ act.pool \in Pools
         /\ c.spec.version \in 1 .. MaxVersion
         /\ c.spec.replicas[act.pool] \in 0 .. MaxReplicas
<1>1. c \in ClusterType /\ act.pool \in c.spec.pools
  BY Groups DEF SyncOK, ActOK
<1>2. c.spec \in Specs
  BY <1>1, CopyType
<1> QED
  BY <1>1, <1>2, SpecType

\* A value is put in place of the one at a pool and an ordinal.
LEMMA Put ==
  ASSUME NEW S, NEW f \in [Pools -> [Ordinals -> S]], NEW p \in Pools,
         NEW i \in Ordinals, NEW v \in S
  PROVE  /\ [f EXCEPT ![p][i] = v] \in [Pools -> [Ordinals -> S]]
         /\ \A q \in Pools, j \in Ordinals :
              [f EXCEPT ![p][i] = v][q][j]
                = IF q = p /\ j = i THEN v ELSE f[q][j]
OBVIOUS

\* A set of natural numbers that is not empty has a least one.
LEMMA LeastNumber ==
  ASSUME NEW S \in SUBSET Nat, S # {}
  PROVE  Min(S) \in S /\ \A n \in S : Min(S) <= n
<1>1. PICK m \in S : \A n \in S : <<n, m>> \notin OpToRel(<, Nat)
  BY WFMin, NatLessThanWellFounded
<1>2. \A n \in S : m <= n
  <2> SUFFICES ASSUME NEW n \in S PROVE m <= n
    OBVIOUS
  <2>1. ~(n < m)
    BY <1>1 DEF OpToRel
  <2> QED
    BY <2>1, SMT
<1> QED
  BY <1>2 DEF Min

-----------------------------------------------------------------------------
(* What a step does to the objects.                                        *)

Quiet == UNCHANGED <<pods, docs, pilots, cPilots>>

\* The steps of the node with ordinal i of pool p.
NodeStep(p, i) ==
  \/ CreatePod(p, i) \/ RemovePod(p, i) \/ RollPod(p, i) \/ PodReady(p, i)
  \/ PilotCreated(p, i) \/ PilotCollected(p, i) \/ ObservePilot(p, i)
  \/ Drain(p, i)
  \/ \E stats, info \in BOOLEAN : PilotPosts(p, i, stats, info)

\* What the Actions write.
Made(p) ==
  /\ p \in c.spec.pools /\ sets[p] = NoSet
  /\ sets' = [sets EXCEPT ![p] = NewSet(c.spec, p)]

Resized(p) ==
  /\ act.kind = "scale" /\ p = act.pool
  /\ sets[p] = cSets[p] /\ sets[p] # NoSet /\ CanScaleNodePool(p)
  /\ sets' = [sets EXCEPT ![p] = [sets[p] EXCEPT
                                    !.replicas = c.spec.replicas[p]]]

Marked(p) ==
  /\ sets[p] = cSets[p] /\ sets[p] # NoSet
  /\ sets[p].annot # c.spec.version /\ PilotsUpToDate(p)
  /\ sets' = [sets EXCEPT ![p] = [sets[p] EXCEPT !.annot = c.spec.version]]

Lowered(p) ==
  LET n == NextPartition(sets[p]) IN
  /\ sets[p] = cSets[p] /\ sets[p] # NoSet
  /\ sets[p].annot # c.spec.version /\ n >= 0
  /\ n + 1 < sets[p].replicas => CachedPilot(p, n + 1).ver = c.spec.version
  /\ sets' = [sets EXCEPT ![p] = [sets[p] EXCEPT !.partition = n,
                                                 !.image = c.spec.version]]

Deleted ==
  \E done : sets' = [p \in Pools |-> IF p \in done THEN NoSet ELSE sets[p]]

Acted ==
  /\ pc = "execute" /\ c \in ClusterType
  /\ UNCHANGED <<cluster, cCluster, cSets, c, act>> /\ Quiet
  /\ \/ UNCHANGED sets
     \/ Deleted
     \/ \E p \in Pools : /\ p \in c.spec.pools
                         /\ Made(p) \/ Resized(p) \/ Marked(p) \/ Lowered(p)

\* An update that is accepted writes what it was computed from.
LEMMA WriteSetActs ==
  ASSUME Typed, NEW p, NEW s, WriteSet(p, s)
  PROVE  /\ UNCHANGED <<cluster, cCluster, cSets, c, act>> /\ Quiet
         /\ \/ UNCHANGED sets
            \/ /\ sets[p] = cSets[p] /\ s.partition >= 0
               /\ sets' = [sets EXCEPT ![p] = s]
BY DEF WriteSet, Finish, cacheVars, nodeVars, Quiet

\* An Action does one of these things.
LEMMA ExecuteActs == Typed /\ Execute => Acted
<1> SUFFICES ASSUME Typed, Execute PROVE Acted
  OBVIOUS
<1> DEFINE p == act.pool
<1>1. /\ pc = "execute" /\ c \in ClusterType
      /\ UNCHANGED <<cluster, cCluster, cSets, c, act>> /\ Quiet
  <2>1. pc = "execute"
    BY DEF Execute, CreateNodePool, UpdateVersion, Scale, ReconcileNodePools,
           Executing
  <2>2. c \in ClusterType
    BY <2>1, Groups DEF SyncOK
  <2>3. \E err : Finish(err)
    BY Zenon DEF Execute, CreateNodePool, UpdateVersion, Scale,
       ReconcileNodePools, LowerPartition, WriteSet, Leave
  <2> QED
    BY <2>1, <2>2, <2>3 DEF Finish, cacheVars, nodeVars, Quiet
<1>2. ASSUME act.kind # "reconcile"
      PROVE  /\ p \in Pools /\ p \in c.spec.pools
             /\ sets[p] \in SetType /\ cSets[p] \in SetType
  BY <1>1, <1>2, ActionType, Objects
<1>3. CASE CreateNodePool
  BY <1>1, <1>2, <1>3 DEF CreateNodePool, Executing, Acted, Made
<1>4. CASE Scale
  <2>1. act.kind = "scale"
    BY <1>4 DEF Scale, Executing
  <2> DEFINE s == [cSets[p] EXCEPT !.replicas = c.spec.replicas[p]]
  <2>2. Leave \/ (cSets[p] # NoSet /\ CanScaleNodePool(p) /\ WriteSet(p, s))
    BY <1>4 DEF Scale
  <2>3. CASE Leave
    BY <1>1, <2>3 DEF Leave, Acted
  <2>4. ASSUME cSets[p] # NoSet, CanScaleNodePool(p), WriteSet(p, s)
        PROVE  UNCHANGED sets \/ Resized(p)
    BY <2>1, <2>4, WriteSetActs DEF Resized
  <2> QED
    BY <1>1, <1>2, <2>1, <2>2, <2>3, <2>4 DEF Acted
<1>5. CASE UpdateVersion
  <2>1. act.kind = "update"
    BY <1>5 DEF UpdateVersion, Executing
  <2> DEFINE v == c.spec.version
             n == NextPartition(cSets[p])
             s == [cSets[p] EXCEPT !.annot = v]
             t == [cSets[p] EXCEPT !.partition = n, !.image = v]
  <2>2. \/ UNCHANGED sets
        \/ /\ cSets[p] # NoSet /\ cSets[p].annot # v
           /\ \/ PilotsUpToDate(p) /\ WriteSet(p, s)
              \/ LowerPartition(p)
    BY <1>5 DEF UpdateVersion, Leave
  <2>3. CASE UNCHANGED sets
    BY <1>1, <2>3 DEF Acted
  <2>4. ASSUME cSets[p] # NoSet, cSets[p].annot # v, PilotsUpToDate(p),
               WriteSet(p, s)
        PROVE  UNCHANGED sets \/ Marked(p)
    BY <2>4, WriteSetActs DEF Marked
  <2>5. ASSUME cSets[p] # NoSet, cSets[p].annot # v, LowerPartition(p)
        PROVE  UNCHANGED sets \/ Lowered(p)
    <3>1. \/ UNCHANGED sets
          \/ /\ n + 1 < cSets[p].replicas => CachedPilot(p, n + 1).ver = v
             /\ WriteSet(p, t)
      BY <2>5 DEF LowerPartition, Leave
    <3>2. t.partition = n
      BY <1>2, <2>1 DEF SetType
    <3>3. \/ UNCHANGED sets
          \/ /\ n + 1 < cSets[p].replicas => CachedPilot(p, n + 1).ver = v
             /\ sets[p] = cSets[p] /\ n >= 0
             /\ sets' = [sets EXCEPT ![p] = t]
      <4> HIDE DEF n, t
      <4> QED
        BY <3>1, <3>2, WriteSetActs
    <3> QED
      BY <2>5, <3>3, Zenon DEF Lowered
  <2> QED
    BY <1>1, <1>2, <2>1, <2>2, <2>3, <2>4, <2>5 DEF Acted
<1>6. CASE ReconcileNodePools
  <2>1. Deleted
    BY <1>6, Zenon DEF ReconcileNodePools, Deleted
  <2> QED
    BY <1>1, <2>1 DEF Acted
<1> QED
  BY <1>3, <1>4, <1>5, <1>6 DEF Execute

\* What the other steps do: users edit, informers deliver, the worker goes on.
Ruled ==
  /\ Quiet /\ UNCHANGED sets
  /\ cluster'.spec = cluster.spec \/ <<cluster.spec, cluster'.spec>> \in Edits
  /\ \/ UNCHANGED <<cCluster, cSets, c, act>>
     \/ cCluster' = cluster /\ UNCHANGED <<cluster, cSets, c, act>>
     \/ \E p \in Pools : /\ cSets' = [cSets EXCEPT ![p] = sets[p]]
                         /\ UNCHANGED <<cCluster, c, act>>
     \/ c = NoCluster /\ c' = cCluster /\ UNCHANGED <<cCluster, cSets, act>>
     \/ /\ act'.kind = "scale" =>
             /\ act'.pool \in Pools /\ cSets[act'.pool] # NoSet
             /\ cSets[act'.pool].annot = c.spec.version
        /\ UNCHANGED <<cCluster, cSets, c>> /\ c \in ClusterType
     \/ c' = NoCluster /\ act' = NoAction /\ UNCHANGED <<cCluster, cSets>>

\* The action that NextAction chooses, seen from the StatefulSet in the cache.
LEMMA NextActionRules ==
  ASSUME Typed, NextAction
  PROVE  Ruled
<1> DEFINE needy == {p \in c.spec.pools : NextActionForNodePool(p) # "none"}
           first == [kind |-> NextActionForNodePool(Min(needy)),
                     pool |-> Min(needy)]
<1>1. c \in ClusterType /\ c.spec.pools \subseteq Pools
  BY Groups, CopyType, SpecType DEF NextAction, SyncOK
<1>2. act' = IF needy = {} THEN NoAction ELSE first
  BY Zenon DEF NextAction
<1>3. ASSUME needy # {}, first.kind = "scale"
      PROVE  /\ first.pool \in Pools /\ cSets[first.pool] # NoSet
             /\ cSets[first.pool].annot = c.spec.version
  <2>1. needy \in SUBSET Nat
    BY <1>1, ElasticsearchAssumption, SMT DEF Pools
  <2>2. Min(needy) \in needy
    BY <1>3, <2>1, LeastNumber
  <2>3. NextActionForNodePool(first.pool) = "scale" /\ first.pool \in Pools
    BY <1>1, <1>3, <2>2
  <2> HIDE DEF first
  <2> QED
    BY <2>3 DEF NextActionForNodePool
<1>4. act'.kind = "scale" => /\ act'.pool \in Pools /\ cSets[act'.pool] # NoSet
                            /\ cSets[act'.pool].annot = c.spec.version
  <2>1. NoAction.kind # "scale"
    BY DEF NoAction
  <2> HIDE DEF needy, first
  <2> QED
    BY <1>2, <1>3, <2>1
<1>5. UNCHANGED <<cluster, cCluster, cSets, sets, c>> /\ Quiet
  BY DEF NextAction, apiVars, cacheVars, nodeVars, Quiet
<1> QED
  BY <1>1, <1>4, <1>5 DEF Ruled

\* Every step is one of these.
LEMMA Steps ==
  ASSUME Typed, [Next]_vars
  PROVE  \/ \E p \in Pools, i \in Ordinals : NodeStep(p, i)
         \/ \E p \in Pools : SetStatus(p)
         \/ Acted
         \/ Ruled
<1>1. CASE UNCHANGED vars
  BY <1>1 DEF Ruled, Quiet, vars, apiVars, cacheVars, nodeVars, syncVars
<1>2. CASE Sync
  <2>1. CASE BeginSync
    <3>1. c = NoCluster
      BY <2>1, Groups DEF BeginSync, SyncOK
    <3> QED
      BY <2>1, <3>1 DEF BeginSync, Ruled, Quiet, apiVars, cacheVars, nodeVars
  <2>2. CASE EnsureResource
    BY <2>2 DEF EnsureResource, Ruled, Quiet, cacheVars, nodeVars
  <2>3. CASE UpdateStatus
    <3>1. cluster'.spec = cluster.spec
      <4>1. CASE cluster = c /\ cluster' = SyncPausedConditions(c)
        <5>1. cluster \in ClusterType
          BY Groups DEF ClusterOK
        <5> QED
          BY <4>1, <5>1 DEF SyncPausedConditions, ClusterType
      <4> QED
        BY <2>3, <4>1 DEF UpdateStatus
    <3> QED
      BY <2>3, <3>1 DEF UpdateStatus, Idle, Ruled, Quiet, cacheVars, nodeVars
  <2> QED
    BY <1>2, <2>1, <2>2, <2>3, NextActionRules, ExecuteActs DEF Sync
<1>3. CASE Informers
  <2>1. CASE ObserveCluster
    BY <2>1 DEF ObserveCluster, Ruled, Quiet, apiVars, nodeVars
  <2>2. ASSUME NEW p \in Pools, ObserveSet(p)
        PROVE  Ruled
    BY <2>2 DEF ObserveSet, Ruled, Quiet, apiVars, nodeVars
  <2>3. ASSUME NEW p \in Pools, ObservePod(p)
        PROVE  Ruled
    BY <2>3 DEF ObservePod, Ruled, Quiet, apiVars, cacheVars, nodeVars
  <2>4. ASSUME NEW r \in Resources, ObserveObj(r)
        PROVE  Ruled
    BY <2>4 DEF ObserveObj, Ruled, Quiet, apiVars, nodeVars
  <2> QED
    BY <1>3, <2>1, <2>2, <2>3, <2>4, Zenon DEF Informers, NodeStep
<1>4. CASE StatefulSets
  BY <1>4, Zenon DEF StatefulSets, NodeStep
<1>5. CASE PilotsOfNodes
  BY <1>5, Zenon DEF PilotsOfNodes, NodeStep
<1>6. CASE Environment
  <2>1. ASSUME NEW spec \in Specs, EditSpec(spec)
        PROVE  Ruled
    <3>1. cluster' = [cluster EXCEPT !.spec = spec] /\ cluster \in ClusterType
      BY <2>1, Groups DEF EditSpec, ClusterOK
    <3>2. cluster'.spec = spec
      BY <3>1 DEF ClusterType
    <3> QED
      BY <2>1, <3>2 DEF EditSpec, Ruled, Quiet, cacheVars, nodeVars, syncVars
  <2>2. ASSUME NEW h, LeaderPosts(h)
        PROVE  Ruled
    <3>1. cluster' = [cluster EXCEPT !.health = h] /\ cluster \in ClusterType
      BY <2>2, Groups DEF LeaderPosts, ClusterOK
    <3>2. cluster'.spec = cluster.spec
      BY <3>1 DEF ClusterType
    <3> QED
      BY <2>2, <3>2 DEF LeaderPosts, Ruled, Quiet, cacheVars, nodeVars, syncVars
  <2>3. CASE FailCall
    BY <2>3 DEF FailCall, Idle, Ruled, Quiet, apiVars, cacheVars, nodeVars
  <2> QED
    BY <1>6, <2>1, <2>2, <2>3, Zenon DEF Environment, NodeStep
<1> QED
  BY <1>1, <1>2, <1>3, <1>4, <1>5, <1>6 DEF Next

\* What the steps of a node and of the StatefulSet controller leave alone.
LEMMA Untouched ==
  /\ \A p \in Pools, i \in Ordinals :
       NodeStep(p, i) => UNCHANGED <<cluster, cCluster, sets, cSets, c, act>>
  /\ \A p \in Pools :
       SetStatus(p) => UNCHANGED <<cluster, cCluster, cSets, c, act>> /\ Quiet
<1> DEFINE Rest == <<cluster, cCluster, sets, cSets, c, act>>
<1>1. ASSUME NEW p \in Pools, NEW i \in Ordinals, NodeStep(p, i)
      PROVE  UNCHANGED Rest
  <2>1. CreatePod(p, i) => UNCHANGED Rest
    BY DEF CreatePod, apiVars, cacheVars, syncVars
  <2>2. EndPod(p, i) => UNCHANGED Rest
    BY DEF EndPod, cacheVars, syncVars
  <2>3. PodReady(p, i) => UNCHANGED Rest
    BY DEF PodReady, apiVars, cacheVars, syncVars
  <2>4. ASSUME NEW v, SetPilot(p, i, v) PROVE UNCHANGED Rest
    BY <2>4 DEF SetPilot, cacheVars, syncVars
  <2>5. ObservePilot(p, i) => UNCHANGED Rest
    BY DEF ObservePilot, apiVars, syncVars
  <2>6. Drain(p, i) => UNCHANGED Rest
    BY DEF Drain, apiVars, cacheVars, syncVars
  <2> HIDE DEF Rest
  <2> QED
    BY <1>1, <2>1, <2>2, <2>3, <2>4, <2>5, <2>6, Zenon
       DEF NodeStep, RemovePod, RollPod, PilotCreated, PilotCollected, PilotPosts
<1>2. ASSUME NEW p \in Pools, SetStatus(p)
      PROVE  UNCHANGED <<cluster, cCluster, cSets, c, act>> /\ Quiet
  BY <1>2 DEF SetStatus, Quiet, cacheVars, nodeVars, syncVars
<1> QED
  BY <1>1, <1>2

\* What the StatefulSet controller writes into a status.
LEMMA StatusFields ==
  ASSUME Typed, NEW p \in Pools
  PROVE  /\ StatusNow(p).replicas = sets[p].replicas
         /\ StatusNow(p).partition = sets[p].partition
         /\ StatusNow(p).image = sets[p].image
         /\ StatusNow(p).annot = sets[p].annot
         /\ StatusNow(p).updated = Cardinality(Updated(p))
         /\ StatusNow(p).current \in {sets[p].current, sets[p].image}
BY Objects DEF StatusNow, SetType

-----------------------------------------------------------------------------
(* Upgrades.  What the controller records of an upgrade, and the order it   *)
(* goes in, are right as long as users ask for later versions only, and     *)
(* leave no pool without nodes.                                             *)

UpgradesOnly == \A e \in Edits : e[1].version <= e[2].version

NoEmptyPool == \A s \in Specs : \A p \in s.pools : s.replicas[p] > 0

\* The latest version that a sync has started with.
Reached == IF c = NoCluster THEN cCluster.spec.version ELSE c.spec.version

Ahead ==
  /\ Reached <= cCluster.spec.version
  /\ cCluster.spec.version <= cluster.spec.version

Exists(p)    == sets[p] # NoSet
Upgrading(p) == Exists(p) /\ sets[p].annot < sets[p].image

\* What the invariant needs of counting, which CountingHolds shows.
Counting ==
  \A a, b \in Nat : \A S \in SUBSET (a .. (b - 1)) :
    a <= b => /\ Cardinality(S) \in 0 .. (b - a)
              /\ (a + 1) .. (b - 1) \subseteq S => Cardinality(S) >= b - 1 - a

\* No version is ahead of the latest that a sync has started with.
Bounded(p) ==
  /\ sets[p].annot <= sets[p].image /\ sets[p].image <= Reached
  /\ cSets[p].annot <= Reached
  /\ \A i \in Ordinals : /\ pods[p][i].image <= Reached
                         /\ pilots[p][i].ver <= Reached
                         /\ cPilots[p][i].ver <= Reached

\* The template of a set has the latest version of all in its pool.
Newest(p) ==
  Exists(p) =>
    /\ sets[p].replicas > 0 /\ sets[p].image > 0
    /\ sets[p].current <= sets[p].image
    /\ \A i \in Ordinals : /\ pods[p][i].image <= sets[p].image
                           /\ pilots[p][i].ver <= sets[p].image
                           /\ cPilots[p][i].ver <= sets[p].image

\* The annotation in the cache is not ahead of the stored one.
CacheOlder(p) ==
  Exists(p) /\ cSets[p] # NoSet => cSets[p].annot <= sets[p].annot

\* While a pool is upgraded a Pilot that has the new version, in the cache too,
\* is the Pilot of a pod that runs it.
Reports(p) ==
  Upgrading(p) =>
    \A i \in Ordinals :
      /\ i < sets[p].replicas
      /\ pilots[p][i].ver = sets[p].image \/ cPilots[p][i].ver = sets[p].image
      => pods[p][i].image = sets[p].image /\ pods[p][i].posted

\* The pods above the partition are done.
FromTop(p) ==
  Upgrading(p) =>
    \A i \in Ordinals :
      i > sets[p].partition /\ i < sets[p].replicas
        => pods[p][i].image = sets[p].image /\ pods[p][i].posted

\* Those below it are not.
NotBelow(p) ==
  Upgrading(p) /\ sets[p].image # sets[p].current =>
    \A i \in Ordinals :
      pods[p][i].image = sets[p].image
        => sets[p].partition <= i /\ i < sets[p].replicas

\* The number of updated pods, from which the next partition is computed, is
\* that of the pods above the partition, or one more.
Counts(p) ==
  /\ Upgrading(p) =>
       sets[p].updated <= sets[p].replicas - sets[p].partition
  /\ Upgrading(p) /\ sets[p].image # sets[p].current =>
       sets[p].updated >= sets[p].replicas - 1 - sets[p].partition

\* A pool is scaled only when its upgrade is complete.
ScaleDue ==
  act.kind = "scale" /\ Exists(act.pool) =>
    sets[act.pool].annot = c.spec.version

PoolInv(p) ==
  /\ Bounded(p) /\ Newest(p) /\ CacheOlder(p)
  /\ Reports(p) /\ FromTop(p) /\ NotBelow(p) /\ Counts(p)

UpgradeInv == Ahead /\ ScaleDue /\ \A p \in Pools : PoolInv(p)

\* The numbers of a pool.
LEMMA Numbers ==
  ASSUME Typed, NEW p \in Pools
  PROVE  /\ sets[p].replicas \in 0 .. MaxReplicas /\ sets[p].partition \in Nat
         /\ sets[p].image \in Nat /\ sets[p].annot \in Nat
         /\ sets[p].current \in Nat /\ sets[p].updated \in Nat
         /\ cSets[p].annot \in Nat
         /\ \A i \in Ordinals : /\ pods[p][i].image \in Nat
                                /\ pilots[p][i].ver \in Nat
                                /\ cPilots[p][i].ver \in Nat
<1>1. sets[p] \in SetType /\ cSets[p] \in SetType
  BY Objects
<1>2. ASSUME NEW i \in Ordinals
      PROVE  /\ pods[p][i].image \in Nat /\ pilots[p][i].ver \in Nat
             /\ cPilots[p][i].ver \in Nat
  BY Objects, PodFields, PilotFields, SMT
<1>3. ASSUME NEW s \in SetType
      PROVE  /\ s.replicas \in 0 .. MaxReplicas /\ s.partition \in Nat
             /\ s.image \in Nat /\ s.annot \in Nat /\ s.current \in Nat
             /\ s.updated \in Nat
  <2>1. MaxReplicas \in Nat
    BY ElasticsearchAssumption
  <2> QED
    BY <2>1, SetFields, SMT DEF Ordinals
<1> QED
  BY <1>1, <1>2, <1>3

\* The versions of the cluster, its cache and the copy of a sync.
LEMMA Versions ==
  ASSUME Typed
  PROVE  /\ cluster.spec \in Specs /\ cCluster.spec \in Specs
         /\ cluster.spec.version \in Nat /\ cCluster.spec.version \in Nat
         /\ Reached \in Nat
         /\ c # NoCluster => c.spec \in Specs /\ c.spec.version \in Nat
<1>1. cluster.spec \in Specs /\ cCluster.spec \in Specs
  BY Groups, CopyType DEF ClusterOK
<1>2. c # NoCluster => c.spec \in Specs
  BY Groups, CopyType DEF SyncOK
<1>3. ASSUME NEW s \in Specs PROVE s.version \in Nat
  BY SpecType, SMT
<1> QED
  BY <1>1, <1>2, <1>3 DEF Reached

\* The latest version never goes back.
LEMMA StepAhead ==
  ASSUME UpgradesOnly, Typed, Typed', Ahead, [Next]_vars
  PROVE  Ahead' /\ Reached <= Reached' /\ Reached' \in Nat
<1>1. cluster.spec.version <= cluster'.spec.version
  <2>1. cluster'.spec = cluster.spec \/ <<cluster.spec, cluster'.spec>> \in Edits
    BY Steps, Untouched DEF Ruled, Acted
  <2>2. <<cluster.spec, cluster'.spec>> \in Edits
          => cluster.spec.version <= cluster'.spec.version
    BY DEF UpgradesOnly
  <2> QED
    BY <2>1, <2>2, Versions, SMT
<1>2. \/ UNCHANGED <<cCluster, c>>
      \/ cCluster' = cluster /\ UNCHANGED <<cluster, c>>
      \/ c = NoCluster /\ c' = cCluster /\ UNCHANGED cCluster
      \/ c' = NoCluster /\ UNCHANGED cCluster
  BY Steps, Untouched DEF Ruled, Acted
<1>3. /\ cluster.spec.version \in Nat /\ cCluster.spec.version \in Nat
      /\ Reached \in Nat /\ cluster'.spec.version \in Nat
  <2>1. cluster' \in ClusterType
    BY DEF Typed, TypeOK
  <2>2. cluster'.spec.version \in Nat
    BY <2>1, CopyType, SpecType, SMT
  <2> QED
    BY <2>2, Versions
<1> QED
  BY <1>1, <1>2, <1>3, SMT DEF Ahead, Reached

\* A cluster that has all its nodes is not being upgraded.
LEMMA InitUpgrade == NoEmptyPool /\ Init => UpgradeInv
<1> SUFFICES ASSUME NoEmptyPool, Init PROVE UpgradeInv
  OBVIOUS
<1>1. PICK s \in Scenarios :
        /\ cluster = [spec |-> s.spec, cond |-> "none", health |-> "Green"]
        /\ sets = [p \in Pools |-> InitialSet(s.spec, p)]
        /\ pods = [p \in Pools |->
                     [i \in Ordinals |-> InitialPod(s.spec, p, i)]]
        /\ pilots = [p \in Pools |->
                       [i \in Ordinals |-> InitialPilot(s.spec, p, i, docs)]]
  BY Zenon DEF Init
<1>2. /\ cCluster = cluster /\ cSets = sets /\ cPilots = pilots
      /\ c = NoCluster /\ act = NoAction
  BY Zenon DEF Init
<1>3. s.spec \in Specs /\ s.spec.version \in Nat /\ s.spec.version > 0
  BY SpecType, ElasticsearchAssumption, SMT
<1>4. Reached = s.spec.version /\ cluster.spec.version = s.spec.version
  BY <1>1, <1>2 DEF Reached
<1>5. Ahead /\ ScaleDue
  BY <1>2, <1>3, <1>4, SMT DEF Ahead, ScaleDue, NoAction
<1>6. ASSUME NEW p \in Pools
      PROVE  PoolInv(p)
  <2>1. ASSUME NEW i \in Ordinals
        PROVE  /\ pods[p][i].image \in {0, s.spec.version}
               /\ pilots[p][i].ver \in {0, s.spec.version}
               /\ cPilots[p][i] = pilots[p][i]
    <3>1. pods[p][i] = InitialPod(s.spec, p, i)
          /\ pilots[p][i] = InitialPilot(s.spec, p, i, docs)
      BY <1>1
    <3> QED
      BY <1>2, <3>1, SMT, Z3 DEF InitialPod, NoPod, InitialPilot, NewPilot, NoPilot
  <2>2. CASE p \in s.spec.pools
    <3>1. /\ sets[p].image = s.spec.version /\ sets[p].annot = s.spec.version
          /\ sets[p].current = s.spec.version
          /\ sets[p].replicas = s.spec.replicas[p] /\ cSets[p] = sets[p]
      <4>1. sets[p] = InitialSet(s.spec, p) /\ cSets[p] = sets[p]
        BY <1>1, <1>2
      <4> QED
        BY <2>2, <4>1 DEF InitialSet, NewSet, NoSet
    <3>2. s.spec.replicas[p] > 0
      BY <1>3, <2>2 DEF NoEmptyPool
    <3>3. ~Upgrading(p)
      BY <1>3, <3>1, SMT, Z3 DEF Upgrading
    <3>4. Bounded(p) /\ Newest(p) /\ CacheOlder(p)
      BY <1>3, <1>4, <2>1, <3>1, <3>2, SMT, Z3 DEF Bounded, Newest, CacheOlder
    <3> QED
      BY <3>3, <3>4, Zenon DEF PoolInv, Reports, FromTop, NotBelow, Counts
  <2>3. CASE p \notin s.spec.pools
    <3>1. sets[p] = NoSet /\ cSets[p] = NoSet
      BY <1>1, <1>2, <2>3 DEF InitialSet
    <3>2. sets[p].image = 0 /\ sets[p].annot = 0 /\ cSets[p].annot = 0
      BY <3>1, SMT, Z3 DEF NoSet
    <3>3. Bounded(p)
      BY <1>3, <1>4, <2>1, <3>2, SMT, Z3 DEF Bounded
    <3> QED
      BY <3>1, <3>3, Zenon
         DEF PoolInv, Newest, CacheOlder, Reports, FromTop, NotBelow, Counts,
             Upgrading, Exists
  <2> QED
    BY <2>2, <2>3
<1> QED
  BY <1>5, <1>6 DEF UpgradeInv

\* What the steps of a node do to the versions that it runs and shows.
Effect(p, i) ==
  \/ /\ pods'[p][i].image = pods[p][i].image
     /\ pods[p][i].posted => pods'[p][i].posted
     /\ pilots'[p][i].ver \in {0, pilots[p][i].ver}
     /\ cPilots'[p][i].ver \in {cPilots[p][i].ver, pilots[p][i].ver}
  \/ /\ pods[p][i].image = 0 /\ i < sets[p].replicas
     /\ pods'[p][i].image = Revision(p, i)
     /\ UNCHANGED <<pilots, cPilots>>
  \/ /\ i >= sets[p].replicas \/ pods[p][i].image # sets[p].image
     /\ pods'[p][i].image = 0
     /\ pilots'[p][i].ver = pilots[p][i].ver /\ UNCHANGED cPilots
  \/ /\ pods'[p][i].image = pods[p][i].image /\ pods'[p][i].posted
     /\ pilots'[p][i].ver = pods[p][i].image /\ UNCHANGED cPilots

\* The steps of a node have one of these effects on it, and none on the others.
LEMMA NodeEffect ==
  ASSUME Typed, NEW p \in Pools, NEW i \in Ordinals, NodeStep(p, i),
         NEW q \in Pools, NEW j \in Ordinals
  PROVE  Effect(q, j)
<1>0. /\ pods \in [Pools -> [Ordinals -> PodType]]
      /\ pilots \in [Pools -> [Ordinals -> PilotType]]
      /\ cPilots \in [Pools -> [Ordinals -> PilotType]]
  BY Groups DEF NodesOK, PilotsOK
<1>a. pods[p][i] \in PodType /\ pilots[p][i] \in PilotType
  BY Objects
<1>1. CASE CreatePod(p, i)
  <2> DEFINE v == [pods[p][i] EXCEPT !.image = Revision(p, i)]
  <2>1. v \in PodType /\ v.image = Revision(p, i)
    <3>1. Revision(p, i) \in 0 .. MaxVersion
      BY Objects, SetFields DEF Revision
    <3> QED
      BY <1>a, <3>1 DEF PodType
  <2>2. pods' = [pods EXCEPT ![p][i] = v] /\ UNCHANGED <<pilots, cPilots>>
    BY <1>1 DEF CreatePod, apiVars, cacheVars
  <2>3. pods[p][i].image = 0 /\ i < sets[p].replicas
    BY <1>1, SMT DEF CreatePod, NoPod
  <2> HIDE DEF v
  <2>4. pods'[q][j] = IF q = p /\ j = i THEN v ELSE pods[q][j]
    BY <1>0, <2>1, <2>2, Put, SMT, Z3
  <2> QED
    BY <2>1, <2>2, <2>3, <2>4 DEF Effect
<1>2. ASSUME EndPod(p, i),
             i >= sets[p].replicas \/ pods[p][i].image # sets[p].image
      PROVE  Effect(q, j)
  <2> DEFINE v == [pilots[p][i] EXCEPT !.orphan = pilots[p][i].exists]
  <2>1. v \in PilotType /\ v.ver = pilots[p][i].ver
    BY <1>a DEF PilotType
  <2>2. /\ pilots' = [pilots EXCEPT ![p][i] = v] /\ UNCHANGED cPilots
        /\ pods' = [pods EXCEPT ![p][i] = NoPod]
    BY <1>2 DEF EndPod, cacheVars
  <2> HIDE DEF v
  <2>3. pilots'[q][j] = IF q = p /\ j = i THEN v ELSE pilots[q][j]
    BY <1>0, <2>1, <2>2, Put, SMT, Z3
  <2>4. pods'[q][j] = IF q = p /\ j = i THEN NoPod ELSE pods[q][j]
    BY <1>0, <2>2, Put, ValueTypes, SMT, Z3
  <2>5. NoPod.image = 0
    BY DEF NoPod
  <2> QED
    BY <1>2, <2>1, <2>2, <2>3, <2>4, <2>5 DEF Effect
<1>3. CASE PodReady(p, i)
  <2> DEFINE v == [pods[p][i] EXCEPT !.ready = TRUE]
  <2>1. /\ v \in PodType /\ v.image = pods[p][i].image
        /\ v.posted = pods[p][i].posted
    BY <1>a, Zenon DEF PodType
  <2>2. pods' = [pods EXCEPT ![p][i] = v] /\ UNCHANGED <<pilots, cPilots>>
    BY <1>3 DEF PodReady, apiVars, cacheVars
  <2> HIDE DEF v
  <2>3. pods'[q][j] = IF q = p /\ j = i THEN v ELSE pods[q][j]
    BY <1>0, <2>1, <2>2, Put, SMT, Z3
  <2> QED
    BY <2>1, <2>2, <2>3 DEF Effect
<1>4. CASE PilotCreated(p, i) \/ PilotCollected(p, i)
  <2>1. PICK v \in {NewPilot, NoPilot} :
          /\ pilots' = [pilots EXCEPT ![p][i] = v]
          /\ UNCHANGED <<pods, cPilots>>
    BY <1>4 DEF PilotCreated, PilotCollected, SetPilot, cacheVars
  <2>2. v.ver = 0 /\ v \in PilotType
    <3>1. NewPilot.ver = 0 /\ NoPilot.ver = 0
      BY DEF NewPilot, NoPilot
    <3> QED
      BY <3>1, ValueTypes
  <2>3. pilots'[q][j] = IF q = p /\ j = i THEN v ELSE pilots[q][j]
    BY <1>0, <2>1, <2>2, Put, SMT, Z3
  <2> QED
    BY <2>1, <2>2, <2>3 DEF Effect
<1>5. CASE ObservePilot(p, i)
  <2>1. /\ cPilots' = [cPilots EXCEPT ![p][i] = Seen(pilots[p][i])]
        /\ UNCHANGED <<pods, pilots>>
    BY <1>5 DEF ObservePilot, apiVars, nodeVars
  <2>2. /\ Seen(pilots[p][i]) \in PilotType
        /\ Seen(pilots[p][i]).ver = pilots[p][i].ver
    BY <1>a, Zenon DEF Seen, PilotType
  <2>3. cPilots'[q][j] = IF q = p /\ j = i THEN Seen(pilots[p][i])
                                           ELSE cPilots[q][j]
    BY <1>0, <2>1, <2>2, Put, SMT, Z3
  <2> QED
    BY <2>1, <2>2, <2>3 DEF Effect
<1>6. CASE Drain(p, i)
  BY <1>6 DEF Drain, apiVars, cacheVars, Effect
<1>7. ASSUME NEW stats \in BOOLEAN, NEW info \in BOOLEAN,
             PilotPosts(p, i, stats, info)
      PROVE  Effect(q, j)
  <2> DEFINE d == IF stats THEN Holds(p, i, docs) ELSE Unknown
             n == IF info THEN pods[p][i].image ELSE pilots[p][i].ver
             v == [pilots[p][i] EXCEPT !.docs = d, !.ver = n]
             w == [pods[p][i] EXCEPT !.posted = @ \/ info]
  <2>1. /\ pilots' = [pilots EXCEPT ![p][i] = v] /\ UNCHANGED cPilots
        /\ pods' = [pods EXCEPT ![p][i] = w]
    BY <1>7 DEF PilotPosts, SetPilot, cacheVars
  <2>2. d \in {Unknown, 0, 1}
    BY DEF Holds
  <2>3. n \in 0 .. MaxVersion
    BY Objects, PodFields, PilotFields
  <2>4. w \in PodType /\ w.image = pods[p][i].image
        /\ (w.posted <=> pods[p][i].posted \/ info)
    BY <1>a DEF PodType
  <2>5. v \in PilotType /\ v.ver = n
    <3> HIDE DEF d, n
    <3> QED
      BY <1>a, <2>2, <2>3, Zenon DEF PilotType
  <2> HIDE DEF v, w
  <2>6. pilots'[q][j] = IF q = p /\ j = i THEN v ELSE pilots[q][j]
    BY <1>0, <2>1, <2>5, Put, SMT, Z3
  <2>7. pods'[q][j] = IF q = p /\ j = i THEN w ELSE pods[q][j]
    BY <1>0, <2>1, <2>4, Put, SMT, Z3
  <2> QED
    BY <2>1, <2>4, <2>5, <2>6, <2>7 DEF Effect
<1> QED
  BY <1>1, <1>2, <1>3, <1>4, <1>5, <1>6, <1>7, ZenonT(60) DEF NodeStep, RemovePod,
     RollPod

\* The steps of the nodes keep the invariant of a pool.
LEMMA NodesKeep ==
  ASSUME Typed, NEW p \in Pools, PoolInv(p), UNCHANGED <<sets, cSets>>,
         Reached' = Reached, \A j \in Ordinals : Effect(p, j)
  PROVE  PoolInv(p)'
<1>0. /\ Bounded(p) /\ Newest(p) /\ CacheOlder(p) /\ Reports(p) /\ FromTop(p)
      /\ NotBelow(p) /\ Counts(p)
  BY DEF PoolInv
<1>1. /\ sets[p].image \in Nat /\ sets[p].current \in Nat
      /\ Reached \in Nat /\ sets[p].replicas \in Nat /\ sets[p].partition \in Nat
  BY Numbers, Versions, SMT, Z3
<1>2. ASSUME NEW i \in Ordinals
      PROVE  /\ pods[p][i].image \in Nat /\ pilots[p][i].ver \in Nat
             /\ cPilots[p][i].ver \in Nat /\ i \in Nat
  BY Numbers, SMT, Z3 DEF Ordinals
<1>3. ASSUME NEW i \in Ordinals, pods[p][i].image = 0, i < sets[p].replicas
      PROVE  /\ Exists(p) /\ Revision(p, i) \in {sets[p].current, sets[p].image}
             /\ Revision(p, i) <= sets[p].image
  <2>1. Exists(p)
    BY <1>2, <1>3, SMT DEF Exists, NoSet
  <2>2. sets[p].current <= sets[p].image
    BY <1>0, <2>1 DEF Newest
  <2> QED
    BY <1>1, <2>1, <2>2, SMT, Z3 DEF Revision
<1>e. ASSUME NEW i \in Ordinals
      PROVE  /\ \/ pods'[p][i].image \in {pods[p][i].image, 0}
                \/ /\ pods[p][i].image = 0 /\ i < sets[p].replicas
                   /\ pods'[p][i].image = Revision(p, i)
             /\ pilots'[p][i].ver \in {0, pilots[p][i].ver, pods[p][i].image}
             /\ cPilots'[p][i].ver \in {cPilots[p][i].ver, pilots[p][i].ver}
  BY DEF Effect
<1>z. 0 <= Reached /\ 0 <= sets[p].image
  BY <1>1, SMT
<1>4. Bounded(p)'
  <2>1. ASSUME NEW i \in Ordinals, pods[p][i].image = 0, i < sets[p].replicas
        PROVE  Revision(p, i) <= Reached
    <3>1. sets[p].image <= Reached
      BY <1>0 DEF Bounded
    <3>2. Revision(p, i) <= sets[p].image /\ Revision(p, i) \in Nat
      BY <1>1, <1>3, <2>1
    <3> QED
      BY <1>1, <3>1, <3>2, SMT
  <2> QED
    BY <1>0, <1>e, <1>z, <2>1 DEF Bounded
<1>5. Newest(p)'
  BY <1>0, <1>3, <1>e, <1>z DEF Newest, Exists
<1>6. CacheOlder(p)' /\ Counts(p)'
  BY <1>0 DEF CacheOlder, Counts, Exists, Upgrading
<1>7. ASSUME Upgrading(p), NEW i \in Ordinals, i < sets[p].replicas,
             pods[p][i].image = sets[p].image /\ pods[p][i].posted
      PROVE  pods'[p][i].image = sets[p].image /\ pods'[p][i].posted
  <2>1. sets[p].image > 0
    BY <1>0, <1>7 DEF Newest, Upgrading
  <2>2. pods[p][i].image # 0 /\ ~(i >= sets[p].replicas)
    BY <1>1, <1>2, <1>7, <2>1, SMT, Z3
  <2> QED
    BY <1>7, <2>2 DEF Effect
<1>8. Reports(p)'
  <2> SUFFICES ASSUME Upgrading(p), NEW i \in Ordinals, i < sets[p].replicas,
                      \/ pilots'[p][i].ver = sets[p].image
                      \/ cPilots'[p][i].ver = sets[p].image
               PROVE  pods'[p][i].image = sets[p].image /\ pods'[p][i].posted
    BY DEF Reports, Upgrading, Exists
  <2>1. sets[p].image > 0
    BY <1>0, ZenonT(60) DEF Newest, Upgrading
  <2>2. \/ pilots[p][i].ver = sets[p].image \/ cPilots[p][i].ver = sets[p].image
        \/ /\ pods'[p][i].image = pods[p][i].image /\ pods'[p][i].posted
           /\ pods[p][i].image = sets[p].image
    <3>1. sets[p].image # 0
      BY <1>1, <2>1, SMT, Z3
    <3> QED
      BY <3>1, ZenonT(60) DEF Effect
  <2> QED
    BY <1>0, <1>7, <2>2 DEF Reports
<1>9. FromTop(p)'
  BY <1>0, <1>7 DEF FromTop, Upgrading, Exists
<1>10. NotBelow(p)'
  <2> SUFFICES ASSUME Upgrading(p), sets[p].image # sets[p].current,
                      NEW i \in Ordinals, pods'[p][i].image = sets[p].image
               PROVE  sets[p].partition <= i /\ i < sets[p].replicas
    BY DEF NotBelow, Upgrading, Exists
  <2>1. sets[p].image > 0
    BY <1>0 DEF Newest, Upgrading
  <2>2. CASE pods[p][i].image = sets[p].image
    BY <1>0, <2>2 DEF NotBelow
  <2>3. CASE pods[p][i].image # sets[p].image
    <3>1. i < sets[p].replicas /\ Revision(p, i) = sets[p].image
      <4>1. sets[p].image # 0
        BY <1>1, <2>1, SMT, Z3
      <4> QED
        BY <2>3, <4>1, ZenonT(60) DEF Effect
    <3> QED
      BY <1>1, <1>2, <3>1, SMT, Z3 DEF Revision
  <2> QED
    BY <2>2, <2>3
<1> QED
  BY <1>4, <1>5, <1>6, <1>8, <1>9, <1>10 DEF PoolInv

\* A new status keeps the invariant of a pool: the pods that it counts are those
\* from the partition up, and all of those above it are among them.
LEMMA StatusKeeps ==
  ASSUME Counting, Typed, NEW p \in Pools, PoolInv(p), sets[p] # NoSet,
         sets' = [sets EXCEPT ![p] = StatusNow(p)],
         Reached' = Reached, UNCHANGED cSets, Quiet
  PROVE  PoolInv(p)' /\ Exists(p)' /\ sets'[p].annot = sets[p].annot
<1>0. /\ Bounded(p) /\ Newest(p) /\ CacheOlder(p) /\ Reports(p) /\ FromTop(p)
      /\ NotBelow(p) /\ Counts(p)
  BY DEF PoolInv
<1>1. /\ sets[p].replicas \in 0 .. MaxReplicas /\ sets[p].partition \in Nat
      /\ sets[p].image \in Nat /\ sets[p].annot \in Nat
      /\ sets[p].current \in Nat /\ sets[p].updated \in Nat /\ MaxReplicas \in Nat
  BY Numbers, ElasticsearchAssumption
<1>2. /\ sets'[p].replicas = sets[p].replicas
      /\ sets'[p].partition = sets[p].partition
      /\ sets'[p].image = sets[p].image /\ sets'[p].annot = sets[p].annot
      /\ sets'[p].updated = Cardinality(Updated(p))
      /\ sets'[p].current \in {sets[p].current, sets[p].image}
  <2>1. sets'[p] = StatusNow(p)
    BY Groups DEF SetsOK
  <2> QED
    BY <2>1, StatusFields
<1>3. Exists(p) /\ sets[p].image > 0
  BY <1>0 DEF Newest, Exists
<1>4. Exists(p)'
  BY <1>1, <1>2, <1>3, SMT DEF Exists, NoSet
<1>5. Bounded(p)' /\ Newest(p)' /\ CacheOlder(p)'
  <2>1. Bounded(p)'
    BY <1>0, <1>2, ZenonT(60) DEF Bounded, Quiet
  <2>2. sets'[p].current <= sets[p].image
    BY <1>0, <1>1, <1>2, <1>3, SMT, Z3 DEF Newest
  <2>3. Newest(p)'
    BY <1>0, <1>2, <1>3, <2>2 DEF Newest, Quiet
  <2>4. CacheOlder(p)'
    BY <1>0, <1>2, <1>3 DEF CacheOlder, Quiet
  <2> QED
    BY <2>1, <2>3, <2>4
<1>6. Reports(p)' /\ FromTop(p)'
  BY <1>0, <1>2, <1>3 DEF Reports, FromTop, Upgrading, Quiet
<1>7. NotBelow(p)'
  BY <1>0, <1>2, <1>3 DEF NotBelow, Upgrading, Quiet
<1>8. Counts(p)'
  <2> SUFFICES ASSUME Upgrading(p)
               PROVE  /\ Cardinality(Updated(p))
                           <= sets[p].replicas - sets[p].partition
                      /\ sets[p].image # sets[p].current =>
                           Cardinality(Updated(p))
                             >= sets[p].replicas - 1 - sets[p].partition
    BY <1>2, <1>3 DEF Counts, Upgrading
  <2>1. sets[p].partition <= sets[p].replicas
    BY <1>0, <1>1, SMT, Z3 DEF Counts
  <2>2. CASE sets[p].image = sets[p].current
    <3>1. Cardinality(Updated(p)) \in 0 .. (0 - 0)
      <4>1. Updated(p) \in SUBSET (0 .. (0 - 1))
        BY <2>2 DEF Updated
      <4> QED
        BY <4>1, SMT DEF Counting
    <3> QED
      BY <1>1, <2>1, <2>2, <3>1, SMT, Z3
  <2>3. CASE sets[p].image # sets[p].current
    <3> DEFINE a == sets[p].partition
               b == sets[p].replicas
    <3>1. Updated(p) \in SUBSET (a .. (b - 1))
      <4>1. ASSUME NEW i \in Updated(p) PROVE i \in a .. (b - 1)
        BY <1>0, <1>1, <2>3, SMT, Z3 DEF Updated, Live, NotBelow, Ordinals
      <4> QED
        BY <4>1
    <3>2. a \in Nat /\ b \in Nat /\ a <= b
      BY <1>1, <2>1, SMT
    <3>3. (a + 1) .. (b - 1) \subseteq Updated(p)
      <4>1. ASSUME NEW i \in (a + 1) .. (b - 1)
            PROVE  i \in Ordinals /\ i > a /\ i < b
        BY <1>1, <3>2, SMT, Z3 DEF Ordinals
      <4>2. ASSUME NEW i \in (a + 1) .. (b - 1)
            PROVE  pods[p][i].image = sets[p].image /\ pods[p][i] # NoPod
        <5>1. pods[p][i].image = sets[p].image
          BY <1>0, <4>1, <4>2, ZenonT(60) DEF FromTop
        <5>2. sets[p].image > 0
          BY <1>0, ZenonT(60) DEF Newest, Upgrading
        <5>3. sets[p].image # 0
          BY <1>1, <5>2, SMT, Z3
        <5>4. NoPod.image = 0
          BY DEF NoPod
        <5> QED
          BY <5>1, <5>3, <5>4
      <4> QED
        BY <2>3, <4>1, <4>2 DEF Updated, Live
    <3> HIDE DEF a, b
    <3>4. /\ Cardinality(Updated(p)) \in 0 .. (b - a)
          /\ Cardinality(Updated(p)) >= b - 1 - a
      BY <3>1, <3>2, <3>3 DEF Counting
    <3> QED
      BY <3>2, <3>4, SMT DEF a, b
  <2> QED
    BY <2>2, <2>3
<1> QED
  BY <1>2, <1>4, <1>5, <1>6, <1>7, <1>8 DEF PoolInv

\* A pool that has no set, and one that is not being upgraded, need no more than
\* the order of the versions.
LEMMA QuietPool ==
  ASSUME NEW p \in Pools, ~Upgrading(p)', Bounded(p)', Newest(p)', CacheOlder(p)'
  PROVE  PoolInv(p)'
BY DEF PoolInv, Reports, FromTop, NotBelow, Counts

\* A set that CreateNodePool makes has the version of the sync.
LEMMA MadeKeeps ==
  ASSUME NoEmptyPool, Typed, c \in ClusterType, NEW p \in Pools, PoolInv(p),
         Made(p), UNCHANGED <<cCluster, cSets, c>>, Quiet
  PROVE  PoolInv(p)' /\ sets'[p].annot = c.spec.version
<1>0. Bounded(p) /\ sets \in [Pools -> SetType]
  BY Groups DEF PoolInv, SetsOK
<1>1. Reached = c.spec.version /\ Reached' = c.spec.version
  BY CopyType DEF Reached
<1>2. c.spec \in Specs /\ c.spec.version \in Nat /\ c.spec.version > 0
  BY CopyType, SpecType, SMT
<1>3. sets'[p] = NewSet(c.spec, p)
  BY <1>0 DEF Made
<1>4. /\ sets'[p].image = c.spec.version /\ sets'[p].annot = c.spec.version
      /\ sets'[p].current = c.spec.version
      /\ sets'[p].replicas = c.spec.replicas[p]
  BY <1>3, SMT DEF NewSet, NoSet
<1>5. c.spec.replicas[p] > 0
  BY <1>2 DEF Made, NoEmptyPool
<1>6. ~Upgrading(p)'
  BY <1>2, <1>4, SMT, Z3 DEF Upgrading
<1>7. Bounded(p)' /\ Newest(p)' /\ CacheOlder(p)'
  BY <1>0, <1>1, <1>2, <1>4, <1>5, SMT, Z3 DEF Bounded, Newest, CacheOlder, Quiet
<1> QED
  BY <1>4, <1>6, <1>7, QuietPool

\* Scale changes the size of a pool only when it is not being upgraded.
LEMMA ResizedKeeps ==
  ASSUME NoEmptyPool, Typed, c \in ClusterType, NEW p \in Pools, PoolInv(p),
         ScaleDue, p \in c.spec.pools, Resized(p),
         UNCHANGED <<cCluster, cSets, c>>, Quiet
  PROVE  PoolInv(p)' /\ sets'[p].annot = sets[p].annot
<1>0. Bounded(p) /\ Newest(p) /\ CacheOlder(p) /\ sets \in [Pools -> SetType]
  BY Groups DEF PoolInv, SetsOK
<1>1. Reached = c.spec.version /\ Reached' = c.spec.version
  BY CopyType DEF Reached
<1>2. c.spec.replicas[p] > 0
  BY CopyType DEF NoEmptyPool
<1>3. /\ sets'[p].image = sets[p].image /\ sets'[p].annot = sets[p].annot
      /\ sets'[p].current = sets[p].current
      /\ sets'[p].replicas = c.spec.replicas[p]
  <2>1. sets'[p] = [sets[p] EXCEPT !.replicas = c.spec.replicas[p]]
    BY <1>0 DEF Resized
  <2> QED
    BY <2>1, Objects DEF SetType
<1>4. Exists(p) /\ sets[p].annot = c.spec.version
  BY ZenonT(60) DEF Resized, ScaleDue, Exists
<1>5. ~Upgrading(p)'
  <2>1. sets[p].image <= sets[p].annot
    BY <1>0, <1>1, <1>4, ZenonT(60) DEF Bounded
  <2>2. sets[p].image \in Nat /\ sets[p].annot \in Nat
    BY Numbers, SMT, Z3
  <2>3. ~(sets[p].annot < sets[p].image)
    BY <2>1, <2>2, SMT, Z3
  <2> QED
    BY <1>3, <2>3, ZenonT(60) DEF Upgrading
<1>6. Bounded(p)' /\ Newest(p)' /\ CacheOlder(p)'
  BY <1>0, <1>1, <1>2, <1>3, <1>4
     DEF Bounded, Newest, CacheOlder, Quiet, Exists
<1> QED
  BY <1>3, <1>5, <1>6, QuietPool

\* When all cached Pilots of a pool are up to date its template has the version
\* that the sync asks for.
LEMMA UpToDate ==
  ASSUME Typed, c \in ClusterType, NEW p \in Pools, PoolInv(p),
         sets[p] = cSets[p], sets[p] # NoSet, PilotsUpToDate(p)
  PROVE  /\ sets[p].image = c.spec.version
         /\ \A i \in Ordinals : i < sets[p].replicas =>
              cPilots[p][i].ver = sets[p].image
<1>0. Bounded(p) /\ Newest(p)
  BY DEF PoolInv
<1>1. Reached = c.spec.version
  BY CopyType DEF Reached
<1>2. /\ sets[p].replicas \in 0 .. MaxReplicas /\ sets[p].replicas > 0
      /\ MaxReplicas \in Nat
  BY <1>0, Numbers, ElasticsearchAssumption DEF Newest, Exists
<1>3. ASSUME NEW i \in Ordinals, i < sets[p].replicas
      PROVE  cPilots[p][i].ver = c.spec.version
  BY <1>2, <1>3, SMT, Z3 DEF PilotsUpToDate, Ordinals
<1>4. 0 \in Ordinals /\ 0 < sets[p].replicas
  BY <1>2, SMT DEF Ordinals
<1>5. cPilots[p][0].ver <= sets[p].image /\ sets[p].image <= c.spec.version
  BY <1>0, <1>1, <1>4 DEF Newest, Bounded, Exists
<1>6. sets[p].image = c.spec.version
  <2>1. cPilots[p][0].ver = c.spec.version
    BY <1>3, <1>4
  <2> QED
    BY <1>5, <2>1, Numbers, CopyType, Versions, SMT, Z3
<1> QED
  BY <1>3, <1>6

\* The annotation catches up with the template.
LEMMA MarkedKeeps ==
  ASSUME Typed, c \in ClusterType, NEW p \in Pools, PoolInv(p), Marked(p),
         UNCHANGED <<cCluster, cSets, c>>, Quiet
  PROVE  PoolInv(p)' /\ sets'[p].annot = c.spec.version
<1>0. Bounded(p) /\ Newest(p) /\ CacheOlder(p) /\ sets \in [Pools -> SetType]
  BY Groups DEF PoolInv, SetsOK
<1>1. Reached = c.spec.version /\ Reached' = c.spec.version
  BY CopyType DEF Reached
<1>2. sets[p].image = c.spec.version /\ Exists(p)
  BY UpToDate DEF Marked, Exists
<1>3. /\ sets'[p].image = sets[p].image /\ sets'[p].annot = c.spec.version
      /\ sets'[p].current = sets[p].current
      /\ sets'[p].replicas = sets[p].replicas
  <2>1. sets'[p] = [sets[p] EXCEPT !.annot = c.spec.version]
    BY <1>0, ZenonT(60) DEF Marked
  <2> QED
    BY <2>1, Objects DEF SetType
<1>4. ~Upgrading(p)'
  BY <1>2, <1>3, Numbers, SMT, Z3 DEF Upgrading
<1>5. Bounded(p)' /\ Newest(p)' /\ CacheOlder(p)'
  <2>1. sets[p].image \in Nat /\ cSets[p].annot <= c.spec.version
    BY <1>0, <1>1, Numbers DEF Bounded
  <2> QED
    BY <1>0, <1>1, <1>2, <1>3, <2>1
       DEF Bounded, Newest, CacheOlder, Quiet, Exists
<1> QED
  BY <1>3, <1>4, <1>5, QuietPool

\* The next partition is computed from the number of updated pods.
LEMMA NextPartitionCounts ==
  ASSUME Typed, NEW p \in Pools, NEW n, n = NextPartition(sets[p]), n >= 0
  PROVE  /\ n \in Nat
         /\ sets[p].updated <= sets[p].replicas - n
         /\ sets[p].updated >= sets[p].replicas - 1 - n
         /\ \/ n = sets[p].replicas - sets[p].updated - 1
            \/ n = 0 /\ sets[p].updated = sets[p].replicas
<1>1. /\ sets[p].replicas \in Int /\ sets[p].replicas >= 0
      /\ sets[p].updated \in Nat
  BY Numbers, ElasticsearchAssumption, SMT, Z3
<1> DEFINE m == sets[p].replicas - sets[p].updated - 1
<1>2. n = IF m = -1 THEN 0 ELSE m
  BY DEF NextPartition
<1>3. CASE m = -1
  BY <1>1, <1>2, <1>3, SMT, Z3
<1>4. CASE m # -1
  BY <1>1, <1>2, <1>4, SMT, Z3
<1> QED
  BY <1>3, <1>4, ZenonT(60)

\* UpdateVersion gives the set the new template and hands over the next node.
LEMMA LoweredKeeps ==
  ASSUME Typed, c \in ClusterType, NEW p \in Pools, PoolInv(p), Lowered(p),
         UNCHANGED <<cCluster, cSets, c>>, Quiet
  PROVE  PoolInv(p)' /\ sets'[p].annot = sets[p].annot
<1> DEFINE n == NextPartition(sets[p])
           v == c.spec.version
<1>0. /\ Bounded(p) /\ Newest(p) /\ CacheOlder(p) /\ Reports(p) /\ FromTop(p)
      /\ NotBelow(p) /\ Counts(p)
  BY DEF PoolInv
<1>1. /\ n >= 0 /\ Exists(p) /\ sets[p].annot # v
      /\ n + 1 < sets[p].replicas => CachedPilot(p, n + 1).ver = v
  BY DEF Lowered, Exists
<1>2. /\ sets'[p].image = v /\ sets'[p].partition = n
      /\ sets'[p].annot = sets[p].annot /\ sets'[p].current = sets[p].current
      /\ sets'[p].replicas = sets[p].replicas
      /\ sets'[p].updated = sets[p].updated
  <2>1. sets \in [Pools -> SetType]
    BY Groups DEF SetsOK
  <2>2. sets'[p] = [sets[p] EXCEPT !.partition = n, !.image = v]
    BY <2>1, Zenon DEF Lowered
  <2> HIDE DEF n, v
  <2> QED
    BY <2>2, Objects DEF SetType
<1>3. /\ n \in Nat /\ sets[p].updated <= sets[p].replicas - n
      /\ sets[p].updated >= sets[p].replicas - 1 - n
      /\ \/ n = sets[p].replicas - sets[p].updated - 1
         \/ n = 0 /\ sets[p].updated = sets[p].replicas
  BY <1>1, NextPartitionCounts
<1>4. Reached = v /\ Reached' = v /\ v \in Nat
  BY CopyType, Versions DEF Reached
<1>5. /\ sets[p].image \in Nat /\ sets[p].annot \in Nat /\ sets[p].current \in Nat
      /\ sets[p].replicas \in 0 .. MaxReplicas /\ sets[p].partition \in Nat
      /\ sets[p].updated \in Nat /\ MaxReplicas \in Nat
  BY Numbers, ElasticsearchAssumption
<1>6. /\ sets[p].image <= v /\ sets[p].annot < v
      /\ sets[p].current <= v /\ v > 0 /\ sets[p].replicas > 0
  <2>1. /\ sets[p].annot <= sets[p].image /\ sets[p].image <= v
        /\ sets[p].image > 0 /\ sets[p].replicas > 0
        /\ sets[p].current <= sets[p].image
    BY <1>0, <1>1, <1>4 DEF Bounded, Newest
  <2> HIDE DEF v
  <2> QED
    BY <1>1, <1>4, <1>5, <2>1, SMT, Z3
<1>7. ASSUME NEW i \in Ordinals
      PROVE  /\ i \in Nat /\ pods[p][i].image \in Nat /\ pilots[p][i].ver \in Nat
             /\ cPilots[p][i].ver \in Nat
             /\ pods[p][i].image <= sets[p].image
             /\ pilots[p][i].ver <= sets[p].image
             /\ cPilots[p][i].ver <= sets[p].image
  <2>1. i \in Nat
    BY SMT DEF Ordinals
  <2> QED
    BY <1>0, <1>1, <2>1, Numbers DEF Newest
<1>8. n + 1 < sets[p].replicas => n + 1 \in Ordinals /\ cPilots[p][n + 1].ver = v
  <2> HIDE DEF n, v
  <2>1. n + 1 < sets[p].replicas => n + 1 \in Ordinals
    BY <1>3, <1>5, SMT DEF Ordinals
  <2> QED
    BY <1>1, <2>1 DEF CachedPilot
<1>9. Upgrading(p)' /\ Exists(p)'
  <2>1. sets'[p] # NoSet
    BY <1>2, <1>6, SMT, Z3 DEF NoSet
  <2> QED
    BY <1>2, <1>6, <2>1, ZenonT(60) DEF Upgrading, Exists
<1> HIDE DEF n, v
<1>10. UNCHANGED <<pods, pilots, cPilots>>
  BY DEF Quiet
<1>11. Bounded(p)'
  <2>1. sets[p].annot <= v /\ v <= Reached
    BY <1>4, <1>5, <1>6, SMT, Z3
  <2> QED
    BY <1>0, <1>2, <1>4, <1>10, <2>1, ZenonT(60) DEF Bounded
<1>12. Newest(p)'
  <2>1. ASSUME NEW i \in Ordinals
        PROVE  /\ pods[p][i].image <= v /\ pilots[p][i].ver <= v
               /\ cPilots[p][i].ver <= v
    BY <1>4, <1>5, <1>6, <1>7, SMT, Z3
  <2> QED
    BY <1>2, <1>6, <1>10, <2>1, ZenonT(60) DEF Newest
<1>13. CacheOlder(p)'
  BY <1>0, <1>1, <1>2 DEF CacheOlder
<1>14. Counts(p)'
  BY <1>2, <1>3 DEF Counts
<1>15. CASE sets[p].image # v
  <2>1. ASSUME NEW i \in Ordinals
        PROVE  /\ pods[p][i].image # v /\ pilots[p][i].ver # v
               /\ cPilots[p][i].ver # v
    BY <1>4, <1>5, <1>6, <1>7, <1>15, SMT, Z3
  <2>2. n + 1 >= sets[p].replicas
    BY <1>3, <1>5, <1>8, <2>1, SMT, Z3
  <2>3. Reports(p)' /\ NotBelow(p)'
    BY <1>2, <1>10, <2>1 DEF Reports, NotBelow
  <2>4. FromTop(p)'
    <3>1. ASSUME NEW i \in Ordinals, i > n, i < sets[p].replicas PROVE FALSE
      BY <1>3, <1>5, <1>7, <2>2, <3>1, SMT, Z3
    <3> QED
      BY <1>2, <3>1, ZenonT(60) DEF FromTop
  <2> QED
    BY <1>2, <1>11, <1>12, <1>13, <1>14, <2>3, <2>4, ZenonT(60) DEF PoolInv
<1>16. CASE sets[p].image = v
  <2>1. Upgrading(p)
    BY <1>1, <1>6, <1>16, ZenonT(60) DEF Upgrading
  <2>2. sets[p].partition <= n + 1
    BY <1>0, <1>3, <1>5, <2>1, SMT, Z3 DEF Counts
  <2>3. Reports(p)'
    BY <1>0, <1>2, <1>10, <1>16, <2>1, ZenonT(60) DEF Reports
  <2>4. FromTop(p)'
    <3>1. ASSUME NEW i \in Ordinals, i > n, i < sets[p].replicas
          PROVE  pods[p][i].image = v /\ pods[p][i].posted
      <4>1. i > sets[p].partition \/ i = n + 1
        BY <1>3, <1>5, <1>7, <2>2, <3>1, SMT, Z3
      <4>2. CASE i > sets[p].partition
        BY <1>0, <1>16, <2>1, <3>1, <4>2 DEF FromTop
      <4>3. CASE i = n + 1
        BY <1>0, <1>8, <1>16, <2>1, <3>1, <4>3 DEF Reports
      <4> QED
        BY <4>1, <4>2, <4>3, ZenonT(60)
    <3> QED
      BY <1>2, <1>10, <3>1 DEF FromTop
  <2>5. NotBelow(p)'
    <3>1. ASSUME sets[p].image # sets[p].current PROVE n <= sets[p].partition
      <4>1. sets[p].updated >= sets[p].replicas - 1 - sets[p].partition
        BY <1>0, <2>1, <3>1, ZenonT(60) DEF Counts
      <4> QED
        BY <1>3, <1>5, <4>1, SMT, Z3
    <3>2. ASSUME NEW i \in Ordinals, sets[p].image # sets[p].current,
                 pods[p][i].image = v
          PROVE  n <= i /\ i < sets[p].replicas
      <4>1. sets[p].partition <= i /\ i < sets[p].replicas
        BY <1>0, <1>16, <2>1, <3>2 DEF NotBelow
      <4> QED
        BY <1>3, <1>5, <1>7, <3>1, <3>2, <4>1, SMT, Z3
    <3> QED
      BY <1>2, <1>10, <1>16, <3>2, ZenonT(60) DEF NotBelow
  <2> QED
    BY <1>2, <1>11, <1>12, <1>13, <1>14, <2>3, <2>4, <2>5, ZenonT(60) DEF PoolInv
<1> QED
  BY <1>15, <1>16

\* Nothing changes in a pool but the cached copy of its set, while the versions
\* that syncs start with go up.
LEMMA PoolKeeps ==
  ASSUME Typed, NEW p \in Pools, PoolInv(p), sets'[p] = sets[p],
         cSets'[p] = cSets[p] \/ cSets'[p] = sets[p],
         Reached <= Reached', Reached' \in Nat, Quiet
  PROVE  PoolInv(p)'
<1>0. /\ Bounded(p) /\ Newest(p) /\ CacheOlder(p) /\ Reports(p) /\ FromTop(p)
      /\ NotBelow(p) /\ Counts(p)
  BY DEF PoolInv
<1>1. UNCHANGED <<pods, pilots, cPilots>>
  BY DEF Quiet
<1>2. Reached \in Nat /\ sets[p].annot \in Nat /\ sets[p].image \in Nat
  BY Numbers, Versions
<1>3. Bounded(p)'
  <2>1. sets[p].image <= Reached' /\ sets[p].annot <= Reached'
    BY <1>0, <1>2, SMT, Z3 DEF Bounded
  <2>2. cSets'[p].annot <= Reached'
    BY <1>0, <1>2, <2>1, Numbers, SMT, Z3 DEF Bounded
  <2>3. ASSUME NEW i \in Ordinals
        PROVE  /\ pods[p][i].image <= Reached' /\ pilots[p][i].ver <= Reached'
               /\ cPilots[p][i].ver <= Reached'
    BY <1>0, <1>2, Numbers, SMT, Z3 DEF Bounded
  <2> QED
    BY <1>0, <1>1, <2>1, <2>2, <2>3, ZenonT(60) DEF Bounded
<1>4. Newest(p)'
  BY <1>0, <1>1 DEF Newest, Exists
<1>5. CacheOlder(p)'
  BY <1>0, <1>2, SMT DEF CacheOlder, Exists
<1>6. Reports(p)' /\ FromTop(p)' /\ NotBelow(p)' /\ Counts(p)'
  BY <1>0, <1>1 DEF Reports, FromTop, NotBelow, Counts, Upgrading, Exists
<1> QED
  BY <1>3, <1>4, <1>5, <1>6 DEF PoolInv

\* The set of a pool that the spec no longer has is deleted.
LEMMA DeletedKeeps ==
  ASSUME Typed, NEW p \in Pools, PoolInv(p), sets'[p] = NoSet,
         UNCHANGED cSets, Reached' = Reached, Quiet
  PROVE  PoolInv(p)'
<1>1. Bounded(p) /\ Reached \in Nat
  BY Versions DEF PoolInv
<1>2. ~Exists(p)' /\ sets'[p].annot = 0 /\ sets'[p].image = 0
  BY SMT, Z3 DEF Exists, NoSet
<1>3. Bounded(p)'
  BY <1>1, <1>2, SMT DEF Bounded, Quiet
<1> QED
  BY <1>2, <1>3, QuietPool DEF Upgrading, Newest, CacheOlder

\* The Actions keep the invariant of the pools.
LEMMA ActedKeeps ==
  ASSUME NoEmptyPool, Typed, UpgradeInv, Acted
  PROVE  ScaleDue' /\ \A q \in Pools : PoolInv(q)'
<1>0. /\ c \in ClusterType /\ UNCHANGED <<cCluster, cSets, c, act>> /\ Quiet
      /\ sets \in [Pools -> SetType]
  BY Groups DEF Acted, SetsOK
<1>1. Reached' = Reached /\ Reached \in Nat /\ Reached <= Reached'
  BY <1>0, Versions, SMT DEF Reached
<1>2. \A q \in Pools : PoolInv(q)
  BY DEF UpgradeInv
<1>3. ScaleDue /\ (act.kind = "scale" => act.pool \in Pools)
  <2>1. act.kind = "scale" => act.pool \in c.spec.pools
    BY DEF Typed, ActOK
  <2> QED
    BY <1>0, <2>1, CopyType, SpecType DEF UpgradeInv
<1>4. ASSUME NEW q \in Pools, sets'[q] = sets[q]
      PROVE  PoolInv(q)' /\ (act.pool = q => ScaleDue')
  <2>1. PoolInv(q)'
    BY <1>0, <1>1, <1>2, <1>4, PoolKeeps
  <2> QED
    BY <1>0, <1>3, <1>4, <2>1 DEF ScaleDue, Exists
<1>5. ASSUME NEW q \in Pools, sets'[q] = NoSet
      PROVE  PoolInv(q)' /\ (act.pool = q => ScaleDue')
  <2>1. PoolInv(q)'
    BY <1>0, <1>1, <1>2, <1>5, DeletedKeeps
  <2> QED
    BY <1>0, <1>5, <2>1 DEF ScaleDue, Exists
<1>6. ASSUME NEW q \in Pools, q \in c.spec.pools,
             Made(q) \/ Resized(q) \/ Marked(q) \/ Lowered(q)
      PROVE  PoolInv(q)' /\ (act.pool = q => ScaleDue')
  <2>1. ASSUME sets'[q].annot = c.spec.version
        PROVE  act.pool = q => ScaleDue'
    BY <1>0, <2>1 DEF ScaleDue
  <2>2. ASSUME sets[q] # NoSet, sets'[q].annot = sets[q].annot
        PROVE  act.pool = q => ScaleDue'
    BY <1>0, <1>3, <2>2 DEF ScaleDue, Exists
  <2>3. CASE Made(q)
    BY <1>0, <1>2, <2>1, <2>3, MadeKeeps
  <2>4. CASE Marked(q)
    BY <1>0, <1>2, <2>1, <2>4, MarkedKeeps
  <2>5. CASE Resized(q)
    <3>1. sets[q] # NoSet
      BY <2>5 DEF Resized
    <3> QED
      BY <1>0, <1>2, <1>3, <1>6, <2>2, <2>5, <3>1, ResizedKeeps, ZenonT(60)
  <2>6. CASE Lowered(q)
    <3>1. sets[q] # NoSet
      BY <2>6 DEF Lowered
    <3> QED
      BY <1>0, <1>2, <2>2, <2>6, <3>1, LoweredKeeps, ZenonT(60)
  <2> QED
    BY <1>6, <2>3, <2>4, <2>5, <2>6
<1>7. ASSUME NEW q \in Pools
      PROVE  PoolInv(q)' /\ (act.pool = q => ScaleDue')
  <2>1. CASE UNCHANGED sets
    BY <1>4, <2>1
  <2>2. CASE Deleted
    <3>1. sets'[q] = NoSet \/ sets'[q] = sets[q]
      BY <2>2 DEF Deleted
    <3> QED
      BY <1>4, <1>5, <3>1
  <2>3. ASSUME NEW p \in Pools, p \in c.spec.pools,
               Made(p) \/ Resized(p) \/ Marked(p) \/ Lowered(p)
        PROVE  PoolInv(q)' /\ (act.pool = q => ScaleDue')
    <3>1. p # q => sets'[q] = sets[q]
      BY <1>0, <2>3, Zenon DEF Made, Resized, Marked, Lowered
    <3> QED
      BY <1>4, <1>6, <2>3, <3>1
  <2> QED
    BY <2>1, <2>2, <2>3 DEF Acted
<1>8. ScaleDue'
  <2>1. CASE act.kind = "scale"
    BY <1>3, <1>7, <2>1
  <2>2. CASE act.kind # "scale"
    BY <1>0, <2>2 DEF ScaleDue
  <2> QED
    BY <2>1, <2>2
<1> QED
  BY <1>7, <1>8

\* So do edits, the informers and the rest of a sync.
LEMMA RuledKeeps ==
  ASSUME Typed, UpgradeInv, Reached <= Reached', Reached' \in Nat, Ruled
  PROVE  ScaleDue' /\ \A q \in Pools : PoolInv(q)'
<1>0. Quiet /\ UNCHANGED sets /\ cSets \in [Pools -> SetType]
  BY Groups DEF Ruled, SetsOK
<1>1. ASSUME NEW q \in Pools PROVE PoolInv(q)'
  <2>1. cSets'[q] = cSets[q] \/ cSets'[q] = sets[q]
    BY <1>0 DEF Ruled
  <2> QED
    BY <1>0, <2>1, PoolKeeps DEF UpgradeInv
<1>2. ScaleDue'
  <2>1. CASE UNCHANGED <<c, act>>
    BY <1>0, <2>1 DEF UpgradeInv, ScaleDue, Exists
  <2>2. CASE c = NoCluster /\ UNCHANGED act
    <3>1. act.kind # "scale"
      BY <2>2 DEF Typed, ActOK, NoCluster, NoSpec
    <3> QED
      BY <2>2, <3>1 DEF ScaleDue
  <2>3. CASE act' = NoAction
    BY <2>3 DEF ScaleDue, NoAction
  <2>4. CASE /\ act'.kind = "scale" =>
                  /\ act'.pool \in Pools /\ cSets[act'.pool] # NoSet
                  /\ cSets[act'.pool].annot = c.spec.version
             /\ UNCHANGED c /\ c \in ClusterType
    <3> SUFFICES ASSUME act'.kind = "scale", Exists(act'.pool)
                 PROVE  sets[act'.pool].annot = c.spec.version
      BY <1>0, <2>4 DEF ScaleDue, Exists
    <3> DEFINE p == act'.pool
    <3>1. p \in Pools /\ cSets[p] # NoSet /\ cSets[p].annot = c.spec.version
      BY <2>4
    <3>2. Bounded(p) /\ CacheOlder(p)
      BY <3>1 DEF UpgradeInv, PoolInv
    <3>3. Reached = c.spec.version
      BY <2>4, CopyType DEF Reached
    <3> HIDE DEF p
    <3>4. /\ c.spec.version <= sets[p].annot /\ sets[p].annot <= sets[p].image
          /\ sets[p].image <= c.spec.version
      BY <3>1, <3>2, <3>3 DEF p, Bounded, CacheOlder
    <3>5. /\ sets[p].annot \in Nat /\ sets[p].image \in Nat
          /\ c.spec.version \in Nat
      BY <3>1, <3>3, Numbers, Versions
    <3> QED
      BY <3>4, <3>5, SMT DEF p
  <2> QED
    BY <2>1, <2>2, <2>3, <2>4 DEF Ruled
<1> QED
  BY <1>1, <1>2

\* Every step keeps the invariant of the upgrades.
LEMMA StepUpgrade ==
  ASSUME Counting, UpgradesOnly, NoEmptyPool, Typed, Typed', UpgradeInv,
         [Next]_vars
  PROVE  UpgradeInv'
<1>0. Ahead' /\ Reached <= Reached' /\ Reached' \in Nat
  BY StepAhead DEF UpgradeInv
<1>1. ScaleDue /\ (\A q \in Pools : PoolInv(q)) /\ sets \in [Pools -> SetType]
  BY Groups DEF UpgradeInv, SetsOK
<1>2. ASSUME NEW p \in Pools, NEW i \in Ordinals, NodeStep(p, i)
      PROVE  ScaleDue' /\ \A q \in Pools : PoolInv(q)'
  <2>1. UNCHANGED <<cCluster, sets, cSets, c, act>>
    BY <1>2, Untouched
  <2>2. ScaleDue' /\ Reached' = Reached
    BY <1>1, <2>1 DEF ScaleDue, Exists, Reached
  <2>3. ASSUME NEW q \in Pools PROVE PoolInv(q)'
    <3>1. \A j \in Ordinals : Effect(q, j)
      BY <1>2, NodeEffect
    <3> QED
      BY <1>1, <2>1, <2>2, <3>1, NodesKeep
  <2> QED
    BY <2>2, <2>3
<1>3. ASSUME NEW p \in Pools, SetStatus(p)
      PROVE  ScaleDue' /\ \A q \in Pools : PoolInv(q)'
  <2>1. UNCHANGED <<cCluster, cSets, c, act>> /\ Quiet
    BY <1>3, Untouched
  <2>2. Reached' = Reached /\ Reached \in Nat /\ Reached <= Reached'
    BY <2>1, Versions, SMT DEF Reached
  <2>3. sets[p] # NoSet /\ sets' = [sets EXCEPT ![p] = StatusNow(p)]
    BY <1>3 DEF SetStatus
  <2>4. PoolInv(p)' /\ sets'[p].annot = sets[p].annot
    BY <1>1, <2>1, <2>2, <2>3, StatusKeeps, ZenonT(60)
  <2>5. ASSUME NEW q \in Pools, q # p
        PROVE  sets'[q] = sets[q] /\ PoolInv(q)'
    <3>1. sets'[q] = sets[q]
      BY <1>1, <2>3, <2>5
    <3> QED
      BY <1>1, <2>1, <2>2, <3>1, PoolKeeps
  <2>6. ScaleDue'
    <3>1. act.kind = "scale" => act.pool \in Pools
      BY Groups, CopyType, SpecType, SMT, Z3 DEF Typed, ActOK, SyncOK, NoCluster,
         NoSpec
    <3> QED
      BY <1>1, <2>1, <2>3, <2>4, <2>5, <3>1, ZenonT(60) DEF ScaleDue, Exists
  <2> QED
    BY <2>4, <2>5, <2>6
<1> QED
  BY <1>0, <1>2, <1>3, Steps, ActedKeeps, RuledKeeps, ZenonT(60) DEF UpgradeInv

\* UpdateVersion is all that changes the template and the annotation of a set.
LEMMA ChangedByUpgrade ==
  ASSUME Typed, [Next]_vars, NEW p \in Pools, Kept(p)
  PROVE  \/ /\ sets'[p].annot = sets[p].annot
            /\ sets'[p].image = sets[p].image
            /\ sets'[p].partition = sets[p].partition
         \/ Acted /\ Marked(p)
         \/ Acted /\ Lowered(p)
<1>0. sets \in [Pools -> SetType] /\ sets[p] \in SetType
  BY Groups, Objects DEF SetsOK
<1> DEFINE Same == /\ sets'[p].annot = sets[p].annot
                   /\ sets'[p].image = sets[p].image
                   /\ sets'[p].partition = sets[p].partition
<1>1. CASE UNCHANGED sets
  BY <1>1
<1>2. ASSUME NEW q \in Pools, SetStatus(q)
      PROVE  Same
  <2>1. sets' = [sets EXCEPT ![q] = StatusNow(q)]
    BY <1>2 DEF SetStatus
  <2>2. CASE q = p
    BY <1>0, <2>1, <2>2, StatusFields
  <2>3. CASE q # p
    BY <1>0, <2>1, <2>3
  <2> QED
    BY <2>2, <2>3
<1>3. CASE Acted
  <2>1. CASE Deleted
    BY <1>0, <2>1 DEF Deleted, Kept
  <2>2. ASSUME NEW q \in Pools, Made(q) \/ Resized(q) \/ Marked(q) \/ Lowered(q)
        PROVE  Same \/ Marked(p) \/ Lowered(p)
    <3>1. CASE q # p
      <4>1. sets'[p] = sets[p]
        BY <1>0, <2>2, <3>1, Zenon DEF Made, Resized, Marked, Lowered
      <4> QED
        BY <4>1
    <3>2. Made(p) => FALSE
      BY DEF Made, Kept
    <3>3. Resized(p) => Same
      BY <1>0 DEF Resized, SetType
    <3> QED
      BY <2>2, <3>1, <3>2, <3>3
  <2> QED
    BY <1>1, <1>3, <2>1, <2>2 DEF Acted
<1> QED
  BY <1>1, <1>2, <1>3, Steps, Untouched DEF Ruled

\* The annotation moves when all pods are at the version of the template.
LEMMA StepAnnotation ==
  ASSUME Typed, UpgradeInv, [Next]_vars, NEW p \in Pools, Kept(p),
         sets'[p].annot # sets[p].annot
  PROVE  /\ sets[p].image = sets'[p].annot
         /\ \A i \in Replicas(p) : pods[p][i].image = sets'[p].annot
<1>0. /\ PoolInv(p) /\ Bounded(p) /\ Reports(p)
      /\ sets \in [Pools -> SetType] /\ sets[p] \in SetType
  BY Groups, Objects DEF UpgradeInv, PoolInv, SetsOK
<1>1. ASSUME Lowered(p) PROVE FALSE
  BY <1>0, <1>1 DEF Lowered, SetType
<1>2. Acted /\ Marked(p)
  BY <1>1, ChangedByUpgrade
<1>3. /\ c \in ClusterType /\ sets[p] = cSets[p] /\ sets[p] # NoSet
      /\ sets[p].annot # c.spec.version /\ PilotsUpToDate(p)
  BY <1>2 DEF Acted, Marked
<1>4. sets'[p].annot = c.spec.version
  BY <1>0, <1>2 DEF Marked, SetType
<1>5. /\ sets[p].image = c.spec.version
      /\ \A i \in Ordinals : i < sets[p].replicas =>
           cPilots[p][i].ver = sets[p].image
  BY <1>0, <1>3, UpToDate
<1>6. Upgrading(p)
  <2>1. sets[p].annot <= sets[p].image /\ sets[p].annot # sets[p].image
    BY <1>0, <1>3, <1>5 DEF Bounded
  <2>2. sets[p].annot \in Nat /\ sets[p].image \in Nat
    BY Numbers
  <2>3. sets[p].annot < sets[p].image
    BY <2>1, <2>2, SMT
  <2> QED
    BY <1>3, <2>3 DEF Upgrading, Exists
<1>7. ASSUME NEW i \in Replicas(p) PROVE pods[p][i].image = sets[p].image
  <2>1. i \in Ordinals /\ i < sets[p].replicas
    <3>1. sets[p].replicas \in 0 .. MaxReplicas /\ MaxReplicas \in Nat
      BY Numbers, ElasticsearchAssumption
    <3> QED
      BY <3>1, SMT DEF Replicas, Ordinals
  <2> QED
    BY <1>0, <1>5, <1>6, <2>1 DEF Reports
<1> QED
  BY <1>4, <1>5, <1>7

\* The next node is handed over when those above it are done.
LEMMA StepFromTop ==
  ASSUME Typed, UpgradeInv, UpgradeInv', [Next]_vars, NEW p \in Pools, Kept(p),
         \/ sets'[p].partition # sets[p].partition
         \/ sets'[p].image # sets[p].image,
         NEW i \in Replicas(p), i > sets'[p].partition
  PROVE  pods[p][i].image = sets'[p].image /\ pods[p][i].posted
<1>0. sets \in [Pools -> SetType] /\ sets[p] \in SetType
  BY Groups, Objects DEF SetsOK
<1>a. Bounded(p) /\ FromTop(p)'
  BY DEF UpgradeInv, PoolInv
<1>1. ASSUME Marked(p) PROVE FALSE
  <2>1. sets'[p] = [sets[p] EXCEPT !.annot = c.spec.version]
    BY <1>0, <1>1, Zenon DEF Marked
  <2> QED
    BY <1>0, <2>1 DEF SetType
<1>2. Acted /\ Lowered(p)
  BY <1>1, ChangedByUpgrade
<1>3. /\ c \in ClusterType /\ sets[p].annot # c.spec.version
      /\ UNCHANGED pods
  BY <1>2 DEF Acted, Lowered, Quiet
<1>4. /\ sets'[p].annot = sets[p].annot /\ sets'[p].image = c.spec.version
      /\ sets'[p].replicas = sets[p].replicas
  <2>1. sets'[p] = [sets[p] EXCEPT !.partition = NextPartition(sets[p]),
                                   !.image = c.spec.version]
    BY <1>0, <1>2, Zenon DEF Lowered
  <2> QED
    BY <1>0, <2>1 DEF SetType
<1>5. sets[p].annot < c.spec.version
  <2>1. Reached = c.spec.version
    BY <1>3, CopyType DEF Reached
  <2>2. sets[p].annot \in Nat /\ c.spec.version \in Nat
    BY <2>1, Numbers, Versions
  <2>3. sets[p].annot <= sets[p].image /\ sets[p].image <= c.spec.version
    BY <1>a, <2>1 DEF Bounded
  <2>4. sets[p].image \in Nat
    BY Numbers
  <2> QED
    BY <1>3, <2>2, <2>3, <2>4, SMT, Z3
<1>6. Upgrading(p)'
  BY <1>4, <1>5 DEF Upgrading, Exists, Kept
<1>7. i \in Ordinals /\ i < sets[p].replicas
  <2>1. sets[p].replicas \in 0 .. MaxReplicas /\ MaxReplicas \in Nat
    BY Numbers, ElasticsearchAssumption
  <2> QED
    BY <2>1, SMT DEF Replicas, Ordinals
<1> QED
  BY <1>a, <1>3, <1>4, <1>6, <1>7, ZenonT(60) DEF FromTop

-----------------------------------------------------------------------------
(* The operators.                                                          *)

\* The resources are told from the other steps of a sync by their names.
LEMMA ResourceNames ==
  /\ DOMAIN Ensured = 1 .. (5 + NumPools)
  /\ \A n \in DOMAIN Ensured : Ensured[n] \in Resources
  /\ Resources \cap {"idle", "next", "execute", "status"} = {}
<1>1. DOMAIN Ensured = 1 .. (5 + NumPools)
  BY DEF Ensured
<1>2. \A n \in DOMAIN Ensured : Ensured[n] \in Resources
  BY DEF Resources
<1>3. ASSUME NEW n \in 1 .. (5 + NumPools)
      PROVE  Ensured[n] \notin {"idle", "next", "execute", "status"}
  <2>1. CASE n <= 5
    BY <2>1, ElasticsearchAssumption, SMT, Z3 DEF Ensured, Shared
  <2>2. CASE n > 5
    <3>1. n - 5 \in Pools
      BY <2>2, ElasticsearchAssumption, SMT, Z3 DEF Pools
    <3>2. Ensured[n] = ConfigMaps[n - 5]
      BY <2>2, ElasticsearchAssumption, SMT DEF Ensured
    <3> QED
      BY <3>1, <3>2, ElasticsearchAssumption
  <2> QED
    BY <2>1, <2>2, ElasticsearchAssumption, SMT, Z3
<1> QED
  BY <1>1, <1>2, <1>3 DEF Resources

\* What Sync does after a resource is another resource or the choice of an
\* action.
LEMMA StepAfterType ==
  ASSUME NEW m, NEW k
  PROVE  StepAfter(m, k) \in Resources \cup {"next"}
<1> DEFINE todo == {n \in DOMAIN Ensured : n > m /\ ~Passed(n, k)}
<1>1. CASE todo = {}
  BY <1>1 DEF StepAfter
<1>2. CASE todo # {}
  <2>1. todo \in SUBSET Nat
    BY ResourceNames, SMT
  <2>2. Min(todo) \in todo
    BY <1>2, <2>1, LeastNumber
  <2> QED
    BY <1>2, <2>2, ResourceNames DEF StepAfter
<1> QED
  BY <1>1, <1>2

\* So many numbers are there between two bounds at most.
LEMMA CountBetween ==
  ASSUME NEW a \in Nat, NEW b \in Nat, a <= b,
         NEW S \in SUBSET (a .. (b - 1))
  PROVE  IsFiniteSet(S) /\ Cardinality(S) \in 0 .. (b - a)
<1>1. IsFiniteSet(a .. (b - 1)) /\ Cardinality(a .. (b - 1)) = b - a
  <2>1. b - 1 \in Int /\ a \in Int
    BY SMT
  <2>2. /\ IsFiniteSet(a .. (b - 1))
        /\ Cardinality(a .. (b - 1)) = IF a > b - 1 THEN 0 ELSE b - 1 - a + 1
    BY <2>1, FS_Interval
  <2> QED
    BY <2>2, SMT
<1>2. IsFiniteSet(S) /\ Cardinality(S) <= Cardinality(a .. (b - 1))
  BY <1>1, FS_Subset
<1> QED
  BY <1>1, <1>2, FS_CardinalityType, SMT, Z3

\* A finite set of numbers has at least as many members as the interval in it.
LEMMA CountAbove ==
  ASSUME NEW a \in Nat, NEW b \in Nat, a < b, NEW S, IsFiniteSet(S),
         (a + 1) .. (b - 1) \subseteq S
  PROVE  Cardinality(S) \in Nat /\ Cardinality(S) >= b - 1 - a
<1>1. Cardinality((a + 1) .. (b - 1)) = b - 1 - a
  BY FS_Interval, SMT
<1>2. Cardinality((a + 1) .. (b - 1)) <= Cardinality(S)
  BY FS_Subset
<1> QED
  BY <1>1, <1>2, FS_CardinalityType

\* The two together are what the invariant of the upgrades rests on.
LEMMA CountingHolds == Counting
<1> SUFFICES ASSUME NEW a \in Nat, NEW b \in Nat, a <= b,
                    NEW S \in SUBSET (a .. (b - 1))
             PROVE  /\ Cardinality(S) \in 0 .. (b - a)
                    /\ (a + 1) .. (b - 1) \subseteq S =>
                         Cardinality(S) >= b - 1 - a
  BY DEF Counting
<1>1. IsFiniteSet(S) /\ Cardinality(S) \in 0 .. (b - a)
  BY CountBetween
<1>2. CASE a = b
  BY <1>1, <1>2, SMT
<1>3. CASE a < b
  BY <1>1, <1>3, CountAbove
<1> QED
  BY <1>1, <1>2, <1>3, SMT, Z3

-----------------------------------------------------------------------------
(* Types.                                                                  *)

\* A Pilot with a new report is a Pilot, with the documents that it reports.
LEMMA PilotUpdate ==
  ASSUME NEW r \in PilotType, NEW d \in {Unknown, 0, 1}, NEW n \in 0 .. MaxVersion
  PROVE  LET v == [r EXCEPT !.docs = d, !.ver = n]
         IN  v \in PilotType /\ v.docs = d
BY DEF PilotType

\* TypeOK holds initially.
LEMMA InitTyped == Init => Typed
<1> SUFFICES ASSUME Init PROVE Typed
  OBVIOUS
<1>1. PICK s \in Scenarios :
        /\ cluster = [spec |-> s.spec, cond |-> "none", health |-> "Green"]
        /\ sets = [p \in Pools |-> InitialSet(s.spec, p)]
        /\ pods = [p \in Pools |->
                     [i \in Ordinals |-> InitialPod(s.spec, p, i)]]
        /\ docs = [p \in Pools |-> InitialDocs(s.spec, p)]
        /\ pilots = [p \in Pools |->
                       [i \in Ordinals |-> InitialPilot(s.spec, p, i, docs)]]
        /\ objs = s.objs
  BY Zenon DEF Init
<1>2. /\ cCluster = cluster /\ cSets = sets /\ cObjs = objs
      /\ cPilots = pilots /\ podEvents = {} /\ queued = TRUE /\ pc = "idle"
      /\ c = NoCluster /\ act = NoAction /\ syncErr = FALSE
  BY Zenon DEF Init
<1>3. s.spec \in Specs /\ s.objs \in [Resources -> Owners]
  BY ElasticsearchAssumption
<1>4. cluster \in ClusterType
  BY <1>1, <1>3 DEF ClusterType
<1>5. sets \in [Pools -> SetType]
  BY <1>1, <1>3, ValueTypes
<1>6. s.spec.version \in 0 .. MaxVersion
  BY <1>3, SpecType, SMT
<1>7. pods \in [Pools -> [Ordinals -> PodType]]
  <2>1. ASSUME NEW p, NEW i PROVE InitialPod(s.spec, p, i) \in PodType
    BY <1>6, ValueTypes DEF InitialPod, PodType
  <2> QED
    BY <1>1, <2>1
<1>8. pilots \in [Pools -> [Ordinals -> PilotType]]
  <2>1. ASSUME NEW p, NEW i
        PROVE  InitialPilot(s.spec, p, i, docs) \in PilotType
    <3>1. Holds(p, i, docs) \in {Unknown, 0, 1}
      BY DEF Holds
    <3> QED
      BY <1>6, <3>1, ValueTypes DEF InitialPilot, PilotType
  <2> QED
    BY <1>1, <2>1
<1>9. docs \in [Pools -> SUBSET Ordinals]
  <2>1. ASSUME NEW p \in Pools PROVE InitialDocs(s.spec, p) \subseteq Ordinals
    BY <1>3, SpecType, ElasticsearchAssumption, SMT, Z3 DEF InitialDocs, NodesOf,
       Ordinals
  <2> QED
    BY <1>1, <2>1
<1>10. NoAction.kind = "reconcile"
       /\ NoAction \in [kind: {"create", "update", "scale", "reconcile"},
                        pool: 0 .. NumPools]
  BY ElasticsearchAssumption, SMT DEF NoAction
<1> QED
  BY <1>1, <1>2, <1>3, <1>4, <1>5, <1>7, <1>8, <1>9, <1>10, ZenonT(60) DEF Typed,
     TypeOK, ActOK, PodType

\* The same, after a step.
LEMMA GroupsAfter ==
  ClusterOK' /\ SetsOK' /\ ObjsOK' /\ PilotsOK' /\ NodesOK' /\ SyncOK' => Typed'
BY DEF Typed, TypeOK, ClusterOK, SetsOK, ObjsOK, PilotsOK, NodesOK, SyncOK,
       PodType

\* What leaves a group of variables alone keeps their types.
LEMMA GroupsKept ==
  /\ ClusterOK /\ UNCHANGED <<cluster, cCluster>> => ClusterOK'
  /\ SetsOK /\ UNCHANGED <<sets, cSets>> => SetsOK'
  /\ ObjsOK /\ UNCHANGED <<objs, cObjs>> => ObjsOK'
  /\ PilotsOK /\ UNCHANGED <<pilots, cPilots>> => PilotsOK'
  /\ NodesOK /\ UNCHANGED <<pods, docs, podEvents>> => NodesOK'
  /\ SyncOK /\ UNCHANGED <<c, pc, queued, syncErr, act>> => SyncOK'
<1>1. ClusterOK /\ UNCHANGED <<cluster, cCluster>> => ClusterOK'
  BY DEF ClusterOK
<1>2. SetsOK /\ UNCHANGED <<sets, cSets>> => SetsOK'
  BY DEF SetsOK
<1>3. ObjsOK /\ UNCHANGED <<objs, cObjs>> => ObjsOK'
  BY DEF ObjsOK
<1>4. PilotsOK /\ UNCHANGED <<pilots, cPilots>> => PilotsOK'
  BY DEF PilotsOK
<1>5. NodesOK /\ UNCHANGED <<pods, docs, podEvents>> => NodesOK'
  BY DEF NodesOK
<1>6. SyncOK /\ UNCHANGED <<c, pc, queued, syncErr, act>> => SyncOK'
  BY DEF SyncOK, ActOK
<1> QED
  BY <1>1, <1>2, <1>3, <1>4, <1>5, <1>6, ZenonT(60)

\* The StatefulSet controller and the kubelet keep the types.
LEMMA StatefulSetsTyped == Typed /\ StatefulSets => Typed'
<1> SUFFICES ASSUME Typed, StatefulSets PROVE Typed'
  OBVIOUS
<1>0. ClusterOK /\ SetsOK /\ ObjsOK /\ PilotsOK /\ NodesOK /\ SyncOK
  BY Groups
<1>1. ASSUME NEW p \in Pools, NEW i \in Ordinals, CreatePod(p, i)
      PROVE  Typed'
  <2> DEFINE v == [pods[p][i] EXCEPT !.image = Revision(p, i)]
  <2>1. pods' = [pods EXCEPT ![p][i] = v]
    BY <1>1 DEF CreatePod
  <2>2. Revision(p, i) \in 0 .. MaxVersion
    BY Objects, SetFields DEF Revision
  <2>3. v \in PodType
    BY <2>2, Objects DEF PodType
  <2> HIDE DEF v
  <2>4. NodesOK'
    <3>1. pods' \in [Pools -> [Ordinals -> PodType]]
      BY <1>0, <2>1, <2>3, Put DEF NodesOK
    <3> QED
      BY <1>0, <1>1, <3>1 DEF CreatePod, NodesOK
  <2> QED
    BY <1>0, <1>1, <2>4, GroupsAfter, GroupsKept
       DEF CreatePod, apiVars, cacheVars, syncVars
<1>2. ASSUME NEW p \in Pools, NEW i \in Ordinals, EndPod(p, i)
      PROVE  Typed'
  <2>1. NodesOK'
    BY <1>0, <1>2, ValueTypes, Put DEF EndPod, NodesOK
  <2>2. PilotsOK'
    <3> DEFINE v == [pilots[p][i] EXCEPT !.orphan = pilots[p][i].exists]
    <3>1. pilots' = [pilots EXCEPT ![p][i] = v] /\ cPilots' = cPilots
      BY <1>2 DEF EndPod, cacheVars
    <3>2. v \in PilotType
      BY Objects, ZenonT(60) DEF PilotType
    <3> HIDE DEF v
    <3> QED
      BY <1>0, <3>1, <3>2, Put DEF PilotsOK
  <2> QED
    BY <1>0, <1>2, <2>1, <2>2, GroupsAfter, GroupsKept, ZenonT(60) DEF EndPod,
       cacheVars, syncVars
<1>3. ASSUME NEW p \in Pools, NEW i \in Ordinals, PodReady(p, i)
      PROVE  Typed'
  <2> DEFINE v == [pods[p][i] EXCEPT !.ready = TRUE]
  <2>1. pods' = [pods EXCEPT ![p][i] = v]
    BY <1>3 DEF PodReady
  <2>2. v \in PodType
    BY Objects DEF PodType
  <2> HIDE DEF v
  <2>3. NodesOK'
    <3>1. pods' \in [Pools -> [Ordinals -> PodType]]
      BY <1>0, <2>1, <2>2, Put DEF NodesOK
    <3> QED
      BY <1>0, <1>3, <3>1, ZenonT(60) DEF PodReady, NodesOK
  <2> QED
    BY <1>0, <1>3, <2>3, GroupsAfter, GroupsKept
       DEF PodReady, apiVars, cacheVars, syncVars
<1>4. ASSUME NEW p \in Pools, SetStatus(p)
      PROVE  Typed'
  <2>1. sets' = [sets EXCEPT ![p] = StatusNow(p)] /\ cSets' = cSets
    BY <1>4 DEF SetStatus, cacheVars
  <2>2. /\ Cardinality(Ready(p)) \in 0 .. MaxReplicas
        /\ Cardinality(Updated(p)) \in 0 .. MaxReplicas
    <3>1. Ready(p) \in SUBSET (0 .. (MaxReplicas - 1))
          /\ Updated(p) \in SUBSET (0 .. (MaxReplicas - 1))
      BY DEF Ready, Updated, Live, Ordinals
    <3>2. 0 \in Nat /\ MaxReplicas \in Nat /\ 0 <= MaxReplicas
          /\ MaxReplicas - 0 = MaxReplicas
      BY ElasticsearchAssumption, SMT
    <3> QED
      BY <3>1, <3>2, CountBetween
  <2>3. StatusNow(p) \in SetType
    BY <2>2, Objects DEF StatusNow, SetType
  <2>4. SetsOK'
    BY <1>0, <2>1, <2>3 DEF SetsOK
  <2> QED
    BY <1>0, <1>4, <2>4, GroupsAfter, GroupsKept, ZenonT(60) DEF SetStatus, nodeVars,
       cacheVars, syncVars
<1> QED
  BY <1>1, <1>2, <1>3, <1>4, Zenon DEF StatefulSets, RemovePod, RollPod

\* The pilots keep the types.
LEMMA PilotsTyped == Typed /\ PilotsOfNodes => Typed'
<1> SUFFICES ASSUME Typed, PilotsOfNodes PROVE Typed'
  OBVIOUS
<1>0. ClusterOK /\ SetsOK /\ ObjsOK /\ PilotsOK /\ NodesOK /\ SyncOK
  BY Groups
<1>1. ASSUME NEW p \in Pools, NEW i \in Ordinals, NEW v \in PilotType,
             SetPilot(p, i, v), NodesOK'
      PROVE  Typed'
  <2>1. PilotsOK'
    BY <1>0, <1>1, Put DEF SetPilot, PilotsOK, cacheVars
  <2> QED
    BY <1>0, <1>1, <2>1, GroupsAfter, GroupsKept
       DEF SetPilot, cacheVars, syncVars
<1>2. ASSUME NEW p \in Pools, NEW i \in Ordinals,
             PilotCreated(p, i) \/ PilotCollected(p, i)
      PROVE  Typed'
  <2>1. NodesOK'
    BY <1>0, <1>2, GroupsKept DEF PilotCreated, PilotCollected, SetPilot
  <2> QED
    BY <1>1, <1>2, <2>1, ValueTypes DEF PilotCreated, PilotCollected
<1>3. ASSUME NEW p \in Pools, NEW i \in Ordinals, NEW stats \in BOOLEAN,
             NEW info \in BOOLEAN, PilotPosts(p, i, stats, info)
      PROVE  Typed'
  <2> DEFINE d == IF stats THEN Holds(p, i, docs) ELSE Unknown
             n == IF info THEN pods[p][i].image ELSE pilots[p][i].ver
             v == [pilots[p][i] EXCEPT !.docs = d, !.ver = n]
             w == [pods[p][i] EXCEPT !.posted = @ \/ info]
  <2>1. SetPilot(p, i, v)
    BY <1>3 DEF PilotPosts
  <2>2. pods' = [pods EXCEPT ![p][i] = w]
    BY <1>3 DEF PilotPosts
  <2>3. d \in {Unknown, 0, 1}
    BY DEF Holds
  <2>4. n \in 0 .. MaxVersion
    BY Objects, PodFields, PilotFields
  <2>5. v \in PilotType
    <3> HIDE DEF d, n
    <3>1. pilots[p][i] \in PilotType
      BY Objects
    <3> QED
      BY <2>3, <2>4, <3>1, PilotUpdate
  <2>6. w \in PodType
    BY Objects DEF PodType
  <2> HIDE DEF v, w
  <2>7. NodesOK'
    BY <1>0, <2>1, <2>2, <2>6, Put, ZenonT(60) DEF SetPilot, NodesOK
  <2> QED
    BY <1>1, <2>1, <2>5, <2>7
<1> QED
  BY <1>2, <1>3, Zenon DEF PilotsOfNodes

\* The informers keep the types.
LEMMA InformersTyped == Typed /\ Informers => Typed'
<1> SUFFICES ASSUME Typed, Informers PROVE Typed'
  OBVIOUS
<1>0. ClusterOK /\ SetsOK /\ ObjsOK /\ PilotsOK /\ NodesOK /\ SyncOK
  BY Groups
<1>1. CASE ObserveCluster
  <2>1. ClusterOK'
    BY <1>0, <1>1 DEF ObserveCluster, ClusterOK, apiVars
  <2>2. SyncOK'
    BY <1>0, <1>1 DEF ObserveCluster, SyncOK, ActOK
  <2> QED
    BY <1>0, <1>1, <2>1, <2>2, GroupsAfter, GroupsKept
       DEF ObserveCluster, apiVars, nodeVars
<1>2. ASSUME NEW p \in Pools, ObserveSet(p)
      PROVE  Typed'
  <2>1. SetsOK'
    BY <1>0, <1>2, Objects DEF ObserveSet, SetsOK, apiVars
  <2>2. SyncOK'
    BY <1>0, <1>2 DEF ObserveSet, SyncOK, ActOK
  <2> QED
    BY <1>0, <1>2, <2>1, <2>2, GroupsAfter, GroupsKept, ZenonT(60) DEF ObserveSet,
       apiVars, nodeVars
<1>3. ASSUME NEW r \in Resources, ObserveObj(r)
      PROVE  Typed'
  <2>1. ObjsOK'
    BY <1>0, <1>3 DEF ObserveObj, ObjsOK, apiVars
  <2>2. SyncOK'
    BY <1>0, <1>3 DEF ObserveObj, SyncOK, ActOK
  <2> QED
    BY <1>0, <1>3, <2>1, <2>2, GroupsAfter, GroupsKept, ZenonT(60) DEF ObserveObj,
       apiVars, nodeVars
<1>4. ASSUME NEW p \in Pools, NEW i \in Ordinals, ObservePilot(p, i)
      PROVE  Typed'
  <2>1. Seen(pilots[p][i]) \in PilotType
    BY Objects, ZenonT(60) DEF Seen, PilotType
  <2>2. PilotsOK'
    BY <1>0, <1>4, <2>1, Put DEF ObservePilot, PilotsOK, apiVars
  <2> QED
    BY <1>0, <1>4, <2>2, GroupsAfter, GroupsKept
       DEF ObservePilot, apiVars, nodeVars, syncVars
<1>5. ASSUME NEW p \in Pools, ObservePod(p)
      PROVE  Typed'
  <2>1. NodesOK'
    BY <1>0, <1>5 DEF ObservePod, NodesOK, nodeVars
  <2>2. SyncOK'
    BY <1>0, <1>5 DEF ObservePod, SyncOK, ActOK
  <2> QED
    BY <1>0, <1>5, <2>1, <2>2, GroupsAfter, GroupsKept, ZenonT(60) DEF ObservePod,
       apiVars, cacheVars
<1> QED
  BY <1>1, <1>2, <1>3, <1>4, <1>5, ZenonT(60) DEF Informers

\* Idle ends a sync.
LEMMA IdleTyped ==
  ASSUME Typed, Idle, queued' \in BOOLEAN
  PROVE  SyncOK'
<1>1. NoAction.kind = "reconcile"
      /\ NoAction \in [kind: {"create", "update", "scale", "reconcile"},
                       pool: 0 .. NumPools]
  BY ElasticsearchAssumption, SMT DEF NoAction
<1> QED
  BY <1>1 DEF Idle, SyncOK, ActOK

\* Users, the leading pilot, the nodes and failing calls keep the types.
LEMMA EnvironmentTyped == Typed /\ Environment => Typed'
<1> SUFFICES ASSUME Typed, Environment PROVE Typed'
  OBVIOUS
<1>0. ClusterOK /\ SetsOK /\ ObjsOK /\ PilotsOK /\ NodesOK /\ SyncOK
  BY Groups
<1>1. ASSUME NEW spec \in Specs, EditSpec(spec)
      PROVE  Typed'
  <2>1. ClusterOK'
    BY <1>0, <1>1 DEF EditSpec, ClusterOK, ClusterType, cacheVars
  <2> QED
    BY <1>0, <1>1, <2>1, GroupsAfter, GroupsKept
       DEF EditSpec, cacheVars, nodeVars, syncVars
<1>2. ASSUME NEW h \in {"none", "Red", "Green"}, LeaderPosts(h)
      PROVE  Typed'
  <2>1. ClusterOK'
    BY <1>0, <1>2 DEF LeaderPosts, ClusterOK, ClusterType, cacheVars
  <2> QED
    BY <1>0, <1>2, <2>1, GroupsAfter, GroupsKept, ZenonT(60) DEF LeaderPosts,
       cacheVars, nodeVars, syncVars
<1>3. ASSUME NEW p \in Pools, NEW i \in Ordinals, Drain(p, i)
      PROVE  Typed'
  <2>1. NodesOK'
    BY <1>0, <1>3 DEF Drain, NodesOK
  <2> QED
    BY <1>0, <1>3, <2>1, GroupsAfter, GroupsKept
       DEF Drain, apiVars, cacheVars, syncVars
<1>4. CASE FailCall
  <2>1. GiveUp /\ pc # "idle" /\ UNCHANGED <<queued, c, act>> => SyncOK'
    BY <1>0 DEF GiveUp, SyncOK, ActOK
  <2>2. Idle /\ queued' = TRUE => SyncOK'
    BY IdleTyped
  <2>3. SyncOK'
    BY <1>4, <2>1, <2>2, ResourceNames DEF FailCall
  <2> QED
    BY <1>0, <1>4, <2>3, GroupsAfter, GroupsKept, ZenonT(60) DEF FailCall, apiVars,
       cacheVars, nodeVars
<1> QED
  BY <1>1, <1>2, <1>3, <1>4, ZenonT(60) DEF Environment

\* Finish ends the Action of a sync, whatever the Action wrote.
LEMMA FinishTyped ==
  ASSUME Typed, pc = "execute", NEW err \in BOOLEAN, Finish(err),
         sets' \in [Pools -> SetType]
  PROVE  Typed'
<1>0. ClusterOK /\ SetsOK /\ ObjsOK /\ PilotsOK /\ NodesOK /\ SyncOK
  BY Groups
<1>1. SyncOK'
  BY <1>0 DEF Finish, SyncOK, ActOK
<1>2. SetsOK'
  BY <1>0 DEF Finish, SetsOK, cacheVars
<1> QED
  BY <1>0, <1>1, <1>2, GroupsAfter, GroupsKept DEF Finish, cacheVars, nodeVars

\* The pod to replace next.
LEMMA NextPartitionType ==
  ASSUME NEW s \in SetType
  PROVE  /\ NextPartition(s) \in Int
         /\ NextPartition(s) >= 0 => NextPartition(s) \in Ordinals
BY SetFields, ElasticsearchAssumption, SMT, Z3 DEF NextPartition, Ordinals

\* UpdateVersion writes its pool's set or leaves it, and then finishes.
LEMMA UpdateVersionTyped == Typed /\ UpdateVersion => Typed'
<1> SUFFICES ASSUME Typed, UpdateVersion PROVE Typed'
  OBVIOUS
<1> DEFINE p == act.pool
           v == c.spec.version
           n == NextPartition(cSets[p])
<1>1. pc = "execute" /\ act.kind = "update"
  BY DEF UpdateVersion, Executing
<1>2. p \in Pools /\ v \in 0 .. MaxVersion
  BY <1>1, ActionType, SMT, Z3
<1>3. sets \in [Pools -> SetType] /\ cSets[p] \in SetType
  BY <1>2, Objects, Groups DEF SetsOK
<1>4. ASSUME NEW err \in BOOLEAN, UNCHANGED sets, Finish(err)
      PROVE  Typed'
  BY <1>1, <1>3, <1>4, FinishTyped
<1>5. ASSUME WriteSet(p, [cSets[p] EXCEPT !.annot = v])
      PROVE  Typed'
  <2>1. [cSets[p] EXCEPT !.annot = v] \in SetType
    BY <1>2, <1>3 DEF SetType
  <2>2. sets' \in [Pools -> SetType] /\ \E err \in BOOLEAN : Finish(err)
    BY <1>3, <1>5, <2>1, ZenonT(60) DEF WriteSet
  <2> QED
    BY <1>1, <2>2, FinishTyped
<1>6. ASSUME WriteSet(p, [cSets[p] EXCEPT !.partition = n, !.image = v])
      PROVE  Typed'
  <2> DEFINE s == [cSets[p] EXCEPT !.partition = n, !.image = v]
  <2>1. s.partition = n
    BY <1>3 DEF SetType
  <2>2. n \in Ordinals => s \in SetType
    BY <1>2, <1>3 DEF SetType
  <2>3. n >= 0 => n \in Ordinals
    BY <1>3, NextPartitionType
  <2> HIDE DEF s, n
  <2>4. WriteSet(p, s)
    BY <1>6 DEF s
  <2>5. sets' \in [Pools -> SetType] /\ \E err \in BOOLEAN : Finish(err)
    BY <1>3, <2>1, <2>2, <2>3, <2>4, ZenonT(60) DEF WriteSet
  <2> QED
    BY <1>1, <2>5, FinishTyped
<1>7. ASSUME LowerPartition(p)
      PROVE  Typed'
  BY <1>4, <1>6, <1>7 DEF LowerPartition, Leave
<1> QED
  BY <1>4, <1>5, <1>7 DEF UpdateVersion, Leave

\* The worker keeps the types.
LEMMA SyncTyped == Typed /\ Sync => Typed'
<1> SUFFICES ASSUME Typed, Sync PROVE Typed'
  OBVIOUS
<1>0. ClusterOK /\ SetsOK /\ ObjsOK /\ PilotsOK /\ NodesOK /\ SyncOK
  BY Groups
<1>1. CASE BeginSync
  <2>1. StepAfter(0, cCluster) \in Resources \cup {"next"}
    BY StepAfterType
  <2>2. cCluster \in ClusterType /\ cCluster # NoCluster
    BY <1>0, CopyType, ZenonT(60) DEF ClusterOK
  <2>3. c = NoCluster /\ c.spec.pools = {}
    BY <1>0, <1>1, SMT, Z3 DEF BeginSync, SyncOK, NoCluster, NoSpec
  <2>4. SyncOK'
    BY <1>0, <1>1, <2>1, <2>2, <2>3, ResourceNames, ZenonT(60) DEF BeginSync, SyncOK,
       ActOK
  <2> QED
    BY <1>0, <1>1, <2>4, GroupsAfter, GroupsKept, ZenonT(60) DEF BeginSync, apiVars,
       cacheVars, nodeVars
<1>2. CASE EnsureResource
  <2>1. StepAfter(At(pc), c) \in Resources \cup {"next"}
    BY StepAfterType
  <2>2. pc \in Resources /\ UNCHANGED <<queued, c, act>>
    BY <1>2 DEF EnsureResource
  <2>3. \/ pc' = StepAfter(At(pc), c) /\ UNCHANGED syncErr
        \/ pc' = "status" /\ syncErr' = TRUE
    BY <1>2 DEF EnsureResource, GiveUp
  <2>4. SyncOK'
    BY <1>0, <2>1, <2>2, <2>3, ResourceNames, ZenonT(60) DEF SyncOK, ActOK
  <2>5. ObjsOK'
    <3>1. objs' = objs \/ objs' = [objs EXCEPT ![pc] = "this"]
      BY <1>2 DEF EnsureResource
    <3>2. cObjs' = cObjs
      BY <1>2 DEF EnsureResource, cacheVars
    <3> QED
      BY <1>0, <2>2, <3>1, <3>2 DEF ObjsOK, Owners
  <2> QED
    BY <1>0, <1>2, <2>4, <2>5, GroupsAfter, GroupsKept, ZenonT(60)
       DEF EnsureResource, cacheVars, nodeVars
<1>3. CASE NextAction
  <2> DEFINE needy == {p \in c.spec.pools : NextActionForNodePool(p) # "none"}
             first == [kind |-> NextActionForNodePool(Min(needy)),
                       pool |-> Min(needy)]
  <2>1. c \in ClusterType /\ c.spec.pools \subseteq Pools
    BY <1>0, <1>3, CopyType, SpecType, ZenonT(60) DEF NextAction, SyncOK
  <2>2. act' = IF needy = {} THEN NoAction ELSE first
    BY <1>3, Zenon DEF NextAction
  <2>3. pc' = "execute" /\ UNCHANGED <<c, queued, syncErr>> /\ pc = "next"
    BY <1>3 DEF NextAction
  <2>5. ASSUME needy # {}
        PROVE  /\ first \in [kind: {"create", "update", "scale", "reconcile"},
                             pool: 0 .. NumPools]
               /\ first.pool \in c.spec.pools
    <3>1. needy \in SUBSET Nat
      BY <2>1, ElasticsearchAssumption, SMT DEF Pools
    <3>2. Min(needy) \in needy
      BY <2>5, <3>1, LeastNumber
    <3>3. NextActionForNodePool(Min(needy)) \in {"create", "update", "scale"}
      BY <3>2 DEF NextActionForNodePool
    <3>4. Min(needy) \in c.spec.pools
      BY <3>2, ZenonT(60)
    <3>5. Min(needy) \in 0 .. NumPools
      <4> HIDE DEF needy
      <4> QED
        BY <2>1, <3>4, ElasticsearchAssumption, SMT, Z3 DEF Pools
    <3> QED
      BY <3>3, <3>4, <3>5, ZenonT(60)
  <2>6. NoAction \in [kind: {"create", "update", "scale", "reconcile"},
                      pool: 0 .. NumPools]
        /\ NoAction.kind = "reconcile"
    BY ElasticsearchAssumption, SMT, Z3 DEF NoAction
  <2> HIDE DEF needy, first
  <2>7. SyncOK'
    BY <1>0, <2>2, <2>3, <2>5, <2>6, ZenonT(60) DEF SyncOK, ActOK
  <2> QED
    BY <1>0, <1>3, <2>7, GroupsAfter, GroupsKept, ZenonT(60) DEF NextAction, apiVars,
       cacheVars, nodeVars
<1>4. CASE CreateNodePool
  <2>1. pc = "execute" /\ act.kind = "create"
    BY <1>4 DEF CreateNodePool, Executing
  <2>2. act.pool \in Pools /\ NewSet(c.spec, act.pool) \in SetType
    BY <2>1, ActionType, ValueTypes
  <2>3. sets' \in [Pools -> SetType] /\ \E err \in BOOLEAN : Finish(err)
    BY <1>0, <1>4, <2>2 DEF CreateNodePool, SetsOK
  <2> QED
    BY <2>1, <2>3, FinishTyped
<1>5. CASE Scale
  <2> DEFINE s == [cSets[act.pool] EXCEPT !.replicas = c.spec.replicas[act.pool]]
  <2>1. pc = "execute" /\ act.kind = "scale"
    BY <1>5 DEF Scale, Executing
  <2>2. s \in SetType
    BY <2>1, ActionType, Objects DEF SetType
  <2> HIDE DEF s
  <2>3. WriteSet(act.pool, s) \/ Leave
    BY <1>5 DEF Scale, s
  <2>4. sets' \in [Pools -> SetType] /\ \E err \in BOOLEAN : Finish(err)
    BY <1>0, <2>2, <2>3 DEF WriteSet, Leave, SetsOK
  <2> QED
    BY <2>1, <2>4, FinishTyped
<1>6. CASE ReconcileNodePools
  <2>1. pc = "execute"
    BY <1>6 DEF ReconcileNodePools, Executing
  <2>2. \E done :
          sets' = [p \in Pools |-> IF p \in done THEN NoSet ELSE sets[p]]
    BY <1>6 DEF ReconcileNodePools
  <2>3. sets' \in [Pools -> SetType]
    BY <1>0, <2>2, ValueTypes DEF SetsOK
  <2>4. \E err \in BOOLEAN : Finish(err)
    BY <1>6 DEF ReconcileNodePools
  <2> QED
    BY <2>1, <2>3, <2>4, FinishTyped
<1>7. CASE UpdateStatus
  <2>1. SyncOK'
    BY <1>0, <1>7, IdleTyped DEF UpdateStatus, SyncOK
  <2>2. ClusterOK'
    BY <1>0, <1>7, CopyType DEF UpdateStatus, ClusterOK, SyncOK, cacheVars
  <2> QED
    BY <1>0, <1>7, <2>1, <2>2, GroupsAfter, GroupsKept, ZenonT(60) DEF UpdateStatus,
       cacheVars, nodeVars
<1> QED
  BY <1>1, <1>2, <1>3, <1>4, <1>5, <1>6, <1>7, UpdateVersionTyped, ZenonT(60)
     DEF Sync, Execute

\* Every step keeps the types.
LEMMA StepTyped == Typed /\ [Next]_vars => Typed'
<1> SUFFICES ASSUME Typed, [Next]_vars PROVE Typed'
  OBVIOUS
<1>1. CASE UNCHANGED vars
  BY <1>1, Groups, GroupsKept, GroupsAfter, ZenonT(60) DEF vars, apiVars, cacheVars,
     nodeVars, syncVars
<1> QED
  BY <1>1, SyncTyped, InformersTyped, StatefulSetsTyped, PilotsTyped,
     EnvironmentTyped, ZenonT(60) DEF Next

\* The types hold for ever.
THEOREM TypedHolds == Spec => []Typed
BY InitTyped, StepTyped, PTL DEF Spec

\* TypeOK is an invariant of the controller, its StatefulSets and its pilots.
\* In particular a sync that is under way has a copy of the cluster to work on,
\* and a partition that UpdateVersion gets accepted is the number of a pod,
\* whatever users edit in the middle of an upgrade.
THEOREM TypeCorrect == Spec => []TypeOK
<1>1. Typed => TypeOK
  BY DEF Typed
<1> QED
  BY <1>1, TypedHolds, PTL

-----------------------------------------------------------------------------
(* Documents.                                                              *)

\* What a Pilot posted of documents is still true of a node that had none.
DocsSeen ==
  \A p \in DataPools, i \in Ordinals :
    pilots[p][i].docs = 0 \/ cPilots[p][i].docs = 0 => i \notin docs[p]

\* The Pilots of a cluster that has all its nodes say which hold documents.
LEMMA InitDocsSeen == Init => DocsSeen
<1> SUFFICES ASSUME Init, NEW p \in DataPools, NEW i \in Ordinals,
                    pilots[p][i].docs = 0 \/ cPilots[p][i].docs = 0
             PROVE  i \notin docs[p]
  BY DEF DocsSeen
<1>1. PICK s \in Scenarios :
        /\ docs = [q \in Pools |-> InitialDocs(s.spec, q)]
        /\ pilots = [q \in Pools |->
                       [j \in Ordinals |-> InitialPilot(s.spec, q, j, docs)]]
        /\ cPilots = pilots
  BY Zenon DEF Init
<1>2. p \in Pools
  BY ElasticsearchAssumption
<1>3. InitialPilot(s.spec, p, i, docs).docs = 0
  BY <1>1, <1>2
<1>4. CASE i \in NodesOf(s.spec, p)
  <2>1. Holds(p, i, docs) = 0
    BY <1>3, <1>4 DEF InitialPilot, NewPilot, NoPilot
  <2> QED
    BY <2>1, SMT DEF Holds, Unknown
<1>5. CASE i \notin NodesOf(s.spec, p)
  BY <1>1, <1>2, <1>5 DEF InitialDocs
<1> QED
  BY <1>4, <1>5

\* A node that had no documents has none: a step takes documents from nodes, and
\* a Pilot posts what is so.
LEMMA StepDocsSeen == Typed /\ DocsSeen /\ [Next]_vars => DocsSeen'
<1> SUFFICES ASSUME Typed, DocsSeen, [Next]_vars PROVE DocsSeen'
  OBVIOUS
<1>0. PilotsOK /\ NodesOK /\ DataPools \subseteq Pools
  BY Groups, ElasticsearchAssumption
<1>1. CASE Quiet
  BY <1>1 DEF Quiet, DocsSeen
<1>2. ASSUME NEW p \in Pools, NEW i \in Ordinals,
             CreatePod(p, i) \/ PodReady(p, i)
      PROVE  DocsSeen'
  BY <1>2 DEF CreatePod, PodReady, DocsSeen, apiVars, cacheVars
<1>3. ASSUME NEW p \in Pools, NEW i \in Ordinals, NEW v \in PilotType,
             pilots' = [pilots EXCEPT ![p][i] = v],
             UNCHANGED <<cPilots, docs>>,
             v.docs = 0 /\ p \in DataPools => i \notin docs[p]
      PROVE  DocsSeen'
  <2>1. ASSUME NEW q \in Pools, NEW j \in Ordinals
        PROVE  pilots'[q][j] = IF q = p /\ j = i THEN v ELSE pilots[q][j]
    BY <1>0, <1>3, Put, SMT, Z3 DEF PilotsOK
  <2> QED
    BY <1>0, <1>3, <2>1, SMT, Z3 DEF DocsSeen
<1>4. ASSUME NEW p \in Pools, NEW i \in Ordinals, EndPod(p, i)
      PROVE  DocsSeen'
  <2> DEFINE v == [pilots[p][i] EXCEPT !.orphan = pilots[p][i].exists]
  <2>1. v \in PilotType /\ v.docs = pilots[p][i].docs
    BY Objects DEF PilotType
  <2>2. pilots' = [pilots EXCEPT ![p][i] = v] /\ UNCHANGED <<cPilots, docs>>
    BY <1>4 DEF EndPod, cacheVars
  <2> HIDE DEF v
  <2> QED
    BY <1>3, <2>1, <2>2 DEF DocsSeen
<1>5. ASSUME NEW p \in Pools, NEW i \in Ordinals,
             PilotCreated(p, i) \/ PilotCollected(p, i)
      PROVE  DocsSeen'
  <2>1. NewPilot.docs # 0 /\ NoPilot.docs # 0
    BY SMT DEF NewPilot, NoPilot, Unknown
  <2> QED
    BY <1>3, <1>5, <2>1, ValueTypes, ZenonT(60) DEF PilotCreated, PilotCollected,
       SetPilot, cacheVars
<1>6. ASSUME NEW p \in Pools, NEW i \in Ordinals, NEW stats \in BOOLEAN,
             NEW info \in BOOLEAN, PilotPosts(p, i, stats, info)
      PROVE  DocsSeen'
  <2> DEFINE d == IF stats THEN Holds(p, i, docs) ELSE Unknown
             n == IF info THEN pods[p][i].image ELSE pilots[p][i].ver
             v == [pilots[p][i] EXCEPT !.docs = d, !.ver = n]
  <2>1. SetPilot(p, i, v)
    BY <1>6 DEF PilotPosts
  <2>2. d \in {Unknown, 0, 1} /\ (d = 0 /\ p \in DataPools => i \notin docs[p])
    BY SMT DEF Holds, Unknown
  <2>3. n \in 0 .. MaxVersion
    BY Objects, PodFields, PilotFields
  <2> HIDE DEF d, n
  <2>4. v \in PilotType /\ v.docs = d
    <3>1. pilots[p][i] \in PilotType
      BY Objects
    <3> QED
      BY <2>2, <2>3, <3>1, PilotUpdate, ZenonT(60)
  <2> HIDE DEF v
  <2> QED
    BY <1>3, <2>1, <2>2, <2>4, ZenonT(60) DEF SetPilot, cacheVars
<1>7. ASSUME NEW p \in Pools, NEW i \in Ordinals, ObservePilot(p, i)
      PROVE  DocsSeen'
  <2>1. /\ cPilots' = [cPilots EXCEPT ![p][i] = Seen(pilots[p][i])]
        /\ UNCHANGED <<pilots, docs>>
    BY <1>7 DEF ObservePilot, apiVars, nodeVars
  <2>2. Seen(pilots[p][i]) \in PilotType
        /\ Seen(pilots[p][i]).docs = pilots[p][i].docs
    BY Objects DEF Seen, PilotType
  <2>3. ASSUME NEW q \in Pools, NEW j \in Ordinals
        PROVE  cPilots'[q][j] = IF q = p /\ j = i THEN Seen(pilots[p][i])
                                                 ELSE cPilots[q][j]
    BY <1>0, <2>1, <2>2, Put, SMT, Z3 DEF PilotsOK
  <2> QED
    BY <1>0, <2>1, <2>2, <2>3, SMT, Z3 DEF DocsSeen
<1>8. ASSUME NEW p \in Pools, NEW i \in Ordinals, Drain(p, i)
      PROVE  DocsSeen'
  <2>1. UNCHANGED <<pilots, cPilots>>
        /\ \A q \in Pools : docs'[q] \subseteq docs[q]
    BY <1>0, <1>8 DEF Drain, NodesOK, apiVars, cacheVars
  <2> QED
    BY <1>0, <2>1 DEF DocsSeen
<1>9. ASSUME NEW p \in Pools, NEW i \in Ordinals, NodeStep(p, i)
      PROVE  DocsSeen'
  BY <1>2, <1>4, <1>5, <1>6, <1>7, <1>8, <1>9, ZenonT(60) DEF NodeStep, RemovePod,
     RollPod
<1> QED
  BY <1>1, <1>9, Steps, Untouched DEF Acted, Ruled

\* A set that is resized loses no node that holds documents.
LEMMA StepDrained ==
  ASSUME Typed, DocsSeen, [Next]_vars, NEW p \in DataPools, Kept(p),
         NEW i \in sets'[p].replicas .. (sets[p].replicas - 1)
  PROVE  i \notin docs[p]
<1>0. p \in Pools /\ sets \in [Pools -> SetType] /\ sets[p] \in SetType
  BY ElasticsearchAssumption, Groups, Objects, ZenonT(60) DEF SetsOK
<1>1. CASE UNCHANGED sets
  BY <1>0, <1>1, SetFields, SMT, Z3
<1>2. ASSUME sets'[p].replicas = sets[p].replicas
      PROVE  FALSE
  BY <1>0, <1>2, SetFields, SMT, Z3
<1>3. ASSUME NEW q \in Pools, SetStatus(q)
      PROVE  FALSE
  <2>1. sets' = [sets EXCEPT ![q] = StatusNow(q)]
    BY <1>3 DEF SetStatus
  <2> QED
    BY <1>0, <1>2, <2>1, StatusFields
<1>4. CASE Acted
  <2>1. CASE Deleted
    BY <1>0, <1>2, <2>1 DEF Deleted, Kept
  <2>2. ASSUME NEW q \in Pools, Made(q)
        PROVE  FALSE
    BY <1>0, <1>2, <2>2 DEF Made, Kept
  <2>3. ASSUME NEW q \in Pools, Marked(q) \/ Lowered(q)
        PROVE  FALSE
    <3>1. sets[q] \in SetType
      BY Objects
    <3>2. sets'[q].replicas = sets[q].replicas
          /\ \A o \in Pools \ {q} : sets'[o] = sets[o]
      BY <1>0, <2>3, <3>1 DEF Marked, Lowered, SetType
    <3> QED
      BY <1>0, <1>2, <3>2
  <2>4. ASSUME NEW q \in Pools, Resized(q), q \in c.spec.pools
        PROVE  i \notin docs[p]
    <3> DEFINE n == c.spec.replicas[q]
    <3>1. sets[q] \in SetType /\ c.spec.replicas[q] \in 0 .. MaxReplicas
      BY <1>4, Objects, CopyType, SpecType, ZenonT(60) DEF Acted
    <3>2. sets'[q].replicas = n
          /\ \A o \in Pools \ {q} : sets'[o] = sets[o]
      BY <1>0, <2>4, <3>1 DEF Resized, SetType
    <3>3. q = p
      BY <1>0, <1>2, <3>2
    <3>4. i \in n .. (cSets[q].replicas - 1)
      BY <2>4, <3>2, <3>3 DEF Resized
    <3>5. DrainedAbove(q, n)
      <4>1. cSets[q].replicas \in Int /\ n \in Int
        BY <2>4, <3>1, SetFields, SMT, Z3 DEF Resized
      <4>2. ~(n >= cSets[q].replicas)
        BY <3>4, <4>1, SMT, Z3
      <4> QED
        BY <2>4, <3>3, <4>2, ZenonT(60) DEF Resized, CanScaleNodePool
    <3>6. i \in Ordinals
      <4>1. cSets[q].replicas \in 0 .. MaxReplicas /\ MaxReplicas \in Nat
        BY <2>4, <3>1, SetFields, ElasticsearchAssumption DEF Resized
      <4> QED
        BY <3>1, <3>4, <4>1, SMT, Z3 DEF Ordinals
    <3> QED
      BY <3>3, <3>4, <3>5, <3>6 DEF DrainedAbove, DocsSeen
  <2> QED
    BY <1>1, <1>4, <2>1, <2>2, <2>3, <2>4, ZenonT(60) DEF Acted
<1> QED
  BY <1>1, <1>3, <1>4, Steps, Untouched, ZenonT(60) DEF Ruled

\* DrainedBeforeScaleDown: whatever users ask for, however old the cached Pilots
\* that Scale decides by, a node is taken out of a data pool only when it holds
\* no documents.
THEOREM DataNodesLeaveEmpty == Spec => DrainedBeforeScaleDown
<1>1. Init => DocsSeen
  BY InitDocsSeen
<1>2. Typed /\ DocsSeen /\ [Next]_vars => DocsSeen'
  BY StepDocsSeen
<1>3. Typed /\ DocsSeen /\ [Next]_vars =>
        [\A p \in DataPools :
           Kept(p) => \A i \in sets'[p].replicas .. (sets[p].replicas - 1) :
                        i \notin docs[p]]_vars
  BY StepDrained
<1> QED
  BY <1>1, <1>2, <1>3, TypedHolds, PTL DEF Spec, DrainedBeforeScaleDown

-----------------------------------------------------------------------------
(* The status.                                                             *)

\* A step that changes the condition of the cluster changes nothing else of it.
LEMMA StepStatus ==
  ASSUME Typed, [Next]_vars, cluster'.cond # cluster.cond
  PROVE  cluster' = [cluster EXCEPT !.cond = cluster'.cond]
<1>0. cluster \in ClusterType
  BY Groups DEF ClusterOK
<1>1. CASE UNCHANGED cluster
  BY <1>1
<1>2. CASE UpdateStatus
  <2>1. cluster' = SyncPausedConditions(cluster)
    BY <1>1, <1>2 DEF UpdateStatus
  <2> QED
    BY <1>0, <2>1 DEF SyncPausedConditions, ClusterType
<1>3. ASSUME NEW spec, EditSpec(spec) PROVE FALSE
  BY <1>0, <1>3 DEF EditSpec, ClusterType
<1>4. ASSUME NEW h, LeaderPosts(h) PROVE FALSE
  BY <1>0, <1>4 DEF LeaderPosts, ClusterType
<1>5. \/ UNCHANGED cluster \/ UpdateStatus
      \/ \E spec : EditSpec(spec)
      \/ \E h : LeaderPosts(h)
  <2>1. CASE UNCHANGED vars
    BY <2>1 DEF vars, apiVars
  <2>2. CASE Sync
    BY <2>2, ExecuteActs
       DEF Sync, BeginSync, EnsureResource, NextAction, Acted, apiVars
  <2>3. CASE Informers
    BY <2>3 DEF Informers, ObserveCluster, ObserveSet, ObserveObj, ObservePilot,
                ObservePod, apiVars
  <2>4. CASE StatefulSets \/ PilotsOfNodes
    <3>1. \/ \E p \in Pools, i \in Ordinals : NodeStep(p, i)
          \/ \E p \in Pools : SetStatus(p)
      BY <2>4, Zenon DEF StatefulSets, PilotsOfNodes, NodeStep
    <3> QED
      BY <3>1, Untouched
  <2>5. CASE Environment
    BY <2>5 DEF Environment, Drain, FailCall, apiVars
  <2> QED
    BY <2>1, <2>2, <2>3, <2>4, <2>5, ZenonT(60) DEF Next
<1> QED
  BY <1>1, <1>2, <1>3, <1>4, <1>5, ZenonT(60)

\* StatusKeepsOthers: the status that the controller writes takes back neither
\* the health that the leading pilot posted nor an edit of the spec, because an
\* update computed from another cluster than the stored one is refused.
THEOREM StatusTakesNothingBack == Spec => StatusKeepsOthers
<1>1. Typed /\ [Next]_vars =>
        [cluster'.cond # cluster.cond =>
           cluster' = [cluster EXCEPT !.cond = cluster'.cond]]_vars
  BY StepStatus
<1> QED
  BY <1>1, TypedHolds, PTL DEF Spec, StatusKeepsOthers

\* UpgradeInv is an invariant when users only upgrade, and leave no pool empty.
THEOREM UpgradeInvHolds ==
  ASSUME UpgradesOnly, NoEmptyPool
  PROVE  Spec => []UpgradeInv
<1>1. Init => UpgradeInv
  BY InitUpgrade
<1>2. Typed /\ Typed' /\ UpgradeInv /\ [Next]_vars => UpgradeInv'
  BY StepUpgrade, CountingHolds
<1> QED
  BY <1>1, <1>2, TypedHolds, PTL DEF Spec

\* AnnotationTruthful: UpdateVersion moves the annotation, by which the
\* controller and the readiness of a pool go, to a version only when the template
\* and every pod of the pool have it, however old the StatefulSets and Pilots
\* that it finds in its caches and whenever users ask for the next version.
THEOREM CompleteWhenAnnotated ==
  ASSUME UpgradesOnly, NoEmptyPool
  PROVE  Spec => AnnotationTruthful
<1>1. Typed /\ UpgradeInv /\ [Next]_vars =>
        [\A p \in Pools :
           Kept(p) /\ sets'[p].annot # sets[p].annot =>
             /\ sets[p].image = sets'[p].annot
             /\ \A i \in Replicas(p) : pods[p][i].image = sets'[p].annot]_vars
  BY StepAnnotation
<1> QED
  BY <1>1, TypedHolds, UpgradeInvHolds, PTL DEF Spec, AnnotationTruthful

\* UpgradedFromTheTop: UpdateVersion hands a node to the rolling update only when
\* all nodes above it run the new version and have posted it, although it counts
\* updated pods by a cached status that may be old, or about the template before.
THEOREM OneNodeAtATime ==
  ASSUME UpgradesOnly, NoEmptyPool
  PROVE  Spec => UpgradedFromTheTop
<1>1. Typed /\ UpgradeInv /\ UpgradeInv' /\ [Next]_vars =>
        [\A p \in Pools :
           Kept(p) /\ (sets'[p].partition # sets[p].partition
                         \/ sets'[p].image # sets[p].image) =>
             \A i \in Replicas(p) : i > sets'[p].partition =>
               pods[p][i].image = sets'[p].image /\ pods[p][i].posted]_vars
  BY StepFromTop
<1> QED
  BY <1>1, TypedHolds, UpgradeInvHolds, PTL DEF Spec, UpgradedFromTheTop

=============================================================================

---------------------------- MODULE CassandraProofs ---------------------------
(* Proofs about CassandraCluster, for any number of pools, any replica     *)
(* counts and any number of edits, pod losses, API errors and restarts.    *)
EXTENDS CassandraCluster, TLAPS

\* Most leaves are first-order steps; those that need arithmetic cite SMT.
USE Zenon

-----------------------------------------------------------------------------
(* Lemmas about the records the model is built from.                       *)

\* A copy holds what it was taken of; marking it out of date keeps its content.
LEMMA Copies ==
  ASSUME NEW T
  PROVE  /\ \A v \in T : /\ Copy(v) \in CopyOf(T) 
                         /\ Copy(v).val = v /\ Copy(v).current
         /\ \A k \in CopyOf(T) : /\ k.val \in T /\ k.current \in BOOLEAN
                                 /\ Outdated(k) \in CopyOf(T)
                                 /\ Outdated(k).val = k.val
                                 /\ ~Outdated(k).current
         /\ \A k \in CopyOf(T), v \in T : 
               /\ [k EXCEPT !.val = v] \in CopyOf(T)
               /\ [k EXCEPT !.val = v].val = v
               /\ [k EXCEPT !.val = v].current = k.current
<1>1. ASSUME NEW v \in T
      PROVE  Copy(v) \in CopyOf(T) /\ Copy(v).val = v /\ Copy(v).current
  BY DEF Copy, CopyOf
<1>2. ASSUME NEW k \in CopyOf(T)
      PROVE  k.val \in T /\ k.current \in BOOLEAN
  BY DEF CopyOf
<1>3. ASSUME NEW k \in CopyOf(T)
      PROVE  /\ Outdated(k) \in CopyOf(T) /\ Outdated(k).val = k.val 
             /\ ~Outdated(k).current
  BY DEF CopyOf, Outdated
<1>4. ASSUME NEW k \in CopyOf(T), NEW v \in T 
      PROVE  /\ [k EXCEPT !.val = v] \in CopyOf(T)
             /\ [k EXCEPT !.val = v].val = v
             /\ [k EXCEPT !.val = v].current = k.current
  BY DEF CopyOf
<1> QED
  BY <1>1, <1>2, <1>3, <1>4

\* The components of a cluster.
LEMMA ClusterFields ==
  \A cl \in ClusterType :
    /\ cl.exists \in BOOLEAN /\ cl.paused \in BOOLEAN
    /\ cl.pools \in SUBSET Pools /\ cl.desired \in Requests
    /\ cl.nodePools \in Statuses /\ cl.cond \in Conditions
BY DEF ClusterType

\* Changing one component of a cluster keeps its type and the other components.
LEMMA ClusterUpdates ==
  \A cl \in ClusterType :
    /\ \A b \in BOOLEAN : /\ [cl EXCEPT !.paused = b] \in ClusterType
                          /\ [cl EXCEPT !.paused = b].desired = cl.desired
                          /\ [cl EXCEPT !.paused = b].nodePools = cl.nodePools
    /\ \A co \in Conditions : 
         /\ [cl EXCEPT !.cond = co] \in ClusterType
         /\ [cl EXCEPT !.cond = co].desired = cl.desired
         /\ [cl EXCEPT !.cond = co].paused = cl.paused
         /\ [cl EXCEPT !.cond = co].nodePools = cl.nodePools
    /\ \A st \in Statuses :
         /\ [cl EXCEPT !.nodePools = st] \in ClusterType
         /\ [cl EXCEPT !.nodePools = st].nodePools = st
         /\ [cl EXCEPT !.nodePools = st].paused = cl.paused
         /\ [cl EXCEPT !.nodePools = st].desired = cl.desired
    /\ \A S \in SUBSET Pools :
         /\ [cl EXCEPT !.pools = S] \in ClusterType
         /\ [cl EXCEPT !.pools = S].nodePools = cl.nodePools
    /\ \A d \in Requests :
         /\ [cl EXCEPT !.desired = d] \in ClusterType
         /\ [cl EXCEPT !.desired = d].desired = d
         /\ [cl EXCEPT !.desired = d].nodePools = cl.nodePools
<1> SUFFICES ASSUME NEW cl \in ClusterType PROVE ClusterUpdates!(cl)
  OBVIOUS
<1> QED
  BY DEF ClusterType

\* Only the status is taken from the second argument.
LEMMA WithStatusType ==
  \A old, new \in ClusterType :
    /\ WithStatus(old, new) \in ClusterType
    /\ WithStatus(old, new).desired = old.desired
    /\ WithStatus(old, new).paused = old.paused
    /\ WithStatus(old, new).nodePools = new.nodePools
<1> SUFFICES ASSUME NEW old \in ClusterType, NEW new \in ClusterType
             PROVE  WithStatusType!(old, new)
  OBVIOUS
<1> DEFINE mid == [old EXCEPT !.nodePools = new.nodePools]
<1>1. /\ mid \in ClusterType /\ mid.nodePools = new.nodePools
      /\ mid.desired = old.desired /\ mid.paused = old.paused
  BY ClusterFields, ClusterUpdates, SMT
<1>2. WithStatus(old, new) = [mid EXCEPT !.cond = new.cond]
  BY DEF WithStatus
<1> HIDE DEF mid
<1> QED
  BY <1>1, <1>2, ClusterFields, ClusterUpdates, SMT

\* Only the pools and their replica counts change.
LEMMA WithPoolsType ==
  ASSUME cluster \in ClusterType
  PROVE  \A S \in SUBSET Pools, d \in Requests :
           /\ WithPools(S, d) \in ClusterType
           /\ WithPools(S, d).desired = d
           /\ WithPools(S, d).nodePools = cluster.nodePools
<1> SUFFICES ASSUME NEW S \in SUBSET Pools, NEW d \in Requests
             PROVE  /\ WithPools(S, d) \in ClusterType
                    /\ WithPools(S, d).desired = d
                    /\ WithPools(S, d).nodePools = cluster.nodePools
  OBVIOUS
<1> DEFINE mid == [cluster EXCEPT !.pools = S]
<1>1. mid \in ClusterType /\ mid.nodePools = cluster.nodePools
  BY ClusterUpdates
<1>2. WithPools(S, d) = [mid EXCEPT !.desired = d]
  BY DEF WithPools
<1> HIDE DEF mid
<1> QED
  BY <1>1, <1>2, ClusterUpdates, SMT

\* syncPausedConditions changes the condition of the copy and nothing else.
LEMMA WithPausedConditionType ==
  \A k \in CopyOf(ClusterType) :
    /\ WithPausedCondition(k) \in CopyOf(ClusterType)
    /\ WithPausedCondition(k).current = k.current
    /\ WithPausedCondition(k).val.desired = k.val.desired
    /\ WithPausedCondition(k).val.nodePools = k.val.nodePools
    /\ WithPausedCondition(k).val.paused = k.val.paused
<1>1. \A cl \in ClusterType : PausedCondition(cl) \in Conditions
  BY DEF PausedCondition, Conditions, ClusterType
<1> SUFFICES ASSUME NEW k \in CopyOf(ClusterType)
             PROVE  WithPausedConditionType!(k)
  OBVIOUS
<1> DEFINE v == [k.val EXCEPT !.cond = PausedCondition(k.val)]
<1>2. /\ v \in ClusterType /\ v.desired = k.val.desired
      /\ v.nodePools = k.val.nodePools /\ v.paused = k.val.paused
  BY <1>1, Copies, ClusterUpdates, SMT
<1>3. WithPausedCondition(k) = [k EXCEPT !.val = v]
  BY DEF WithPausedCondition
<1> HIDE DEF v
<1> QED
  BY <1>2, <1>3, Copies, SMT

\* The cluster that a lister does not find (NoCluster) and a copy of it have
\* their types.
LEMMA NoClusterType ==
  /\ NoCluster \in ClusterType
  /\ NoCluster.desired = [p \in Pools |-> 0]
  /\ NoCluster.nodePools = [p \in Pools |-> Absent]
  /\ NoCopy \in CopyOf(ClusterType)
  /\ NoCopy.val = NoCluster /\ ~NoCopy.current
<1>1. [p \in Pools |-> 0] \in Requests
  BY ConstantsAssumption, SMT DEF Requests
<1>2. [p \in Pools |-> Absent] \in Statuses
  BY DEF Statuses
<1>3. /\ NoCluster \in ClusterType 
      /\ NoCluster.desired = [p \in Pools |-> 0]
      /\ NoCluster.nodePools = [p \in Pools |-> Absent]
  BY <1>1, <1>2 DEF NoCluster, ClusterType, Conditions
<1> QED
  BY <1>3 DEF NoCopy, CopyOf

\* The fields of a StatefulSet and what the actions change in them.
LEMMA SetFields ==
  /\ NoSet \in SetType
  /\ StatefulSetForCluster \in SetType
  /\ StatefulSetForCluster.owner = "this"
  /\ StatefulSetForCluster.replicas = 0
  /\ \A s \in SetType : 
       /\ s.owner \in Owners /\ s.replicas \in Nat /\ s.ready \in Nat
       /\ [s EXCEPT !.replicas = @ + 1] \in SetType
       /\ [s EXCEPT !.replicas = @ + 1].replicas = s.replicas + 1
       /\ [s EXCEPT !.replicas = @ + 1].owner = s.owner
       /\ [s EXCEPT !.ready = @ + 1] \in SetType
       /\ [s EXCEPT !.ready = @ + 1].replicas = s.replicas
       /\ [s EXCEPT !.ready = @ + 1].owner = s.owner
       /\ s.ready > 0 => [s EXCEPT !.ready = @ - 1] \in SetType
       /\ [s EXCEPT !.ready = @ - 1].replicas = s.replicas
       /\ [s EXCEPT !.ready = @ - 1].owner = s.owner
<1>1. ASSUME NEW s \in SetType
      PROVE  SetFields!5!(s)
  BY SMT DEF SetType
<1> QED
  BY <1>1 DEF NoSet, StatefulSetForCluster, SetType, Owners

\* Taking one fault off the budget leaves a budget.
LEMMA SpendTypes ==
  ASSUME TypeOK, NEW kind \in Faults, Spend(kind)
  PROVE  budget' \in BudgetType
<1>1. /\ budget \in [Faults -> [left: Nat, spent: Nat]]
      /\ budget[kind].left \in Nat \ {0} /\ budget[kind].spent \in Nat
  BY SMT DEF TypeOK, Spend, BudgetType
<1> DEFINE new == [left |-> budget[kind].left - 1, spent |-> budget[kind].spent + 1]
<1>2. new \in [left: Nat, spent: Nat]
  BY <1>1, SMT
<1>3. budget' = [budget EXCEPT ![kind] = new]
  BY DEF Spend
<1> HIDE DEF new
<1> QED
  BY <1>1, <1>2, <1>3 DEF BudgetType

\* The step after each resource that Sync makes sure of is a step of Sync.
LEMMA StepAfterType == \A r \in Resources : StepAfter(r) \in Steps
BY DEF Resources, StepAfter, Steps

-----------------------------------------------------------------------------
(* Type correctness.                                                       *)

\* A cluster that was just created, or has all its nodes, is well typed.
LEMMA InitTypes == Init => TypeOK
<1> SUFFICES ASSUME Init PROVE TypeOK
  OBVIOUS
<1>s. PICK s \in Scenarios : /\ cluster = InitialCluster(s)
                             /\ sets = [p \in Pools |-> InitialSet(s, p)]
                             /\ objs = s.objs
                             /\ budget = InitialBudget(s)
  BY DEF Init
<1>t. /\ s.pools \subseteq Pools /\ s.desired \in 0 .. MaxReplicas
      /\ s.objs \in [Resources -> Owners] /\ s.budget \in [Faults -> Nat]
  BY ConstantsAssumption DEF ScenarioType
<1>1. cluster \in ClusterType
  <2>1. InitialCluster(s).desired \in Requests
    BY ConstantsAssumption, <1>t, SMT DEF InitialCluster, Requests
  <2>2. InitialCluster(s).nodePools \in Statuses
    BY <1>t, SMT DEF InitialCluster, Statuses
  <2> QED
    BY <1>s, <1>t, <2>1, <2>2 DEF InitialCluster, ClusterType, Conditions
<1>2. sets \in [Pools -> SetType]
  BY <1>s, <1>t, SMT DEF InitialSet, NoSet, SetType, Owners
<1>3. seeds \in [Pools -> PodStates]
  BY DEF Init, InitialPod, PodStates
<1>4. peak \in [Pools -> Nat]
  BY <1>1, ClusterFields, SMT DEF Init, Requests
<1>5. budget \in BudgetType
  BY <1>s, <1>t DEF InitialBudget, BudgetType
<1>6. objs \in [Resources -> Owners]
  BY <1>s, <1>t
<1>7. cSets \in [Pools -> CopyOf(SetType)] /\ cSeeds \in [Pools -> CopyOf(PodStates)]
  BY <1>2, <1>3, Copies DEF Init
<1> QED
  BY <1>1, <1>2, <1>3, <1>4, <1>5, <1>6, <1>7, Copies, NoClusterType, Zenon
  DEF Init, TypeOK, Steps

\* What a write, an error or a step forward of the sync does to the types.
LEMMA SyncMoves ==
  ASSUME TypeOK
  PROVE  /\ Fail => pc' \in Steps /\ syncErr' \in BOOLEAN /\ todo' \subseteq Pools
         /\ \A s \in Steps : Goto(s) => pc' \in Steps
         /\ \A p \in Pools, s \in SetType : WriteSet(p, s) =>
              /\ sets' \in [Pools -> SetType]
              /\ cSets' \in [Pools -> CopyOf(SetType)]
         /\ \A p \in Pools, s \in PodStates : WritePod(p, s) =>
              /\ seeds' \in [Pools -> PodStates]
              /\ cSeeds' \in [Pools -> CopyOf(PodStates)]
<1>1. /\ Fail => pc' \in Steps /\ syncErr' \in BOOLEAN /\ todo' \subseteq Pools
      /\ \A s \in Steps : Goto(s) => pc' \in Steps
  BY Zenon DEF Fail, Goto, Steps
<1>2. ASSUME NEW p \in Pools, NEW s \in SetType, WriteSet(p, s)
      PROVE  /\ sets' \in [Pools -> SetType]
             /\ cSets' \in [Pools -> CopyOf(SetType)]
  BY <1>2, Copies DEF TypeOK, WriteSet
<1>3. ASSUME NEW p \in Pools, NEW s \in PodStates, WritePod(p, s)
      PROVE  /\ seeds' \in [Pools -> PodStates]
             /\ cSeeds' \in [Pools -> CopyOf(PodStates)]
  BY <1>3, Copies DEF TypeOK, WritePod
<1> QED
  BY <1>1, <1>2, <1>3

\* An edit of the spec that the validation lets through keeps the types.
LEMMA EditTypes ==
  ASSUME TypeOK, NEW kind \in Faults, NEW new \in ClusterType, Edit(kind, new)
  PROVE  TypeOK'
<1>1. budget' \in BudgetType
  BY SpendTypes DEF Edit
<1>2. peak' \in [Pools -> Nat]
  BY ClusterFields, SMT DEF Edit, TypeOK, Requests
<1>3. /\ cluster' \in ClusterType /\ cCluster' \in CopyOf(ClusterType)
      /\ c' \in CopyOf(ClusterType)
  BY Copies DEF Edit, WriteCluster, TypeOK
<1> QED
  BY <1>1, <1>2, <1>3 DEF Edit, TypeOK

\* Whatever users do to the cluster keeps the types.
LEMMA UserTypes == TypeOK /\ User => TypeOK'
<1> SUFFICES ASSUME TypeOK PROVE User => TypeOK'
  OBVIOUS
<1>1. ASSUME NEW p \in Pools, NEW n \in 0 .. MaxReplicas
      PROVE  /\ [cluster.desired EXCEPT ![p] = n] \in Requests
             /\ cluster.pools \cup {p} \in SUBSET Pools
             /\ cluster.pools \ {p} \in SUBSET Pools
  BY ClusterFields DEF Requests, TypeOK
<1>2. ASSUME NEW p \in Pools, NEW n \in 0 .. MaxReplicas,
             SetReplicas(p, n) \/ AddPool(p, n)
      PROVE  TypeOK'
  BY <1>1, <1>2, EditTypes, WithPoolsType, ClusterFields
  DEF SetReplicas, AddPool, TypeOK, Faults
<1>3. ASSUME NEW p \in Pools, RemovePool(p) PROVE TypeOK'
  BY ConstantsAssumption, <1>1, <1>3, EditTypes, WithPoolsType, SMT DEF RemovePool, TypeOK, Faults
<1>4. ASSUME NEW b \in BOOLEAN, SetPaused(b) PROVE TypeOK'
  BY <1>4, EditTypes, ClusterUpdates DEF SetPaused, TypeOK, Faults
<1>5. ASSUME DeleteCluster PROVE TypeOK'
  BY <1>5, EditTypes, NoClusterType DEF DeleteCluster, Faults
<1> QED
  BY <1>2, <1>3, <1>4, <1>5 DEF User

\* Every step of the controller, of Kubernetes and of users keeps the types.
LEMMA StepTypes == TypeOK /\ [Next]_vars => TypeOK'
<1> SUFFICES ASSUME TypeOK, [Next]_vars PROVE TypeOK'
  OBVIOUS
<1> USE DEF apiVars, cacheVars, syncVars
<1>1. CASE BeginSync
  BY <1>1, WithPausedConditionType, Zenon DEF BeginSync, TypeOK, Steps, Resources
<1>2. ASSUME NEW r \in Resources, EnsureResource(r) PROVE TypeOK'
  <2>1. pc' \in Steps /\ syncErr' \in BOOLEAN /\ todo' \subseteq Pools
    BY <1>2, SyncMoves, StepAfterType DEF EnsureResource, Goto, TypeOK
  <2>2. budget' \in BudgetType
    BY <1>2, SpendTypes DEF EnsureResource, TypeOK, Faults
  <2>3. objs' \in [Resources -> Owners]
    BY <1>2 DEF EnsureResource, TypeOK, Owners
  <2> QED
    BY <1>2, <2>1, <2>2, <2>3 DEF EnsureResource, Goto, Fail, TypeOK
<1>3. CASE UpdateNodePoolStatus
  <2> DEFINE status == [p \in Pools |-> IF p \in StatefulSetsForCluster
                                        THEN cSets[p].val.ready ELSE Absent]
             v == [c.val EXCEPT !.nodePools = status]
  <2>1. status \in Statuses
    BY Copies, SetFields, ZenonT(60) DEF TypeOK, Statuses
  <2>2. v \in ClusterType
    BY <2>1, Copies, ClusterUpdates, Zenon DEF TypeOK
  <2>3. c' = [c EXCEPT !.val = v]
    BY <1>3 DEF UpdateNodePoolStatus
  <2> HIDE DEF v
  <2>4. c' \in CopyOf(ClusterType)
    BY <2>2, <2>3, Copies DEF TypeOK
  <2> QED
    BY <1>3, <2>4 DEF UpdateNodePoolStatus, TypeOK, Steps, Resources
<1>4. CASE ListSeedNodes
  BY <1>4 DEF ListSeedNodes, StatefulSetsForCluster, TypeOK, Steps
<1>5. ASSUME NEW p \in Pools, LabelSeedNode(p) PROVE TypeOK'
  <2>1. pc' \in Steps /\ syncErr' \in BOOLEAN /\ todo' \subseteq Pools
    BY <1>5, SyncMoves DEF LabelSeedNode, SeedDone, TypeOK, Steps
  <2>2. budget' \in BudgetType
    BY <1>5, SpendTypes DEF LabelSeedNode, TypeOK, Faults
  <2>3. seeds' \in [Pools -> PodStates]
    BY <1>5 DEF LabelSeedNode, TypeOK, PodStates
  <2>4. cSeeds' \in [Pools -> CopyOf(PodStates)]
    <3>1. /\ [cSeeds[p] EXCEPT !.val = "seed"] \in CopyOf(PodStates)
          /\ [val |-> "seed", current |-> FALSE] \in CopyOf(PodStates)
      <4>1. cSeeds[p] \in CopyOf(PodStates)
        BY <1>5 DEF TypeOK
      <4>2. "seed" \in PodStates
        BY DEF PodStates
      <4> QED
        BY <4>1, <4>2 DEF CopyOf
    <3> QED
      BY <1>5, <3>1, Zenon DEF LabelSeedNode, TypeOK
  <2> QED
    BY <1>5, <2>1, <2>2, <2>3, <2>4 DEF LabelSeedNode, SeedDone, Fail, TypeOK
<1>6. CASE NextAction
  <2>1. ASSUME NEW p \in Pools, CreateNodePool(p) PROVE TypeOK'
    <3>1. /\ sets' \in [Pools -> SetType]
          /\ cSets' \in [Pools -> CopyOf(SetType)]
      BY <2>1, SyncMoves, SetFields DEF CreateNodePool, TypeOK
    <3>2. budget' \in BudgetType
      BY <2>1, SpendTypes DEF CreateNodePool, TypeOK, Faults
    <3>3. pc' \in Steps /\ syncErr' \in BOOLEAN /\ todo' \subseteq Pools
      BY <2>1, SyncMoves DEF CreateNodePool, Goto, TypeOK, Steps
    <3> QED
      BY <2>1, <3>1, <3>2, <3>3 DEF CreateNodePool, Goto, Fail, TypeOK
  <2>2. ASSUME NEW p \in Pools, ScaleOut(p) PROVE TypeOK'
    <3>1. [cSets[p].val EXCEPT !.replicas = @ + 1] \in SetType
      BY Copies, SetFields, ZenonT(60) DEF TypeOK
    <3>2. /\ sets' \in [Pools -> SetType]
          /\ cSets' \in [Pools -> CopyOf(SetType)]
      BY <2>2, <3>1, SyncMoves DEF ScaleOut, TypeOK
    <3>3. budget' \in BudgetType
      BY <2>2, SpendTypes DEF ScaleOut, TypeOK, Faults
    <3>4. pc' \in Steps /\ syncErr' \in BOOLEAN /\ todo' \subseteq Pools
      BY <2>2, SyncMoves DEF ScaleOut, Goto, TypeOK, Steps
    <3> QED
      BY <2>2, <3>2, <3>3, <3>4 DEF ScaleOut, Goto, Fail, TypeOK
  <2>3. ASSUME Goto("status"), UNCHANGED <<apiVars, cacheVars, budget, peak>>
        PROVE  TypeOK'
    BY <2>3 DEF Goto, TypeOK, Steps
  <2> QED
    BY <1>6, <2>1, <2>2, <2>3 DEF NextAction
<1>7. CASE UpdateStatus
  <2>1. cluster' \in ClusterType /\ cCluster' \in CopyOf(ClusterType)
    <3>1. WithStatus(cluster, c.val) \in ClusterType
      BY Copies, WithStatusType DEF TypeOK
    <3>2. \/ cluster' = cluster /\ cCluster' = cCluster
          \/ WriteCluster(WithStatus(cluster, c.val))
      BY <1>7, Zenon DEF UpdateStatus
    <3> QED
      BY <3>1, <3>2, Copies, SMT DEF WriteCluster, TypeOK
  <2>2. budget' \in BudgetType
    BY <1>7, SpendTypes, Zenon DEF UpdateStatus, TypeOK, Faults
  <2>3. /\ pc' \in Steps /\ syncErr' \in BOOLEAN /\ queued' \in BOOLEAN
        /\ c' \in CopyOf(ClusterType) /\ todo' \subseteq Pools
    BY <1>7, NoClusterType, Zenon DEF UpdateStatus, EndSync, TypeOK, Steps
  <2> QED
    BY <1>7, <2>1, <2>2, <2>3 DEF UpdateStatus, TypeOK
<1>8. CASE ObserveCluster
  BY <1>8, Copies DEF ObserveCluster, TypeOK
<1>9. ASSUME NEW p \in Pools, ObserveSet(p) PROVE TypeOK'
  <2>1. cSets' \in [Pools -> CopyOf(SetType)]
    BY <1>9, Copies, SMT DEF ObserveSet, TypeOK
  <2> QED
    BY <1>9, <2>1 DEF ObserveSet, HandleObject, TypeOK
<1>10. ASSUME NEW p \in Pools, ObservePod(p) PROVE TypeOK'
  <2>1. cSeeds' \in [Pools -> CopyOf(PodStates)]
    BY <1>10, Copies, SMT DEF ObservePod, TypeOK
  <2> QED
    BY <1>10, <2>1 DEF ObservePod, HandleObject, TypeOK
<1>11. CASE ObserveObjs
  BY <1>11 DEF ObserveObjs, TypeOK
<1>12. ASSUME NEW p \in Pools, StartPod(p) PROVE TypeOK'
  BY <1>12, SyncMoves DEF StartPod, TypeOK, PodStates
<1>13. ASSUME NEW p \in Pools, PodReady(p) PROVE TypeOK'
  <2>1. [sets[p] EXCEPT !.ready = @ + 1] \in SetType
    BY SetFields, Zenon DEF TypeOK
  <2> QED
    BY <1>13, <2>1, SyncMoves DEF PodReady, TypeOK
<1>14. ASSUME NEW p \in Pools, PodLost(p) PROVE TypeOK'
  <2>1. sets[p].ready > 0 => [sets[p] EXCEPT !.ready = @ - 1] \in SetType
    BY SetFields, Zenon DEF TypeOK
  <2>2. budget' \in BudgetType
    BY <1>14, SpendTypes DEF PodLost, Faults
  <2> QED
    BY <1>14, <2>1, <2>2, SyncMoves DEF PodLost, TypeOK, PodStates
<1>15. ASSUME NEW p \in Pools, CollectSet(p) PROVE TypeOK'
  BY <1>15, SyncMoves, SetFields, SMTT(30), Z3T(30) DEF CollectSet, TypeOK, PodStates
<1>16. CASE CollectObjs
  BY <1>16 DEF CollectObjs, TypeOK, Owners
<1>17. CASE User
  BY <1>17, UserTypes
<1>18. CASE Restart
  <2>1. /\ cSets' \in [Pools -> CopyOf(SetType)]
        /\ cSeeds' \in [Pools -> CopyOf(PodStates)]
        /\ cCluster' \in CopyOf(ClusterType)
    BY <1>18, Copies, ZenonT(60) DEF Restart, TypeOK
  <2>2. budget' \in BudgetType
    BY <1>18, SpendTypes DEF Restart, Faults
  <2>3. cObjs' \in [Resources -> Owners]
    BY <1>18 DEF Restart, TypeOK, Owners
  <2>4. queued' \in BOOLEAN
    BY <1>18, ClusterFields DEF Restart, TypeOK
  <2> QED
    BY <1>18, <2>1, <2>2, <2>3, <2>4, NoClusterType, Zenon DEF Restart, TypeOK, Steps
<1>19. CASE UNCHANGED vars
  BY <1>19 DEF vars, TypeOK
<1> QED
  BY <1>1, <1>2, <1>3, <1>4, <1>5, <1>6, <1>7, <1>8, <1>9, <1>10, <1>11,
     <1>12, <1>13, <1>14, <1>15, <1>16, <1>17, <1>18, <1>19
  DEF Next, Sync, Informers, Kubernetes, SyncNodesService, SyncSeedsService,
      SyncServiceAccount, SyncRole, SyncRoleBinding, Resources

\* TypeOK holds in every reachable state: in particular the counts of ready
\* nodes that UpdateStatus publishes cover every pool.
THEOREM TypeCorrect == Spec => []TypeOK
BY InitTypes, StepTypes, PTL DEF Spec

-----------------------------------------------------------------------------
(* The inductive invariant behind the safety theorems.                     *)

\* A current copy of a StatefulSet is the set: this is what the conflict check
\* of the API server turns into a guarantee.
Fresh == \A p \in Pools : cSets[p].current => cSets[p].val = sets[p]

\* No version of the spec, stored, cached or held by a sync, asks for more than
\* the peak.
Bounded ==
  \A p \in Pools : /\ cluster.desired[p] <= peak[p]
                   /\ cCluster.val.desired[p] <= peak[p]
                   /\ c.val.desired[p] <= peak[p]
                   /\ Owned(p) => sets[p].replicas <= peak[p]

\* A set that is not ours has no entry in any version of the status.
ForeignKnown ==
  \A p \in Pools : sets[p].owner = "other" =>
    /\ cSets[p].val.owner = "other"
    /\ cluster.nodePools[p] = Absent
    /\ cCluster.val.nodePools[p] = Absent
    /\ c.val.nodePools[p] = Absent
    /\ p \notin todo

\* A sync of a paused cluster goes straight to the status update.
PausedAtStatus == c.val.paused => pc = "status"

Inv == TypeOK /\ Fresh /\ Bounded /\ ForeignKnown /\ PausedAtStatus

\* Everything that can happen to the StatefulSet of a pool in one step.
SetKept(p)      == sets'[p] = sets[p] /\ cSets'[p] \in {cSets[p], Copy(sets[p])}
SetWritten(p)   == cSets'[p] = Outdated(cSets[p])
SetCreated(p)   == /\ sets[p].owner = "none"
                   /\ sets'[p] = StatefulSetForCluster
SetScaled(p)    == /\ pc = "action" /\ c.val.nodePools[p] # Absent
                   /\ cSets[p].current /\ cSets[p].val.owner # "none"
                   /\ ~ScaleOutBlocked(cSets[p].val, p)
                   /\ sets'[p] = [cSets[p].val EXCEPT !.replicas = @ + 1]
SetReady(p)     == Owned(p) /\ sets'[p] = [sets[p] EXCEPT !.ready = @ + 1]
SetLost(p)      == /\ Owned(p) /\ sets[p].ready > 0
                   /\ sets'[p] = [sets[p] EXCEPT !.ready = @ - 1]
SetCollected(p) == Owned(p) /\ sets'[p] = NoSet

SetChange(p) ==
  \/ SetKept(p)
  \/ /\ SetWritten(p)
     /\ \/ SetCreated(p) /\ pc = "action"
        \/ SetScaled(p)
        \/ SetReady(p)
        \/ SetLost(p)
        \/ SetCollected(p)

\* A write of one StatefulSet changes that set, makes the cached copy of it
\* outdated and leaves the other sets alone.
LEMMA WriteSetEffect ==
  ASSUME TypeOK, NEW p \in Pools, NEW s, WriteSet(p, s), NEW q \in Pools
  PROVE  /\ q = p => sets'[q] = s /\ SetWritten(q)
         /\ q # p => SetKept(q)
BY DEF TypeOK, WriteSet, SetWritten, SetKept

\* Every step does to each StatefulSet one of the things SetChange lists: a
\* creation, a scale-out by one, a change of its status, a deletion or nothing.
LEMMA SetChanges ==
  ASSUME TypeOK, [Next]_vars
  PROVE  \A q \in Pools : SetChange(q)
<1> USE DEF apiVars, cacheVars, syncVars
<1>1. ASSUME UNCHANGED <<sets, cSets>> PROVE \A q \in Pools : SetChange(q)
  BY <1>1 DEF SetChange, SetKept
<1>2. CASE BeginSync
  BY <1>1, <1>2 DEF BeginSync
<1>3. ASSUME NEW r \in Resources, EnsureResource(r)
      PROVE \A q \in Pools : SetChange(q)
  BY <1>1, <1>3 DEF EnsureResource
<1>4. CASE UpdateNodePoolStatus \/ ListSeedNodes
  BY <1>1, <1>4 DEF UpdateNodePoolStatus, ListSeedNodes
<1>5. ASSUME NEW p \in Pools, LabelSeedNode(p)
      PROVE \A q \in Pools : SetChange(q)
  BY <1>1, <1>5 DEF LabelSeedNode
<1>6. CASE NextAction
  <2>1. ASSUME NEW p \in Pools, CreateNodePool(p)
        PROVE \A q \in Pools : SetChange(q)
    <3>1. CASE UNCHANGED <<sets, cSets>>
      BY <1>1, <3>1
    <3>2. CASE sets[p].owner = "none" /\ WriteSet(p, StatefulSetForCluster)
      BY <1>6, <3>2, WriteSetEffect DEF SetChange, SetCreated, NextAction
    <3> QED
      BY <2>1, <3>1, <3>2 DEF CreateNodePool
  <2>2. ASSUME NEW p \in Pools, ScaleOut(p), MissingPools(c.val) = {},
               p \in ShortPools(c.val)
        PROVE \A q \in Pools : SetChange(q)
    <3>1. CASE UNCHANGED <<sets, cSets>>
      BY <1>1, <3>1
    <3>2. CASE /\ cSets[p].val.owner # "none" /\ cSets[p].current
               /\ ~ScaleOutBlocked(cSets[p].val, p)
               /\ WriteSet(p, [cSets[p].val EXCEPT !.replicas = @ + 1])
      <4>1. c.val.nodePools[p] # Absent
        BY <2>2 DEF MissingPools, ShortPools
      <4> QED
        BY <1>6, <3>2, <4>1, WriteSetEffect DEF SetChange, SetScaled, NextAction
    <3> QED
      BY <2>2, <3>1, <3>2 DEF ScaleOut
  <2> QED
    BY <1>1, <1>6, <2>1, <2>2 DEF NextAction, IsFirst
<1>7. CASE UpdateStatus
  BY <1>1, <1>7 DEF UpdateStatus
<1>8. CASE ObserveCluster \/ ObserveObjs
  BY <1>1, <1>8 DEF ObserveCluster, ObserveObjs
<1>9. ASSUME NEW p \in Pools, ObserveSet(p)
      PROVE \A q \in Pools : SetChange(q)
  BY <1>9 DEF ObserveSet, SetChange, SetKept, TypeOK
<1>10. ASSUME NEW p \in Pools, ObservePod(p) \/ StartPod(p)
       PROVE \A q \in Pools : SetChange(q)
  BY <1>1, <1>10 DEF ObservePod, StartPod
<1>11. ASSUME NEW p \in Pools, PodReady(p)
       PROVE \A q \in Pools : SetChange(q)
  BY <1>11, WriteSetEffect DEF PodReady, SetChange, SetReady, Owned
<1>12. ASSUME NEW p \in Pools, PodLost(p)
       PROVE \A q \in Pools : SetChange(q)
  BY <1>12, WriteSetEffect, SMTT(30) DEF PodLost, SetChange, SetLost, Owned
<1>13. ASSUME NEW p \in Pools, CollectSet(p)
       PROVE \A q \in Pools : SetChange(q)
  BY <1>13, WriteSetEffect, SMTT(30) DEF CollectSet, SetChange, SetCollected, Owned
<1>14. CASE CollectObjs \/ User
  BY <1>1, <1>14, Zenon DEF CollectObjs, User, SetReplicas, AddPool, RemovePool,
                     SetPaused, DeleteCluster, Edit
<1>15. CASE Restart
  BY <1>15 DEF Restart, SetChange, SetKept, TypeOK
<1>16. CASE UNCHANGED vars
  BY <1>1, <1>16, SMTT(30) DEF vars
<1> QED
  BY <1>2, <1>3, <1>4, <1>5, <1>6, <1>7, <1>8, <1>9, <1>10, <1>11, <1>12,
     <1>13, <1>14, <1>15, <1>16, SMTT(30)
  DEF Next, Sync, Informers, Kubernetes, SyncNodesService, SyncSeedsService,
      SyncServiceAccount, SyncRole, SyncRoleBinding, Resources

\* Where the versions of the cluster, their requests and their status, come
\* from in one step.
Zero == [p \in Pools |-> 0]
None == [p \in Pools |-> Absent]
Status == [p \in Pools |-> IF p \in StatefulSetsForCluster
                           THEN cSets[p].val.ready ELSE Absent]

ClusterChange ==
  /\ \A p \in Pools : peak[p] <= peak'[p]
  /\ \/ cluster'.desired = cluster.desired
     \/ \A p \in Pools : cluster'.desired[p] <= peak'[p]
  /\ cluster'.nodePools \in {cluster.nodePools, c.val.nodePools, None}
CachedChange ==
  /\ cCluster'.val.desired \in {cCluster.val.desired, cluster.desired}
  /\ cCluster'.val.nodePools \in {cCluster.val.nodePools, cluster.nodePools}
CopyChange ==
  /\ c'.val.desired \in {c.val.desired, cCluster.val.desired, Zero}
  /\ c'.val.nodePools \in {c.val.nodePools, cCluster.val.nodePools, None, Status}
  /\ todo' \subseteq todo \cup StatefulSetsForCluster

\* An edit changes the cluster the way ClusterChange allows.
LEMMA EditChanges ==
  ASSUME TypeOK, NEW kind \in Faults, NEW new \in ClusterType, Edit(kind, new),
         new.nodePools \in {cluster.nodePools, None}
  PROVE  ClusterChange /\ CachedChange /\ CopyChange
<1>1. new.desired \in [Pools -> Nat] /\ peak \in [Pools -> Nat]
  <2>1. new.desired \in Requests
    BY ClusterFields, Zenon
  <2>2. peak \in [Pools -> Nat]
    BY Zenon DEF TypeOK
  <2> QED
    BY <2>1, <2>2, SMT DEF Requests
<1>2. \A p \in Pools : peak[p] <= peak'[p] /\ new.desired[p] <= peak'[p]
  <2> TAKE p \in Pools
  <2>1. new.desired[p] \in Nat /\ peak[p] \in Nat
    BY <1>1
  <2>2. peak'[p] = IF new.desired[p] > peak[p] THEN new.desired[p] ELSE peak[p]
    BY DEF Edit
  <2> QED
    BY <2>1, <2>2, SMT
<1>3. cluster' = new
  BY DEF Edit, WriteCluster
<1>4. c'.val = c.val /\ cCluster'.val = cCluster.val /\ todo' = todo
  BY Copies, ZenonT(60) DEF Edit, WriteCluster, TypeOK
<1>5. ClusterChange
  <2>1. cluster'.nodePools \in {cluster.nodePools, c.val.nodePools, None}
    BY <1>3, Zenon
  <2> QED
    BY <1>2, <1>3, <2>1, Zenon DEF ClusterChange
<1>6. CachedChange /\ CopyChange
  BY <1>4, Zenon DEF CachedChange, CopyChange
<1> QED
  BY <1>5, <1>6

\* Whatever users do changes the cluster the way ClusterChange allows.
LEMMA UserChanges ==
  ASSUME TypeOK, User
  PROVE  ClusterChange /\ CachedChange /\ CopyChange
<1>0. cluster \in ClusterType
  BY Zenon DEF TypeOK
<1>1. ASSUME NEW p \in Pools, NEW n \in 0 .. MaxReplicas
      PROVE  /\ [cluster.desired EXCEPT ![p] = n] \in Requests
             /\ cluster.pools \cup {p} \in SUBSET Pools
             /\ cluster.pools \ {p} \in SUBSET Pools
  BY ClusterFields, SMTT(30) DEF Requests, TypeOK
<1>2. ASSUME NEW p \in Pools, NEW n \in 0 .. MaxReplicas,
             SetReplicas(p, n) \/ AddPool(p, n)
      PROVE  ClusterChange /\ CachedChange /\ CopyChange
  <2> DEFINE desired == [cluster.desired EXCEPT ![p] = n]
  <2>1. PICK S \in SUBSET Pools : Edit("edits", WithPools(S, desired))
    <3>1. cluster.pools \in SUBSET Pools
      BY <1>0, ClusterFields, Zenon
    <3> QED
      BY <1>2, <3>1 DEF SetReplicas, AddPool
  <2>2. desired \in Requests
    BY <1>1, Zenon
  <2> HIDE DEF desired
  <2>3. /\ WithPools(S, desired) \in ClusterType
        /\ WithPools(S, desired).nodePools = cluster.nodePools
    BY <1>0, <2>2, WithPoolsType, Zenon
  <2>4. "edits" \in Faults
    BY DEF Faults
  <2> QED
    BY <2>1, <2>3, <2>4, EditChanges, Zenon
<1>3. ASSUME NEW p \in Pools, RemovePool(p)
      PROVE  ClusterChange /\ CachedChange /\ CopyChange
  <2> DEFINE S == cluster.pools \ {p}
             desired == [cluster.desired EXCEPT ![p] = 0]
  <2>1. S \in SUBSET Pools /\ desired \in Requests
    <3>1. 0 \in 0 .. MaxReplicas
      BY ConstantsAssumption, SMT
    <3> QED
      BY <1>1, <3>1, Zenon
  <2>2. Edit("edits", WithPools(S, desired))
    BY <1>3 DEF RemovePool
  <2> HIDE DEF S, desired
  <2>3. /\ WithPools(S, desired) \in ClusterType
        /\ WithPools(S, desired).nodePools = cluster.nodePools
    BY <1>0, <2>1, WithPoolsType, Zenon
  <2>4. "edits" \in Faults
    BY DEF Faults
  <2> QED
    BY <2>2, <2>3, <2>4, EditChanges, Zenon
<1>4. ASSUME NEW b \in BOOLEAN, SetPaused(b)
      PROVE  ClusterChange /\ CachedChange /\ CopyChange
  <2> DEFINE new == [cluster EXCEPT !.paused = b]
  <2>1. new \in ClusterType /\ new.nodePools = cluster.nodePools
    BY ClusterUpdates DEF TypeOK
  <2>2. Edit("edits", new)
    BY <1>4 DEF SetPaused
  <2> HIDE DEF new
  <2> QED
    BY <2>1, <2>2, EditChanges DEF Faults
<1>5. ASSUME DeleteCluster PROVE ClusterChange /\ CachedChange /\ CopyChange
  BY <1>5, EditChanges, NoClusterType DEF DeleteCluster, Faults, None
<1> QED
  BY <1>2, <1>3, <1>4, <1>5 DEF User

\* Every step changes the cluster, its cached copy and the copy the sync works
\* on in one of the ways ClusterChange, CachedChange and CopyChange list.
LEMMA ClusterChanges ==
  ASSUME TypeOK, [Next]_vars
  PROVE  ClusterChange /\ CachedChange /\ CopyChange
<1> USE DEF apiVars, cacheVars, syncVars
<1> DEFINE Goal == ClusterChange /\ CachedChange /\ CopyChange
<1>0. peak \in [Pools -> Nat]
  BY DEF TypeOK
<1>1. UNCHANGED <<cluster, peak>> => ClusterChange
  BY <1>0, SMT DEF ClusterChange
<1>2. UNCHANGED cCluster => CachedChange
  BY DEF CachedChange
<1>3. UNCHANGED c /\ todo' \subseteq todo \cup StatefulSetsForCluster => CopyChange
  BY DEF CopyChange
<1>4. CASE BeginSync
  <2>1. CopyChange
    BY <1>4, WithPausedConditionType DEF BeginSync, CopyChange, TypeOK
  <2> QED
    BY <1>1, <1>2, <1>4, <2>1, SMTT(30) DEF BeginSync
<1>5. ASSUME NEW r \in Resources, EnsureResource(r) PROVE Goal
  BY <1>1, <1>2, <1>3, <1>5 DEF EnsureResource, Goto, Fail
<1>6. CASE UpdateNodePoolStatus
  <2> DEFINE v == [c.val EXCEPT !.nodePools = Status]
  <2>1. Status \in Statuses
    BY Copies, SetFields, ZenonT(60) DEF TypeOK, Statuses, Status
  <2>2. v \in ClusterType /\ v.desired = c.val.desired /\ v.nodePools = Status
    BY <2>1, Copies, ClusterUpdates, SMT DEF TypeOK
  <2>3. c' = [c EXCEPT !.val = v]
    BY <1>6 DEF UpdateNodePoolStatus, Status
  <2> HIDE DEF v
  <2>4. c'.val = v
    BY <2>2, <2>3, Copies, SMT DEF TypeOK
  <2> QED
    BY <1>1, <1>2, <1>6, <2>2, <2>4 DEF UpdateNodePoolStatus, CopyChange
<1>7. CASE ListSeedNodes
  BY <1>1, <1>2, <1>3, <1>7 DEF ListSeedNodes
<1>8. ASSUME NEW p \in Pools, LabelSeedNode(p) PROVE Goal
  BY <1>1, <1>2, <1>3, <1>8 DEF LabelSeedNode, SeedDone, Fail
<1>9. CASE NextAction
  BY <1>1, <1>2, <1>3, <1>9, Zenon
  DEF NextAction, CreateNodePool, ScaleOut, Goto, Fail
<1>10. CASE UpdateStatus
  <2>1. CopyChange
    BY <1>10, NoClusterType DEF UpdateStatus, EndSync, CopyChange, Zero, None
  <2>2. \/ cluster' = cluster /\ cCluster' = cCluster
        \/ WriteCluster(WithStatus(cluster, c.val))
    BY <1>10, Zenon DEF UpdateStatus
  <2>3. c.val \in ClusterType
    BY Copies DEF TypeOK
  <2>4. ClusterChange
    BY <1>0, <1>10, <2>2, <2>3, WithStatusType, SMT
    DEF UpdateStatus, WriteCluster, ClusterChange, TypeOK
  <2>5. CachedChange
    BY <2>2, Copies, SMT DEF WriteCluster, CachedChange, TypeOK
  <2> QED
    BY <2>1, <2>4, <2>5
<1>11. CASE ObserveCluster
  BY <1>1, <1>3, <1>11, Copies DEF ObserveCluster, CachedChange, TypeOK
<1>12. ASSUME NEW p \in Pools, ObserveSet(p) \/ ObservePod(p) PROVE Goal
  BY <1>1, <1>2, <1>3, <1>12 DEF ObserveSet, ObservePod
<1>13. CASE ObserveObjs \/ CollectObjs
  BY <1>1, <1>2, <1>3, <1>13 DEF ObserveObjs, CollectObjs
<1>14. ASSUME NEW p \in Pools,
              StartPod(p) \/ PodReady(p) \/ PodLost(p) \/ CollectSet(p)
       PROVE  Goal
  BY <1>1, <1>2, <1>3, <1>14 DEF StartPod, PodReady, PodLost, CollectSet
<1>15. CASE User
  BY <1>15, UserChanges
<1>16. CASE Restart
  BY <1>1, <1>16, Copies, NoClusterType
  DEF Restart, CachedChange, CopyChange, TypeOK, Zero, None
<1>17. CASE UNCHANGED vars
  BY <1>1, <1>2, <1>3, <1>17 DEF vars
<1> QED
  BY <1>4, <1>5, <1>6, <1>7, <1>8, <1>9, <1>10, <1>11, <1>12, <1>13, <1>14,
     <1>15, <1>16, <1>17
  DEF Next, Sync, Informers, Kubernetes, SyncNodesService, SyncSeedsService,
      SyncServiceAccount, SyncRole, SyncRoleBinding, Resources

-----------------------------------------------------------------------------
(* Preservation of the invariant, conjunct by conjunct.                    *)

\* A cached copy that is still current stays equal to the StatefulSet.
LEMMA FreshStep ==
  ASSUME TypeOK, Fresh, \A q \in Pools : SetChange(q)
  PROVE  Fresh'
<1> SUFFICES ASSUME NEW p \in Pools, cSets'[p].current
             PROVE  cSets'[p].val = sets'[p]
  BY DEF Fresh
<1>1. ~SetWritten(p)
  BY Copies, SMT DEF SetWritten, TypeOK
<1>2. SetKept(p)
  BY <1>1 DEF SetChange
<1> QED
  BY <1>2, Copies, SMT DEF SetKept, Fresh, TypeOK

\* No step takes a replica count, in the API or in a copy of it, above the
\* largest one requested so far.
LEMMA BoundedStep ==
  ASSUME TypeOK, TypeOK', Fresh, Bounded, ClusterChange, CachedChange, CopyChange,
         \A q \in Pools : SetChange(q)
  PROVE  Bounded'
<1> SUFFICES ASSUME NEW p \in Pools
             PROVE  /\ cluster'.desired[p] <= peak'[p]
                    /\ cCluster'.val.desired[p] <= peak'[p]
                    /\ c'.val.desired[p] <= peak'[p]
                    /\ Owned(p)' => sets'[p].replicas <= peak'[p]
  BY SMTT(30) DEF Bounded
<1>1. /\ peak[p] \in Nat /\ peak'[p] \in Nat /\ peak[p] <= peak'[p]
      /\ cluster.desired[p] \in Nat /\ cCluster.val.desired[p] \in Nat
      /\ c.val.desired[p] \in Nat
  <2>1. peak[p] \in Nat /\ peak'[p] \in Nat /\ peak[p] <= peak'[p]
    BY DEF TypeOK, ClusterChange
  <2>2. /\ cluster.desired \in Requests /\ cCluster.val.desired \in Requests
        /\ c.val.desired \in Requests
    BY Copies, ClusterFields, SMTT(30) DEF TypeOK
  <2> QED
    BY <2>1, <2>2, SMTT(30) DEF Requests
<1>2. cluster'.desired[p] <= peak'[p]
  <2>1. \/ cluster'.desired[p] = cluster.desired[p]
        \/ cluster'.desired[p] <= peak'[p]
    BY DEF ClusterChange
  <2>2. cluster.desired[p] <= peak[p]
    BY SMTT(30) DEF Bounded
  <2> QED
    BY <1>1, <2>1, <2>2, SMT
<1>3. cCluster'.val.desired[p] <= peak'[p]
  <2>1. cCluster'.val.desired[p] \in {cCluster.val.desired[p], cluster.desired[p]}
    BY DEF CachedChange
  <2>2. cCluster.val.desired[p] <= peak[p] /\ cluster.desired[p] <= peak[p]
    BY DEF Bounded
  <2> QED
    BY <1>1, <2>1, <2>2, SMT
<1>4. c'.val.desired[p] <= peak'[p]
  <2>1. c'.val.desired[p] \in {c.val.desired[p], cCluster.val.desired[p], 0}
    BY DEF CopyChange, Zero
  <2>2. c.val.desired[p] <= peak[p] /\ cCluster.val.desired[p] <= peak[p]
    BY SMTT(30) DEF Bounded
  <2> QED
    BY <1>1, <2>1, <2>2, SMT
<1>5. ASSUME Owned(p)' PROVE sets'[p].replicas <= peak'[p]
  <2>0. sets[p] \in SetType /\ cSets[p].val \in SetType
    BY Copies, ZenonT(60) DEF TypeOK
  <2>1. CASE SetKept(p) \/ SetReady(p) \/ SetLost(p)
    <3>1. sets'[p].replicas = sets[p].replicas /\ Owned(p)
      BY <1>5, <2>0, <2>1, SetFields, ZenonT(60) DEF SetKept, SetReady, SetLost,
         Owned
    <3>2. sets[p].replicas \in Nat /\ sets[p].replicas <= peak[p]
      BY <2>0, <3>1, SetFields, Zenon DEF Bounded
    <3> QED
      BY <1>1, <3>1, <3>2, SMT
  <2>2. CASE SetCreated(p)
    BY <1>1, <2>2, SetFields, SMT DEF SetCreated
  <2>3. CASE SetScaled(p)
    <3>1. sets'[p].replicas = cSets[p].val.replicas + 1
      BY <2>0, <2>3, SetFields, SMT DEF SetScaled
    <3>2. cSets[p].val.replicas \in Nat
      BY <2>0, SetFields, Zenon
    <3>3. cSets[p].val.replicas < c.val.desired[p]
      <4>1. ~ScaleOutBlocked(cSets[p].val, p)
        BY <2>3, Zenon DEF SetScaled
      <4> QED
        BY <1>1, <3>2, <4>1, SMT DEF ScaleOutBlocked
    <3>4. c.val.desired[p] <= peak[p]
      BY DEF Bounded
    <3> QED
      BY <1>1, <3>1, <3>2, <3>3, <3>4, SMT
  <2>4. CASE SetCollected(p)
    BY <1>5, <2>4, SMT DEF SetCollected, Owned, NoSet
  <2> QED
    BY <2>1, <2>2, <2>3, <2>4 DEF SetChange
<1> QED
  BY <1>2, <1>3, <1>4, <1>5

\* A StatefulSet of another owner is left alone, and the status of its pool in
\* no copy of the cluster starts to say that the pool is there.
LEMMA ForeignStep ==
  ASSUME TypeOK, Fresh, ForeignKnown, ClusterChange, CachedChange, CopyChange,
         \A q \in Pools : SetChange(q)
  PROVE  /\ ForeignKnown'
         /\ \A p \in Pools : sets[p].owner = "other" => sets'[p] = sets[p]
<1>1. ASSUME NEW p \in Pools, sets[p].owner = "other"
      PROVE  sets'[p] = sets[p] /\ cSets'[p].val.owner = "other"
  <2>1. ~SetScaled(p)
    BY <1>1 DEF SetScaled, ForeignKnown
  <2>2. SetKept(p)
    BY <1>1, <2>1, Zenon DEF SetChange, SetCreated, SetReady, SetLost, SetCollected,
                      Owned
  <2> QED
    BY <1>1, <2>2, Copies, SMT DEF SetKept, ForeignKnown, TypeOK
<1>2. ASSUME NEW p \in Pools, sets'[p].owner = "other"
      PROVE  sets[p].owner = "other"
  <2>0. sets[p] \in SetType /\ cSets[p].val \in SetType
    BY Copies DEF TypeOK
  <2>1. ~SetCreated(p) /\ ~SetCollected(p)
    BY <1>2, SetFields, SMT DEF SetCreated, SetCollected, NoSet
  <2>2. ~SetReady(p) /\ ~SetLost(p)
    BY <1>2, <2>0, SetFields, Zenon DEF SetReady, SetLost, Owned
  <2>3. SetScaled(p) => sets[p].owner = "other"
    BY <1>2, <2>0, SetFields, SMT DEF SetScaled, Fresh
  <2> QED
    BY <1>2, <2>1, <2>2, <2>3 DEF SetChange, SetKept
<1>3. ASSUME NEW p \in Pools, sets[p].owner = "other"
      PROVE  /\ cluster'.nodePools[p] = Absent
             /\ cCluster'.val.nodePools[p] = Absent
             /\ c'.val.nodePools[p] = Absent
             /\ p \notin todo'
  <2>1. p \notin StatefulSetsForCluster /\ Status[p] = Absent
    BY <1>3 DEF StatefulSetsForCluster, Status, ForeignKnown
  <2> QED
    BY <1>3, <2>1, ZenonT(60) DEF ForeignKnown, ClusterChange, CachedChange,
       CopyChange, None
<1> QED
  BY <1>1, <1>2, <1>3 DEF ForeignKnown

\* The controller's position after one step, seen from a paused copy.
LEMMA PausedStep ==
  ASSUME TypeOK, PausedAtStatus, [Next]_vars
  PROVE  PausedAtStatus'
<1> USE DEF apiVars, cacheVars, syncVars
<1>0. /\ ~NoCopy.val.paused
      /\ Outdated(c).val.paused = c.val.paused
  BY Copies, NoClusterType, SMT DEF TypeOK, NoCluster
<1>1. CASE UNCHANGED <<pc, c>>
  BY <1>1 DEF PausedAtStatus
<1>2. CASE BeginSync
  BY <1>2, WithPausedConditionType, ClusterFields, Copies, SMT
  DEF BeginSync, PausedAtStatus, TypeOK
<1>3. ASSUME NEW r \in Resources, EnsureResource(r) PROVE PausedAtStatus'
  BY <1>3 DEF EnsureResource, Goto, Fail, PausedAtStatus, Resources
<1>4. CASE UpdateNodePoolStatus
  <2> DEFINE v == [c.val EXCEPT !.nodePools = Status]
  <2>1. Status \in Statuses
    BY Copies, SetFields, ZenonT(60) DEF TypeOK, Statuses, Status
  <2>2. v \in ClusterType /\ v.paused = c.val.paused
    BY <2>1, Copies, ClusterUpdates, ZenonT(60) DEF TypeOK
  <2>3. c' = [c EXCEPT !.val = v]
    BY <1>4 DEF UpdateNodePoolStatus, Status
  <2> HIDE DEF v
  <2>4. c'.val = v
    BY <2>2, <2>3, Copies, SMT DEF TypeOK
  <2> QED
    BY <1>4, <2>2, <2>4 DEF UpdateNodePoolStatus, PausedAtStatus
<1>5. CASE ListSeedNodes
  BY <1>5 DEF ListSeedNodes, PausedAtStatus
<1>6. ASSUME NEW p \in Pools, LabelSeedNode(p) PROVE PausedAtStatus'
  BY <1>6 DEF LabelSeedNode, SeedDone, Fail, PausedAtStatus
<1>7. CASE NextAction
  BY <1>7, ZenonT(30) DEF NextAction, CreateNodePool, ScaleOut, Goto, Fail, PausedAtStatus
<1>8. CASE UpdateStatus
  BY <1>0, <1>8, SMTT(30) DEF UpdateStatus, EndSync, PausedAtStatus
<1>9. CASE Informers
  BY <1>1, <1>9 DEF Informers, ObserveCluster, ObserveSet, ObservePod, ObserveObjs
<1>10. CASE Kubernetes \/ \E p \in Pools : PodLost(p)
  BY <1>1, <1>10, Zenon
  DEF Kubernetes, StartPod, PodReady, PodLost, CollectSet, CollectObjs
<1>11. CASE User
  BY <1>0, <1>11, Zenon DEF User, SetReplicas, AddPool, RemovePool, SetPaused,
                     DeleteCluster, Edit, PausedAtStatus
<1>12. CASE Restart
  BY <1>0, <1>12, Zenon DEF Restart, PausedAtStatus
<1>13. CASE UNCHANGED vars
  BY <1>1, <1>13 DEF vars
<1> QED
  BY <1>2, <1>3, <1>4, <1>5, <1>6, <1>7, <1>8, <1>9, <1>10, <1>11, <1>12, <1>13
  DEF Next, Sync, SyncNodesService, SyncSeedsService, SyncServiceAccount,
      SyncRole, SyncRoleBinding, Resources

\* The inductive invariant holds when the controller starts.
LEMMA InitInv == Init => Inv
<1> SUFFICES ASSUME Init PROVE Inv
  OBVIOUS
<1>1. TypeOK
  BY InitTypes
<1>s. PICK s \in Scenarios : /\ cluster = InitialCluster(s)
                             /\ sets = [p \in Pools |-> InitialSet(s, p)]
  BY DEF Init
<1>2. Fresh
  BY <1>1, Copies, SMTT(30) DEF Fresh, Init, TypeOK
<1>3. Bounded
  <2> SUFFICES ASSUME NEW p \in Pools PROVE Bounded!(p)
    BY DEF Bounded
  <2>1. cluster.desired[p] \in Nat
    BY <1>1, ClusterFields, SMT DEF TypeOK, Requests
  <2>2. cCluster.val = cluster /\ peak[p] = cluster.desired[p]
    <3>1. cCluster = Copy(cluster) /\ peak = cluster.desired
      BY DEF Init
    <3> QED
      BY <3>1 DEF Copy
  <2>3. c.val.desired[p] = 0
    <3>1. c = NoCopy
      BY DEF Init
    <3> QED
      BY <3>1, NoClusterType
  <2>4. Owned(p) => sets[p].replicas <= peak[p]
    <3>1. CASE p \in s.pools \ s.foreign /\ s.established
      BY ConstantsAssumption, <1>s, <3>1, SMT DEF Init, InitialSet, InitialCluster, ScenarioType
    <3>2. CASE p \in s.foreign \/ ~(p \in s.pools /\ s.established)
      BY <1>s, <3>2 DEF InitialSet, Owned, NoSet
    <3> QED
      BY <3>1, <3>2
  <2>5. cluster.desired[p] <= peak[p] /\ 0 <= peak[p]
    BY <2>1, <2>2, SMT
  <2> QED
    BY <2>2, <2>3, <2>4, <2>5, Zenon
<1>4. ForeignKnown
  <2> SUFFICES ASSUME NEW p \in Pools, sets[p].owner = "other"
               PROVE  ForeignKnown!(p)!2
    BY DEF ForeignKnown
  <2>1. p \in s.foreign
    BY <1>s DEF InitialSet, NoSet
  <2>2. cluster.nodePools[p] = Absent
    BY <1>s, <2>1 DEF InitialCluster
  <2> QED
    BY <1>1, <2>2, Copies, NoClusterType, SMT DEF Init, TypeOK
<1>5. PausedAtStatus
  <2>1. c.val = NoCluster
    <3>1. c = NoCopy
      BY DEF Init
    <3> QED
      BY <3>1, NoClusterType, Zenon
  <2> QED
    BY <2>1, SMT DEF PausedAtStatus, NoCluster
<1> QED
  BY <1>1, <1>2, <1>3, <1>4, <1>5, Zenon DEF Inv

\* The inductive invariant is kept by every step.
LEMMA StepInv == Inv /\ [Next]_vars => Inv'
<1> SUFFICES ASSUME Inv, [Next]_vars PROVE Inv'
  OBVIOUS
<1>1. TypeOK'
  BY StepTypes DEF Inv
<1>2. \A q \in Pools : SetChange(q)
  BY SetChanges DEF Inv
<1>3. ClusterChange /\ CachedChange /\ CopyChange
  BY ClusterChanges DEF Inv
<1> QED
  BY <1>1, <1>2, <1>3, FreshStep, BoundedStep, ForeignStep, PausedStep DEF Inv

\* The invariant holds in every reachable state.
THEOREM InvHolds == Spec => []Inv
BY InitInv, StepInv, PTL DEF Spec

-----------------------------------------------------------------------------
(* The safety theorems.                                                    *)

\* scaleout.go never takes a pool past the largest replica count that was ever
\* requested for it, whichever stale spec and stale set a sync combines.
THEOREM NeverOutgrowsRequest == Spec => []WithinRequested
<1>1. Inv => WithinRequested
  BY DEF Inv, Bounded, WithinRequested
<1> QED
  BY <1>1, InvHolds, PTL

\* A pool grows one node at a time, and only while all its nodes are ready,
\* whatever the informer caches hold (scaleout.go Execute).
THEOREM GrowthIsSafe == Spec => GrowsByOneWhenReady
<1> DEFINE A(p) ==
      /\ Owned(p) /\ Owned(p)' /\ sets'[p].replicas # sets[p].replicas
           => /\ sets'[p].replicas = sets[p].replicas + 1
              /\ sets[p].ready = sets[p].replicas
      /\ ~Owned(p) /\ Owned(p)' => sets'[p].replicas = 0
<1>1. ASSUME Inv, [Next]_vars, NEW p \in Pools PROVE A(p)
  <2>1. SetChange(p)
    BY <1>1, SetChanges DEF Inv
  <2>2. sets[p] \in SetType /\ cSets[p].val \in SetType
    BY <1>1, Copies DEF Inv, TypeOK
  <2>3. CASE SetKept(p)
    BY <2>3 DEF SetKept, Owned
  <2>4. CASE SetCreated(p)
    BY <2>4, SetFields DEF SetCreated, Owned
  <2>5. CASE SetScaled(p)
    <3>1. cSets[p].val = sets[p]
      BY <1>1, <2>5 DEF SetScaled, Inv, Fresh
    <3>2. /\ sets[p].ready = sets[p].replicas
          /\ sets'[p].replicas = sets[p].replicas + 1
          /\ sets'[p].owner = sets[p].owner
      BY <2>2, <2>5, <3>1, SetFields, SMT DEF SetScaled, ScaleOutBlocked
    <3> QED
      BY <3>2 DEF Owned
  <2>6. CASE SetReady(p) \/ SetLost(p)
    BY <2>2, <2>6, SetFields, Zenon DEF SetReady, SetLost, Owned
  <2>7. CASE SetCollected(p)
    BY <2>7, SMTT(30) DEF SetCollected, Owned, NoSet
  <2> QED
    BY <2>1, <2>3, <2>4, <2>5, <2>6, <2>7, Zenon DEF SetChange
<1>2. Inv /\ [Next]_vars => [\A p \in Pools : A(p)]_vars
  BY <1>1
<1> QED
  BY <1>2, InvHolds, PTL DEF Spec, GrowsByOneWhenReady

\* What one step may do to pod 0 of a pool.
PodChange(p) ==
  \/ seeds'[p] = seeds[p]
  \/ pc = "label" /\ p \in todo
  \/ Owned(p) /\ seeds'[p] \in {"none", "plain"}

\* Every step does to pod 0 of a pool one of the things PodChange lists.
LEMMA PodChanges ==
  ASSUME TypeOK, [Next]_vars, NEW p \in Pools
  PROVE  PodChange(p)
<1> USE DEF apiVars, cacheVars, syncVars
<1>1. CASE UNCHANGED seeds
  BY <1>1 DEF PodChange
<1>2. ASSUME NEW q \in Pools, LabelSeedNode(q) PROVE PodChange(p)
  BY <1>2 DEF LabelSeedNode, TypeOK, PodChange
<1>3. ASSUME NEW q \in Pools, StartPod(q) \/ PodReady(q) \/ PodLost(q) \/ CollectSet(q)
      PROVE  PodChange(p)
  BY <1>3 DEF StartPod, PodReady, PodLost, CollectSet, WritePod, Owned, TypeOK,
               PodChange
<1>4. CASE NextAction
  BY <1>1, <1>4, Zenon DEF NextAction, CreateNodePool, ScaleOut
<1>5. CASE User
  BY <1>1, <1>5, Zenon DEF User, SetReplicas, AddPool, RemovePool, SetPaused,
                    DeleteCluster, Edit
<1>6. CASE Informers \/ Restart \/ CollectObjs
  BY <1>1, <1>6 DEF Informers, ObserveCluster, ObserveSet, ObservePod,
                    ObserveObjs, Restart, CollectObjs
<1>7. CASE BeginSync \/ UpdateNodePoolStatus \/ ListSeedNodes \/ UpdateStatus
  BY <1>1, <1>7, Zenon DEF BeginSync, UpdateNodePoolStatus, ListSeedNodes, UpdateStatus
<1>8. ASSUME NEW r \in Resources, EnsureResource(r) PROVE UNCHANGED seeds
  BY <1>8 DEF EnsureResource
<1>9. CASE UNCHANGED vars
  BY <1>1, <1>9 DEF vars
<1> QED
  BY <1>1, <1>2, <1>3, <1>4, <1>5, <1>6, <1>7, <1>8, <1>9
  DEF Next, Sync, Kubernetes, SyncNodesService, SyncSeedsService,
      SyncServiceAccount, SyncRole, SyncRoleBinding, Resources

\* What one step may do to the services, accounts, roles and bindings.
ObjChange(r) ==
  \/ objs'[r] = objs[r]
  \/ pc = r /\ objs[r] = "none"
  \/ objs[r] = "this" /\ objs'[r] = "none"

\* Every step does to the other resources one of the things ObjChange lists.
LEMMA ObjChanges ==
  ASSUME TypeOK, [Next]_vars, NEW r \in Resources
  PROVE  ObjChange(r)
<1> USE DEF apiVars, cacheVars, syncVars
<1>1. CASE UNCHANGED objs
  BY <1>1, SMTT(30) DEF ObjChange
<1>2. ASSUME NEW q \in Resources, EnsureResource(q) PROVE ObjChange(r)
  BY <1>2 DEF EnsureResource, TypeOK, ObjChange
<1>3. CASE CollectObjs
  BY <1>3 DEF CollectObjs, ObjChange
<1>4. CASE NextAction
  BY <1>1, <1>4, Zenon DEF NextAction, CreateNodePool, ScaleOut
<1>5. CASE User
  BY <1>1, <1>5, Zenon DEF User, SetReplicas, AddPool, RemovePool, SetPaused,
                    DeleteCluster, Edit
<1>6. CASE Informers \/ Restart
  BY <1>1, <1>6 DEF Informers, ObserveCluster, ObserveSet, ObservePod,
                    ObserveObjs, Restart
<1>7. CASE BeginSync \/ UpdateNodePoolStatus \/ ListSeedNodes \/ UpdateStatus
  BY <1>1, <1>7, Zenon DEF BeginSync, UpdateNodePoolStatus, ListSeedNodes, UpdateStatus
<1>8. ASSUME NEW q \in Pools, \/ LabelSeedNode(q) \/ StartPod(q) \/ PodReady(q)
                              \/ PodLost(q) \/ CollectSet(q)
      PROVE  UNCHANGED objs
  BY <1>8 DEF LabelSeedNode, StartPod, PodReady, PodLost, CollectSet
<1>9. CASE UNCHANGED vars
  BY <1>1, <1>9 DEF vars
<1> QED
  BY <1>1, <1>2, <1>3, <1>4, <1>5, <1>6, <1>7, <1>8, <1>9
  DEF Next, Sync, Kubernetes, SyncNodesService, SyncSeedsService,
      SyncServiceAccount, SyncRole, SyncRoleBinding, Resources

\* Objects of the same name that belong to somebody else are left alone by
\* every control (OwnerCheck, StatefulSetsForCluster).
THEOREM ForeignSafe == Spec => ForeignUntouched
<1> DEFINE A == /\ \A p \in Pools : sets[p].owner = "other" =>
                     sets'[p] = sets[p] /\ seeds'[p] = seeds[p]
                /\ \A r \in Resources : objs[r] = "other" => objs'[r] = "other"
<1>1. ASSUME Inv, [Next]_vars PROVE A
  <2>1. \A p \in Pools : sets[p].owner = "other" => sets'[p] = sets[p]
    <3>1. \A q \in Pools : SetChange(q)
      BY <1>1, SetChanges DEF Inv
    <3>2. ClusterChange /\ CachedChange /\ CopyChange
      BY <1>1, ClusterChanges DEF Inv
    <3> QED
      BY <1>1, <3>1, <3>2, ForeignStep DEF Inv
  <2>2. \A p \in Pools : sets[p].owner = "other" => seeds'[p] = seeds[p]
    <3>1. TypeOK /\ ForeignKnown
      BY <1>1, Zenon DEF Inv
    <3>2. \A p \in Pools : PodChange(p)
      BY <1>1, <3>1, PodChanges, Zenon
    <3> QED
      BY <3>1, <3>2 DEF ForeignKnown, Owned, PodChange
  <2>3. \A r \in Resources : objs[r] = "other" => objs'[r] = "other"
    <3>1. TypeOK
      BY <1>1, Zenon DEF Inv
    <3>2. \A r \in Resources : ObjChange(r)
      BY <1>1, <3>1, ObjChanges, Zenon
    <3> QED
      BY <3>2 DEF ObjChange
  <2> QED
    BY <2>1, <2>2, <2>3, Zenon
<1>2. Inv /\ [Next]_vars => [A]_vars
  BY <1>1
<1> QED
  BY <1>2, InvHolds, PTL DEF Spec, ForeignUntouched

\* A controller that knows that the cluster is paused changes nothing but the
\* status (cluster_control.go Sync returns after syncPausedConditions).
THEOREM PausedIsQuiet == Spec => PausedMeansNoAction
<1> DEFINE A == cCluster.val.paused /\ (pc = "idle" \/ c.val.paused) =>
                  /\ \A p \in Pools : /\ sets'[p].replicas <= sets[p].replicas
                                      /\ Owned(p)' => Owned(p)
                                      /\ seeds'[p] = "seed" => seeds[p] = "seed"
                  /\ \A r \in Resources : objs'[r] = "this" => objs[r] = "this"
<1>1. ASSUME Inv, [Next]_vars, pc = "idle" \/ c.val.paused PROVE A
  <2>1. pc \in {"idle", "status"}
    BY <1>1 DEF Inv, PausedAtStatus
  <2>2. ASSUME NEW p \in Pools
        PROVE  sets'[p].replicas <= sets[p].replicas /\ (Owned(p)' => Owned(p))
    <3>1. SetChange(p) /\ sets[p] \in SetType
      BY <1>1, SetChanges DEF Inv, TypeOK
    <3>2. sets[p].replicas \in Nat
      BY <3>1, SetFields, Zenon
    <3>3. CASE SetKept(p) \/ SetReady(p) \/ SetLost(p)
      <4>1. sets'[p].replicas = sets[p].replicas /\ sets'[p].owner = sets[p].owner
        BY <3>1, <3>3, SetFields, Zenon DEF SetKept, SetReady, SetLost
      <4> QED
        BY <3>2, <4>1, SMT DEF Owned
    <3>4. CASE SetCollected(p)
      <4>1. sets'[p].replicas = 0 /\ sets'[p].owner = "none"
        <5>1. sets'[p] = NoSet
          BY <3>4, Zenon DEF SetCollected
        <5>2. NoSet.replicas = 0 /\ NoSet.owner = "none"
          BY DEF NoSet
        <5> QED
          BY <5>1, <5>2, Zenon
      <4> QED
        BY <3>2, <4>1, SMT DEF Owned
    <3> QED
      BY <2>1, <3>1, <3>3, <3>4, SMTT(30) DEF SetChange, SetScaled
  <2>3. ASSUME NEW p \in Pools PROVE seeds'[p] = "seed" => seeds[p] = "seed"
    BY <1>1, <2>1, PodChanges DEF Inv, PodChange
  <2>4. ASSUME NEW r \in Resources PROVE objs'[r] = "this" => objs[r] = "this"
    BY <1>1, <2>1, ObjChanges, SMTT(30) DEF Inv, Resources, ObjChange
  <2> QED
    BY <2>2, <2>3, <2>4
<1>2. Inv /\ [Next]_vars => [A]_vars
  BY <1>1, Zenon
<1> QED
  BY <1>2, InvHolds, PTL DEF Spec, PausedMeansNoAction

-----------------------------------------------------------------------------
(* How a cluster is brought up, for any number of pools and replicas: until  *)
(* a user edits the spec or a pod is lost, nodes join one at a time and      *)
(* pools are filled in the order of the spec, whatever the caches hold and   *)
(* however many calls fail or restarts happen.                               *)

\* The spec is the one the cluster was created with, in every copy of it.
Settled ==
  /\ cluster.exists /\ peak = cluster.desired
  /\ cCluster.val.pools = cluster.pools
  /\ cCluster.val.desired = cluster.desired
  /\ pc # "idle" => /\ c.val.pools = cluster.pools
                    /\ c.val.desired = cluster.desired

\* A status never claims more nodes than are ready now: caches and copies only
\* trail behind sets whose nodes are not lost.
Reported(st) ==
  \A q \in Pools : st[q] # Absent => Owned(q) /\ st[q] <= sets[q].ready

Observed ==
  /\ \A q \in Pools : cSets[q].val.owner = "this" =>
                        Owned(q) /\ cSets[q].val.ready <= sets[q].ready
  /\ Reported(cluster.nodePools) /\ Reported(cCluster.val.nodePools)
  /\ Reported(c.val.nodePools)

\* Every set belongs to a pool of the spec, and lacks at most one node of what
\* it asks for.
Placed ==
  \A q \in Pools : Owned(q) => /\ q \in cluster.pools
                               /\ sets[q].replicas <= cluster.desired[q]
                               /\ sets[q].replicas <= sets[q].ready + 1

\* Pools are filled one after the other, and one node at a time.
InOrder ==
  \A p, q \in cluster.pools :
    p < q /\ Owned(q) /\ sets[q].replicas > 0 =>
      Owned(p) /\ sets[p].ready >= cluster.desired[p]
OneJoining == \A p, q \in Joining : p = q

BringUp == Settled /\ Observed /\ Placed /\ InOrder /\ OneJoining

\* A fault adds one to its own counter only.
LEMMA SpendCounts ==
  ASSUME TypeOK, NEW kind \in Faults, Spend(kind), NEW f \in Faults
  PROVE  /\ budget[f].spent \in Nat
         /\ budget'[f].spent = budget[f].spent + (IF f = kind THEN 1 ELSE 0)
<1>1. budget \in [Faults -> [left: Nat, spent: Nat]]
  BY Zenon DEF TypeOK, BudgetType
<1> DEFINE new == [left |-> budget[kind].left - 1, spent |-> budget[kind].spent + 1]
<1>2. budget' = [budget EXCEPT ![kind] = new]
  BY DEF Spend
<1>3. new.spent = budget[kind].spent + 1
  OBVIOUS
<1> HIDE DEF new
<1>4. budget[f].spent \in Nat
  BY <1>1
<1>5. CASE f = kind
  BY <1>1, <1>2, <1>3, <1>5
<1>6. CASE f # kind
  BY <1>1, <1>2, <1>4, <1>6, SMT
<1> QED
  BY <1>4, <1>5, <1>6

\* The steps of the controller and of Kubernetes, errors and restarts included.
Quiet == Sync \/ Informers \/ Kubernetes \/ Restart \/ UNCHANGED vars

\* Every call that spends from the budget spends one fault; a quiet step spends
\* a failing call or a restart at most.
LEMMA QuietSpends ==
  ASSUME Quiet
  PROVE  UNCHANGED budget \/ Spend("errors") \/ Spend("crashes")
<1>1. CASE Sync
  <2>1. ASSUME NEW r \in Resources, EnsureResource(r)
        PROVE  UNCHANGED budget \/ Spend("errors")
    BY <2>1, Zenon DEF EnsureResource
  <2>2. CASE BeginSync \/ UpdateNodePoolStatus \/ ListSeedNodes
    BY <2>2, Zenon DEF BeginSync, UpdateNodePoolStatus, ListSeedNodes
  <2>3. ASSUME NEW p \in Pools, LabelSeedNode(p)
        PROVE  UNCHANGED budget \/ Spend("errors")
    BY <2>3, Zenon DEF LabelSeedNode
  <2>4. CASE NextAction
    BY <2>4, Zenon DEF NextAction, CreateNodePool, ScaleOut
  <2>5. CASE UpdateStatus
    BY <2>5, Zenon DEF UpdateStatus
  <2> QED
    BY <1>1, <2>1, <2>2, <2>3, <2>4, <2>5
    DEF Sync, SyncNodesService, SyncSeedsService, SyncServiceAccount,
        SyncRole, SyncRoleBinding, Resources
<1>2. CASE Informers
  BY <1>2, Zenon DEF Informers, ObserveCluster, ObserveSet, ObservePod,
                     ObserveObjs
<1>3. CASE Kubernetes
  BY <1>3, Zenon DEF Kubernetes, StartPod, PodReady, CollectSet, CollectObjs
<1>4. CASE Restart
  BY <1>4, Zenon DEF Restart
<1>5. CASE UNCHANGED vars
  BY <1>5 DEF vars
<1> QED
  BY <1>1, <1>2, <1>3, <1>4, <1>5 DEF Quiet

\* A cluster is undisturbed after a step only if it was before and the step is
\* neither an edit nor the loss of a pod.
LEMMA UndisturbedStep ==
  ASSUME TypeOK, [Next]_vars, Undisturbed'
  PROVE  Undisturbed /\ Quiet
<1>0. {"edits", "deletes", "failures", "errors", "crashes"} = Faults
  BY DEF Faults
<1>a. \A f \in Faults : budget[f].spent \in Nat
  BY Zenon DEF TypeOK, BudgetType
<1>1. ASSUME NEW kind \in {"edits", "deletes", "failures"}, Spend(kind)
      PROVE  FALSE
  BY <1>0, <1>1, SpendCounts, SMT DEF Undisturbed
<1>2. ~User
  BY <1>1, Zenon DEF User, SetReplicas, AddPool, RemovePool, SetPaused,
                     DeleteCluster, Edit
<1>3. \A p \in Pools : ~PodLost(p)
  BY <1>1, Zenon DEF PodLost
<1>4. Quiet
  BY <1>2, <1>3, Zenon DEF Next, Quiet
<1>5. CASE UNCHANGED budget
  BY <1>4, <1>5 DEF Undisturbed
<1>6. ASSUME NEW kind \in {"errors", "crashes"}, Spend(kind)
      PROVE  Undisturbed
  BY <1>0, <1>6, SpendCounts, SMT DEF Undisturbed
<1> QED
  BY <1>4, <1>5, <1>6, QuietSpends

-----------------------------------------------------------------------------
(* What a quiet step does to the spec, the copies and the sets.            *)

\* The part of a cluster that users write.
SpecOf(cl) == <<cl.exists, cl.pools, cl.desired>>

\* Conditions and status are no part of the spec.
LEMMA SpecOfUpdates ==
  /\ \A cl \in ClusterType, st \in Statuses :
       SpecOf([cl EXCEPT !.nodePools = st]) = SpecOf(cl)
  /\ \A cl \in ClusterType, co \in Conditions :
       SpecOf([cl EXCEPT !.cond = co]) = SpecOf(cl)
BY DEF SpecOf, ClusterType

\* UpdateStatus leaves the spec as it is.
LEMMA WithStatusSpec ==
  \A old, new \in ClusterType : SpecOf(WithStatus(old, new)) = SpecOf(old)
<1> SUFFICES ASSUME NEW old \in ClusterType, NEW new \in ClusterType
             PROVE  SpecOf(WithStatus(old, new)) = SpecOf(old)
  OBVIOUS
<1> DEFINE mid == [old EXCEPT !.nodePools = new.nodePools]
<1>1. mid \in ClusterType /\ SpecOf(mid) = SpecOf(old)
  BY ClusterFields, ClusterUpdates, SpecOfUpdates
<1>2. WithStatus(old, new) = [mid EXCEPT !.cond = new.cond]
  BY DEF WithStatus
<1> HIDE DEF mid
<1> QED
  BY <1>1, <1>2, ClusterFields, SpecOfUpdates, SMT

\* syncPausedConditions leaves the spec of the copy as it is.
LEMMA PausedConditionSpec ==
  \A k \in CopyOf(ClusterType) : SpecOf(WithPausedCondition(k).val) = SpecOf(k.val)
<1>1. \A cl \in ClusterType : PausedCondition(cl) \in Conditions
  BY DEF PausedCondition, Conditions, ClusterType
<1> SUFFICES ASSUME NEW k \in CopyOf(ClusterType)
             PROVE  SpecOf(WithPausedCondition(k).val) = SpecOf(k.val)
  OBVIOUS
<1> DEFINE v == [k.val EXCEPT !.cond = PausedCondition(k.val)]
<1>2. v \in ClusterType /\ SpecOf(v) = SpecOf(k.val)
  BY <1>1, Copies, ClusterUpdates, SpecOfUpdates
<1>3. WithPausedCondition(k) = [k EXCEPT !.val = v]
  BY DEF WithPausedCondition
<1> HIDE DEF v
<1> QED
  BY <1>2, <1>3, Copies, SMT

\* A quiet step writes no spec; copies of it are taken of what there is.
QuietSpec ==
  /\ SpecOf(cluster') = SpecOf(cluster) /\ peak' = peak
  /\ SpecOf(cCluster'.val) \in {SpecOf(cCluster.val), SpecOf(cluster)}
  /\ pc' # "idle" => \/ pc # "idle" /\ SpecOf(c'.val) = SpecOf(c.val)
                     \/ SpecOf(c'.val) = SpecOf(cCluster.val)

\* What each quiet step does to the spec and its copies.
LEMMA QuietSpecStep == ASSUME TypeOK, Quiet PROVE QuietSpec
<1> USE DEF apiVars, cacheVars, syncVars
<1>0. /\ cluster \in ClusterType /\ cCluster \in CopyOf(ClusterType)
      /\ c \in CopyOf(ClusterType) /\ c.val \in ClusterType
  BY Copies, Zenon DEF TypeOK
<1>1. ASSUME UNCHANGED <<cluster, peak, cCluster, c>>, pc = "idle" => pc' = "idle"
      PROVE  QuietSpec
  BY <1>1, Zenon DEF QuietSpec
<1>2. CASE BeginSync
  <2>1. UNCHANGED <<cluster, peak, cCluster>>
    BY <1>2 DEF BeginSync
  <2>2. pc' # "idle" => SpecOf(c'.val) = SpecOf(cCluster.val)
    BY <1>2, <1>0, PausedConditionSpec DEF BeginSync
  <2> QED
    BY <2>1, <2>2, Zenon DEF QuietSpec
<1>3. ASSUME NEW r \in Resources, EnsureResource(r) PROVE QuietSpec
  <2>1. r # "idle"
    BY DEF Resources
  <2>2. UNCHANGED <<cluster, peak, cCluster, c>>
    BY <1>3, Zenon DEF EnsureResource, Goto, Fail
  <2> QED
    BY <1>1, <1>3, <2>1, <2>2, Zenon DEF EnsureResource
<1>4. CASE UpdateNodePoolStatus
  <2> DEFINE v == [c.val EXCEPT !.nodePools = Status]
  <2>1. Status \in Statuses
    BY Copies, SetFields, ZenonT(60) DEF TypeOK, Statuses, Status
  <2>2. v \in ClusterType /\ SpecOf(v) = SpecOf(c.val)
    BY <1>0, <2>1, ClusterUpdates, SpecOfUpdates
  <2>3. c' = [c EXCEPT !.val = v]
    BY <1>4 DEF UpdateNodePoolStatus, Status
  <2> HIDE DEF v
  <2>4. SpecOf(c'.val) = SpecOf(c.val)
    BY <1>0, <2>2, <2>3, Copies, SMT
  <2>5. UNCHANGED <<cluster, peak, cCluster>> /\ pc # "idle"
    BY <1>4 DEF UpdateNodePoolStatus
  <2> QED
    BY <2>4, <2>5, Zenon DEF QuietSpec
<1>5. CASE ListSeedNodes
  BY <1>1, <1>5 DEF ListSeedNodes
<1>6. ASSUME NEW p \in Pools, LabelSeedNode(p) PROVE QuietSpec
  BY <1>1, <1>6 DEF LabelSeedNode, SeedDone, Fail
<1>7. CASE NextAction
  <2>1. UNCHANGED <<cluster, peak, cCluster, c>>
    BY <1>7, Zenon DEF NextAction, CreateNodePool, ScaleOut, Goto, Fail
  <2> QED
    BY <1>1, <1>7, <2>1 DEF NextAction
<1>8. CASE UpdateStatus
  <2>1. pc' = "idle" /\ peak' = peak
    BY <1>8, Zenon DEF UpdateStatus, EndSync
  <2>2. \/ cluster' = cluster /\ cCluster' = cCluster
        \/ WriteCluster(WithStatus(cluster, c.val))
    BY <1>8, Zenon DEF UpdateStatus
  <2>3. SpecOf(cluster') = SpecOf(cluster)
    BY <1>0, <2>2, WithStatusSpec, Zenon DEF WriteCluster
  <2>4. cCluster'.val = cCluster.val
    BY <1>0, <2>2, Copies DEF WriteCluster
  <2> QED
    BY <2>1, <2>3, <2>4, Zenon DEF QuietSpec
<1>9. CASE ObserveCluster
  <2>1. cCluster'.val = cluster
    BY <1>9, <1>0, Copies DEF ObserveCluster
  <2>2. UNCHANGED <<cluster, peak, c, pc>>
    BY <1>9 DEF ObserveCluster
  <2> QED
    BY <2>1, <2>2, Zenon DEF QuietSpec
<1>10. ASSUME NEW p \in Pools, ObserveSet(p) \/ ObservePod(p) PROVE QuietSpec
  BY <1>1, <1>10 DEF ObserveSet, ObservePod
<1>11. CASE ObserveObjs \/ CollectObjs
  BY <1>1, <1>11 DEF ObserveObjs, CollectObjs
<1>12. ASSUME NEW p \in Pools, StartPod(p) \/ PodReady(p) \/ CollectSet(p)
       PROVE  QuietSpec
  BY <1>1, <1>12 DEF StartPod, PodReady, CollectSet
<1>13. CASE Restart
  <2>1. cCluster'.val = cluster
    BY <1>13, <1>0, Copies DEF Restart
  <2>2. UNCHANGED <<cluster, peak>> /\ pc' = "idle"
    BY <1>13 DEF Restart
  <2> QED
    BY <2>1, <2>2, Zenon DEF QuietSpec
<1>14. CASE UNCHANGED vars
  BY <1>1, <1>14 DEF vars
<1> QED
  BY <1>2, <1>3, <1>4, <1>5, <1>6, <1>7, <1>8, <1>9, <1>10, <1>11, <1>12,
     <1>13, <1>14
  DEF Quiet, Sync, Informers, Kubernetes, SyncNodesService, SyncSeedsService,
      SyncServiceAccount, SyncRole, SyncRoleBinding, Resources

\* The pool that ScaleOut is asked to grow: the first one that is short in the
\* status of the copy, when every pool has a status.
Chosen(p) ==
  /\ pc = "action" /\ MissingPools(c.val) = {} /\ IsFirst(p, ShortPools(c.val))
  /\ cSets[p].current /\ cSets[p].val.owner # "none"
  /\ ~ScaleOutBlocked(cSets[p].val, p)

\* A quiet step changes at most one set: it creates an empty one, grows one by
\* a node, or one of its nodes becomes ready.
Created(p) ==
  /\ pc = "action" /\ p \in c.val.pools
  /\ sets' = [sets EXCEPT ![p] = StatefulSetForCluster]
Scaled(p) ==
  /\ Chosen(p)
  /\ sets' = [sets EXCEPT ![p] = [cSets[p].val EXCEPT !.replicas = @ + 1]]
Readied(p) ==
  /\ Owned(p) /\ sets[p].ready < sets[p].replicas
  /\ sets' = [sets EXCEPT ![p] = [sets[p] EXCEPT !.ready = @ + 1]]

\* What each quiet step does to the sets of a cluster that exists.
LEMMA QuietSets ==
  ASSUME TypeOK, Quiet, cluster.exists
  PROVE  \/ sets' = sets
         \/ \E p \in Pools : /\ sets[p].owner = "none" /\ Created(p)
         \/ \E p \in Pools : Scaled(p) \/ Readied(p)
<1> USE DEF apiVars, cacheVars, syncVars
<1>1. ASSUME NEW r \in Resources, EnsureResource(r) PROVE sets' = sets
  BY <1>1 DEF EnsureResource
<1>2. ASSUME \/ BeginSync \/ UpdateNodePoolStatus \/ ListSeedNodes
             \/ UpdateStatus
      PROVE  sets' = sets
  BY <1>2, Zenon DEF BeginSync, UpdateNodePoolStatus, ListSeedNodes, UpdateStatus
<1>3. ASSUME NEW p \in Pools, LabelSeedNode(p) PROVE sets' = sets
  BY <1>3 DEF LabelSeedNode
<1>4. ASSUME NextAction, sets' # sets
      PROVE  \/ \E p \in Pools : sets[p].owner = "none" /\ Created(p)
             \/ \E p \in Pools : Scaled(p)
  <2>1. ASSUME NEW p \in Pools, IsFirst(p, MissingPools(c.val)),
               CreateNodePool(p)
        PROVE  sets[p].owner = "none" /\ Created(p)
    <3>1. sets[p].owner = "none" /\ WriteSet(p, StatefulSetForCluster)
      BY <1>4, <2>1 DEF CreateNodePool
    <3>2. p \in c.val.pools
      BY <2>1 DEF IsFirst, MissingPools
    <3> QED
      BY <1>4, <3>1, <3>2 DEF Created, WriteSet, NextAction
  <2>2. ASSUME NEW p \in Pools, MissingPools(c.val) = {},
               IsFirst(p, ShortPools(c.val)), ScaleOut(p)
        PROVE  Scaled(p)
    <3>1. /\ cSets[p].val.owner # "none" /\ cSets[p].current
          /\ ~ScaleOutBlocked(cSets[p].val, p)
          /\ WriteSet(p, [cSets[p].val EXCEPT !.replicas = @ + 1])
      BY <1>4, <2>2 DEF ScaleOut
    <3> QED
      BY <1>4, <2>2, <3>1 DEF Scaled, Chosen, WriteSet, NextAction
  <2> QED
    BY <1>4, <2>1, <2>2, Zenon DEF NextAction
<1>5. ASSUME Informers \/ Restart \/ CollectObjs PROVE sets' = sets
  BY <1>5, Zenon DEF Informers, ObserveCluster, ObserveSet, ObservePod, ObserveObjs,
              Restart, CollectObjs
<1>6. ASSUME NEW p \in Pools, StartPod(p) PROVE sets' = sets
  BY <1>6 DEF StartPod
<1>7. ASSUME NEW p \in Pools, PodReady(p) PROVE Readied(p)
  <2>1. sets[p].ready \in Nat /\ sets[p].replicas \in Nat
    BY SetFields, Zenon DEF TypeOK
  <2>2. sets[p].ready < sets[p].replicas
    BY <1>7, <2>1, SMT DEF PodReady
  <2> QED
    BY <1>7, <2>2 DEF PodReady, Readied, Owned, WriteSet
<1>8. ASSUME NEW p \in Pools, CollectSet(p) PROVE FALSE
  BY <1>8 DEF CollectSet
<1>9. CASE UNCHANGED vars
  BY <1>9 DEF vars
<1> QED
  BY <1>1, <1>2, <1>3, <1>4, <1>5, <1>6, <1>7, <1>8, <1>9
  DEF Quiet, Sync, Kubernetes, SyncNodesService, SyncSeedsService,
      SyncServiceAccount, SyncRole, SyncRoleBinding, Resources

-----------------------------------------------------------------------------
(* Bringing a cluster up, conjunct by conjunct.                            *)

\* The spec stays settled as long as steps are quiet.
LEMMA SettledStep == ASSUME Settled, QuietSpec PROVE Settled'
<1>1. /\ cluster'.exists = cluster.exists /\ cluster'.pools = cluster.pools
      /\ cluster'.desired = cluster.desired /\ peak' = peak
  BY DEF QuietSpec, SpecOf
<1>2. /\ cCluster'.val.pools \in {cCluster.val.pools, cluster.pools}
      /\ cCluster'.val.desired \in {cCluster.val.desired, cluster.desired}
  BY DEF QuietSpec, SpecOf
<1>3. pc' # "idle" =>
        \/ /\ pc # "idle" /\ c'.val.pools = c.val.pools
           /\ c'.val.desired = c.val.desired
        \/ /\ c'.val.pools = cCluster.val.pools
           /\ c'.val.desired = cCluster.val.desired
  BY DEF QuietSpec, SpecOf
<1> QED
  BY <1>1, <1>2, <1>3, Zenon DEF Settled

\* The numbers that the invariant compares.
LEMMA Numbers ==
  ASSUME TypeOK, NEW q \in Pools
  PROVE  /\ sets[q] \in SetType /\ cSets[q] \in CopyOf(SetType)
         /\ cSets[q].val \in SetType
         /\ sets[q].ready \in Nat /\ sets[q].replicas \in Nat
         /\ cSets[q].val.ready \in Nat /\ cSets[q].val.replicas \in Nat
         /\ cluster.desired[q] \in Nat /\ q \in Nat
         /\ cluster.nodePools[q] \in {Absent} \cup Nat
         /\ cCluster.val.nodePools[q] \in {Absent} \cup Nat
         /\ c.val.nodePools[q] \in {Absent} \cup Nat
<1>1. /\ sets[q] \in SetType /\ cSets[q] \in CopyOf(SetType)
      /\ cSets[q].val \in SetType
  BY Copies DEF TypeOK
<1>2. /\ sets[q].ready \in Nat /\ sets[q].replicas \in Nat
      /\ cSets[q].val.ready \in Nat /\ cSets[q].val.replicas \in Nat
  BY <1>1, SetFields, Zenon
<1>3. /\ cluster \in ClusterType /\ cCluster.val \in ClusterType
      /\ c.val \in ClusterType
  BY Copies, Zenon DEF TypeOK
<1>4. cluster.desired[q] \in Nat
  BY <1>3, ClusterFields, SMT DEF Requests
<1>5. /\ cluster.nodePools[q] \in {Absent} \cup Nat
      /\ cCluster.val.nodePools[q] \in {Absent} \cup Nat
      /\ c.val.nodePools[q] \in {Absent} \cup Nat
  BY <1>3, ClusterFields DEF Statuses
<1>6. q \in Nat
  BY SMT DEF Pools
<1> QED
  BY <1>1, <1>2, <1>4, <1>5, <1>6

\* What NextAction relies on when it picks a pool to grow: its cached set is
\* the set, nothing is joining anywhere, every pool before it is complete and
\* no pool after it has a node.
LEMMA ChosenSafe ==
  ASSUME TypeOK, Fresh, BringUp, NEW p \in Pools, Chosen(p)
  PROVE  /\ Owned(p) /\ p \in cluster.pools /\ cSets[p].val = sets[p]
         /\ sets[p].ready = sets[p].replicas
         /\ sets[p].replicas < cluster.desired[p]
         /\ \A q \in cluster.pools : q < p =>
              Owned(q) /\ sets[q].ready >= cluster.desired[q]
         /\ \A q \in cluster.pools : p < q =>
              ~(Owned(q) /\ sets[q].replicas > 0)
         /\ Joining = {}
<1>0. cluster.pools \subseteq Pools
  BY ClusterFields DEF TypeOK
<1>1. c.val.pools = cluster.pools /\ c.val.desired = cluster.desired
  BY DEF BringUp, Settled, Chosen
<1>2. p \in cluster.pools /\ c.val.nodePools[p] # Absent
  BY <1>1 DEF Chosen, IsFirst, ShortPools, MissingPools
<1>3. Owned(p) /\ cSets[p].val = sets[p]
  BY <1>2 DEF BringUp, Observed, Reported, Chosen, Fresh
<1>4. sets[p].ready = sets[p].replicas /\ sets[p].replicas < cluster.desired[p]
  BY <1>1, <1>3, Numbers, SMT DEF Chosen, ScaleOutBlocked
<1>5. ASSUME NEW q \in cluster.pools, q < p
      PROVE  Owned(q) /\ sets[q].ready >= cluster.desired[q]
  <2>1. q \notin ShortPools(c.val) /\ c.val.nodePools[q] # Absent
    BY <1>0, <1>1, <1>5, Numbers, SMT DEF Chosen, IsFirst, MissingPools
  <2>2. cluster.desired[q] <= c.val.nodePools[q]
    BY <1>0, <1>1, <2>1, Numbers, SMT DEF ShortPools
  <2>3. Owned(q) /\ c.val.nodePools[q] <= sets[q].ready
    BY <1>0, <2>1 DEF BringUp, Observed, Reported
  <2> QED
    BY <1>0, <2>1, <2>2, <2>3, Numbers, SMT
<1>6. ASSUME NEW q \in cluster.pools, p < q, Owned(q), sets[q].replicas > 0
      PROVE  FALSE
  <2>1. sets[p].ready >= cluster.desired[p]
    BY <1>2, <1>6 DEF BringUp, InOrder
  <2> QED
    BY <1>4, <2>1, Numbers, SMT
<1>7. ASSUME NEW q \in Joining PROVE FALSE
  <2>1. /\ q \in Pools /\ Owned(q) /\ sets[q].ready < sets[q].replicas
        /\ q \in cluster.pools /\ sets[q].replicas <= cluster.desired[q]
    BY <1>7 DEF Joining, BringUp, Placed
  <2>2. CASE q = p
    BY <1>4, <2>1, <2>2, Numbers, SMT
  <2>3. CASE q < p
    BY <1>5, <2>1, <2>3, Numbers, SMT
  <2>4. CASE p < q
    BY <1>6, <2>1, <2>4, Numbers, SMT
  <2> QED
    BY <2>1, <2>2, <2>3, <2>4, Numbers, SMT
<1> QED
  BY <1>2, <1>3, <1>4, <1>5, <1>6, <1>7

\* What a quiet step makes of the sets: q is the pool it changed, if any.
Kept(q) == sets'[q] = sets[q]
Empty(q) == sets[q].owner = "none" /\ Owned(q)' /\ sets'[q].replicas = 0
Grew(q) == /\ Chosen(q) /\ Owned(q)' /\ sets'[q].ready = sets[q].ready
           /\ sets'[q].replicas = sets[q].replicas + 1
Joined(q) == /\ Owned(q) /\ Owned(q)' /\ sets[q].ready < sets[q].replicas
             /\ sets'[q].ready = sets[q].ready + 1
             /\ sets'[q].replicas = sets[q].replicas

\* The same, in terms of owners, replicas and ready nodes.
LEMMA QuietPools ==
  ASSUME TypeOK, Fresh, BringUp, Quiet
  PROVE  \/ \A q \in Pools : Kept(q)
         \/ \E p \in cluster.pools : /\ Empty(p) \/ Grew(p) \/ Joined(p)
                                     /\ \A q \in Pools \ {p} : Kept(q)
<1>0. cluster.exists /\ cluster.pools \subseteq Pools
  BY ClusterFields DEF TypeOK, BringUp, Settled
<1>1. CASE sets' = sets
  BY <1>1 DEF Kept
<1>2. ASSUME NEW p \in Pools, sets[p].owner = "none", Created(p)
      PROVE  /\ p \in cluster.pools /\ Empty(p)
             /\ \A q \in Pools \ {p} : Kept(q)
  <2>1. p \in cluster.pools
    BY <1>2 DEF Created, BringUp, Settled
  <2>2. sets'[p] = StatefulSetForCluster /\ \A q \in Pools \ {p} : Kept(q)
    BY <1>2 DEF Created, TypeOK, Kept
  <2> QED
    BY <1>2, <2>1, <2>2, SetFields DEF Empty, Owned
<1>3. ASSUME NEW p \in Pools, Scaled(p)
      PROVE  /\ p \in cluster.pools /\ Grew(p)
             /\ \A q \in Pools \ {p} : Kept(q)
  <2>1. Chosen(p)
    BY <1>3 DEF Scaled
  <2>2. p \in cluster.pools /\ Owned(p) /\ cSets[p].val = sets[p]
    BY <2>1, ChosenSafe
  <2>3. /\ sets'[p] = [sets[p] EXCEPT !.replicas = @ + 1]
        /\ \A q \in Pools \ {p} : Kept(q)
    BY <1>3, <2>2 DEF Scaled, TypeOK, Kept
  <2>4. sets'[p].ready = sets[p].ready
    BY <2>3, Numbers DEF SetType
  <2> QED
    BY <2>1, <2>2, <2>3, <2>4, SetFields, Numbers, SMT DEF Grew, Owned
<1>4. ASSUME NEW p \in Pools, Readied(p)
      PROVE  /\ p \in cluster.pools /\ Joined(p)
             /\ \A q \in Pools \ {p} : Kept(q)
  <2>1. p \in cluster.pools
    BY <1>4 DEF Readied, BringUp, Placed
  <2>2. /\ sets'[p] = [sets[p] EXCEPT !.ready = @ + 1]
        /\ \A q \in Pools \ {p} : Kept(q)
    BY <1>4 DEF Readied, TypeOK, Kept
  <2>3. /\ sets'[p].ready = sets[p].ready + 1
        /\ sets'[p].replicas = sets[p].replicas
        /\ sets'[p].owner = sets[p].owner
    BY <2>2, Numbers DEF SetType
  <2> QED
    BY <1>4, <2>1, <2>2, <2>3 DEF Joined, Owned, Readied
<1> QED
  BY <1>0, <1>1, <1>2, <1>3, <1>4, QuietSets

\* No quiet step takes a set or a ready node away.
LEMMA QuietGrows ==
  ASSUME TypeOK, Fresh, BringUp, Quiet, NEW q \in Pools, Owned(q)
  PROVE  Owned(q)' /\ sets[q].ready <= sets'[q].ready
<1>1. CASE Kept(q)
  BY <1>1, Numbers, SMT DEF Kept, Owned
<1>2. CASE Empty(q)
  BY <1>2 DEF Empty, Owned
<1>3. CASE Grew(q) \/ Joined(q)
  BY <1>3, Numbers, SMT DEF Grew, Joined
<1> QED
  BY <1>1, <1>2, <1>3, QuietPools

\* What was reported stays true, and what is copied has been reported.
LEMMA ObservedStep ==
  ASSUME TypeOK, TypeOK', Fresh, BringUp, Quiet,
         ClusterChange, CachedChange, CopyChange, \A q \in Pools : SetChange(q)
  PROVE  Observed'
<1>a. \A q \in Pools : sets[q].ready \in Nat /\ sets'[q].ready \in Nat
  BY SetFields, Zenon DEF TypeOK
<1>1. ASSUME NEW q \in Pools, cSets'[q].val.owner = "this"
      PROVE  Owned(q)' /\ cSets'[q].val.ready <= sets'[q].ready
  <2>1. cSets'[q].val \in {cSets[q].val, sets[q]}
    BY Copies, Numbers, SMT DEF SetChange, SetKept, SetWritten
  <2>2. Owned(q) /\ cSets'[q].val.ready <= sets[q].ready
    BY <1>a, <1>1, <2>1, SMT DEF BringUp, Observed, Owned
  <2>3. cSets'[q].val.ready \in Nat
    BY <2>1, Numbers
  <2> QED
    BY <1>a, <2>2, <2>3, QuietGrows, SMT
<1>2. ASSUME NEW st \in Statuses, Reported(st) PROVE Reported(st)'
  <2> SUFFICES ASSUME NEW q \in Pools, st[q] # Absent
               PROVE  Owned(q)' /\ st[q] <= sets'[q].ready
    BY DEF Reported
  <2>1. st[q] \in Nat /\ Owned(q) /\ st[q] <= sets[q].ready
    BY <1>2 DEF Reported, Statuses
  <2> QED
    BY <1>a, <2>1, QuietGrows, SMT
<1>3. Status \in Statuses /\ Reported(Status)
  <2>1. Status \in Statuses
    BY Copies, SetFields, ZenonT(60) DEF TypeOK, Statuses, Status
  <2>2. ASSUME NEW q \in Pools, Status[q] # Absent
        PROVE  Owned(q) /\ Status[q] <= sets[q].ready
    BY <2>2 DEF Status, StatefulSetsForCluster, BringUp, Observed
  <2> QED
    BY <2>1, <2>2 DEF Reported
<1>4. None \in Statuses /\ Reported(None)
  BY DEF None, Statuses, Reported
<1>5. /\ cluster.nodePools \in Statuses /\ Reported(cluster.nodePools)
      /\ cCluster.val.nodePools \in Statuses /\ Reported(cCluster.val.nodePools)
      /\ c.val.nodePools \in Statuses /\ Reported(c.val.nodePools)
  <2>1. /\ cluster \in ClusterType /\ cCluster.val \in ClusterType
        /\ c.val \in ClusterType
    BY Copies, Zenon DEF TypeOK
  <2> QED
    BY <2>1, ClusterFields, Zenon DEF BringUp, Observed
<1> DEFINE Sources == {cluster.nodePools, cCluster.val.nodePools,
                       c.val.nodePools, None, Status}
<1>6. /\ cluster'.nodePools \in Sources /\ cCluster'.val.nodePools \in Sources
      /\ c'.val.nodePools \in Sources
  BY Zenon DEF ClusterChange, CachedChange, CopyChange
<1>7. \A st \in Sources : \A q \in Pools :
        st[q] # Absent => Owned(q)' /\ st[q] <= sets'[q].ready
  BY <1>2, <1>3, <1>4, <1>5, Zenon DEF Reported
<1> HIDE DEF Sources
<1> QED
  BY <1>1, <1>6, <1>7, Zenon DEF Observed, Reported

\* A set lacks one node at most.
LEMMA PlacedStep ==
  ASSUME TypeOK, TypeOK', Fresh, BringUp, Quiet, QuietSpec
  PROVE  Placed'
<1> SUFFICES ASSUME NEW q \in Pools, Owned(q)'
             PROVE  /\ q \in cluster.pools
                    /\ sets'[q].replicas <= cluster.desired[q]
                    /\ sets'[q].replicas <= sets'[q].ready + 1
  BY DEF Placed, QuietSpec, SpecOf
<1>a. sets'[q].ready \in Nat /\ sets'[q].replicas \in Nat
  BY SetFields, Zenon DEF TypeOK
<1>b. cluster.pools \subseteq Pools
  BY ClusterFields DEF TypeOK
<1>1. CASE Kept(q)
  BY <1>1 DEF Kept, Owned, BringUp, Placed
<1>2. CASE q \in cluster.pools /\ Empty(q)
  BY <1>a, <1>2, Numbers, SMT DEF Empty
<1>3. CASE Grew(q)
  <2>1. /\ q \in cluster.pools /\ sets[q].ready = sets[q].replicas
        /\ sets[q].replicas < cluster.desired[q]
    BY <1>3, ChosenSafe DEF Grew
  <2> QED
    BY <1>3, <2>1, Numbers, SMT DEF Grew
<1>4. CASE Joined(q)
  BY <1>4, Numbers, SMT DEF Joined, BringUp, Placed
<1> QED
  BY <1>b, <1>1, <1>2, <1>3, <1>4, QuietPools

\* Pools are filled in order.
LEMMA InOrderStep ==
  ASSUME TypeOK, TypeOK', Fresh, BringUp, Quiet, QuietSpec
  PROVE  InOrder'
<1>0. cluster.pools \subseteq Pools
  BY ClusterFields DEF TypeOK
<1> SUFFICES ASSUME NEW p \in cluster.pools, NEW q \in cluster.pools,
                    p < q, Owned(q)', sets'[q].replicas > 0
             PROVE  Owned(p)' /\ sets'[p].ready >= cluster.desired[p]
  BY DEF InOrder, QuietSpec, SpecOf
<1>a. sets'[q].replicas \in Nat /\ sets'[p].ready \in Nat
  BY <1>0, SetFields, Zenon DEF TypeOK
<1>1. Owned(p) /\ sets[p].ready >= cluster.desired[p]
  <2>1. CASE Grew(q)
    BY <1>0, <2>1, ChosenSafe DEF Grew
  <2>2. CASE Owned(q) /\ sets[q].replicas > 0
    BY <2>2 DEF BringUp, InOrder
  <2>3. CASE Kept(q)
    BY <2>2, <2>3 DEF Kept, Owned
  <2>4. CASE Joined(q)
    BY <2>2, <2>4 DEF Joined
  <2>5. CASE Empty(q)
    BY <1>a, <2>5, SMT DEF Empty
  <2> QED
    BY <1>0, <2>1, <2>3, <2>4, <2>5, QuietPools
<1> QED
  BY <1>0, <1>1, <1>a, QuietGrows, Numbers, SMT

\* No second node starts to join.
LEMMA OneJoiningStep ==
  ASSUME TypeOK, TypeOK', Fresh, BringUp, Quiet
  PROVE  OneJoining'
<1>a. \A q \in Pools : sets'[q].ready \in Nat /\ sets'[q].replicas \in Nat
  BY SetFields, Zenon DEF TypeOK
<1>0. cluster.pools \subseteq Pools
  BY ClusterFields DEF TypeOK
<1>1. ASSUME NEW p \in Pools, \A q \in Pools \ {p} : Kept(q), Grew(p),
             NEW q \in Joining'
      PROVE  q = p
  <2>1. Joining = {}
    BY <1>1, ChosenSafe DEF Grew
  <2>2. q # p => q \in Joining
    BY <1>1 DEF Joining, Kept, Owned
  <2> QED
    BY <2>1, <2>2
<1>2. ASSUME NEW p \in Pools, \A q \in Pools \ {p} : Kept(q),
             Empty(p) \/ Joined(p), NEW q \in Joining'
      PROVE  q \in Joining
  <2>1. q # p => q \in Joining
    BY <1>2 DEF Joining, Kept, Owned
  <2>2. ~(q = p /\ Empty(p))
    BY <1>a, <1>2, SMT DEF Empty, Joining
  <2>3. Joined(p) => p \in Joining
    BY DEF Joined, Joining
  <2> QED
    BY <1>2, <2>1, <2>2, <2>3
<1>3. (\A q \in Pools : Kept(q)) => Joining' = Joining
  BY DEF Joining, Kept, Owned
<1> SUFFICES ASSUME NEW q \in Joining', NEW r \in Joining' PROVE q = r
  BY DEF OneJoining
<1>4. CASE q \in Joining /\ r \in Joining
  BY <1>4 DEF BringUp, OneJoining
<1> QED
  BY <1>0, <1>1, <1>2, <1>3, <1>4, QuietPools

\* A cluster that has just been created, or is complete, is in order.
LEMMA InitBringUp == Init => BringUp
<1> SUFFICES ASSUME Init PROVE BringUp
  OBVIOUS
<1>t. TypeOK
  BY InitTypes
<1>s. PICK s \in Scenarios : /\ cluster = InitialCluster(s)
                             /\ sets = [p \in Pools |-> InitialSet(s, p)]
  BY DEF Init
<1> DEFINE full == s.established
<1>a. /\ s.pools \subseteq Pools /\ s.desired \in Nat
      /\ full => s.pools \cap s.foreign = {}
  BY ConstantsAssumption, EstablishedAssumption, SMT DEF ScenarioType
<1>1. /\ cluster.exists /\ cluster.pools = s.pools
      /\ \A p \in Pools : cluster.desired[p] = IF p \in s.pools
                                               THEN s.desired ELSE 0
      /\ \A p \in Pools : cluster.nodePools[p] = IF full /\ p \in s.pools
                                                 THEN s.desired ELSE Absent
  BY <1>a, <1>s DEF InitialCluster
<1>2. ASSUME NEW p \in Pools, Owned(p)
      PROVE  /\ full /\ p \in s.pools
             /\ sets[p].replicas = s.desired /\ sets[p].ready = s.desired
  BY <1>2, <1>s DEF InitialSet, NoSet, Owned
<1>3. ASSUME NEW p \in Pools, full, p \in s.pools PROVE Owned(p)
  BY <1>3, <1>a, <1>s DEF InitialSet, Owned
<1>4. /\ cCluster.val = cluster /\ peak = cluster.desired /\ pc = "idle"
      /\ \A p \in Pools : cSets[p].val = sets[p]
      /\ \A p \in Pools : c.val.nodePools[p] = Absent
  <2>1. c.val = NoCluster
    <3>1. c = NoCopy
      BY DEF Init
    <3> QED
      BY <3>1, NoClusterType, Zenon
  <2>2. \A p \in Pools : c.val.nodePools[p] = Absent
    BY <2>1, NoClusterType
  <2>3. cCluster = Copy(cluster) /\ \A p \in Pools : cSets[p] = Copy(sets[p])
    BY DEF Init
  <2> QED
    BY <2>2, <2>3, SMT DEF Init, Copy
<1>5. Settled
  BY <1>1, <1>4, Zenon DEF Settled
<1>6. Observed
  <2>1. \A q \in Pools : cluster.nodePools[q] # Absent =>
          Owned(q) /\ cluster.nodePools[q] <= sets[q].ready
    BY <1>a, <1>1, <1>2, <1>3, SMT
  <2>2. \A q \in Pools : cSets[q].val.owner = "this" =>
          Owned(q) /\ cSets[q].val.ready <= sets[q].ready
    BY <1>t, <1>4, Numbers, SMT DEF Owned
  <2> QED
    BY <1>4, <2>1, <2>2, Zenon DEF Observed, Reported
<1>7. Placed /\ InOrder
  BY <1>a, <1>1, <1>2, <1>3, SMT DEF Placed, InOrder
<1>8. OneJoining
  BY <1>a, <1>2, SMT DEF OneJoining, Joining
<1> QED
  BY <1>5, <1>6, <1>7, <1>8 DEF BringUp

\* The invariant of a cluster that is brought up holds as long as nothing
\* disturbs it.
Series == Undisturbed => BringUp

\* Every step keeps it.
LEMMA StepSeries == Inv /\ Inv' /\ Series /\ [Next]_vars => Series'
<1> SUFFICES ASSUME Inv, Inv', Series, [Next]_vars, Undisturbed'
             PROVE  BringUp'
  BY DEF Series
<1>1. Quiet /\ BringUp
  BY UndisturbedStep DEF Inv, Series
<1>2. TypeOK /\ TypeOK' /\ Fresh
  BY DEF Inv
<1>3. QuietSpec
  BY <1>1, <1>2, QuietSpecStep
<1>4. /\ ClusterChange /\ CachedChange /\ CopyChange
      /\ \A q \in Pools : SetChange(q)
  BY <1>2, ClusterChanges, SetChanges
<1>5. Settled'
  BY <1>1, <1>3, SettledStep DEF BringUp
<1>6. Observed'
  BY <1>1, <1>2, <1>4, ObservedStep
<1>7. Placed' /\ InOrder' /\ OneJoining'
  BY <1>1, <1>2, <1>3, PlacedStep, InOrderStep, OneJoiningStep
<1> QED
  BY <1>5, <1>6, <1>7 DEF BringUp

\* Series is an invariant.
THEOREM SeriesHolds == Spec => []Series
<1>1. Init => Series
  BY InitBringUp DEF Series
<1> QED
  BY <1>1, StepSeries, InvHolds, PTL DEF Spec

\* docs/cassandra.rst has nodes added in series: while a cluster is brought up
\* at most one node is joining, however stale the status, the set and the spec
\* are that NextAction and scaleout.go judge by, and through failing calls and
\* restarts of the controller.
THEOREM NodesJoinInSeries == Spec => []JoinsInSeries
<1>1. TypeOK /\ Series => JoinsInSeries
  <2> SUFFICES ASSUME TypeOK, Undisturbed, BringUp
               PROVE  /\ \A p, q \in Joining : p = q
                      /\ \A p \in Joining : sets[p].replicas = sets[p].ready + 1
    BY DEF Series, JoinsInSeries
  <2>1. \A p, q \in Joining : p = q
    BY DEF BringUp, OneJoining
  <2>2. ASSUME NEW p \in Joining PROVE sets[p].replicas = sets[p].ready + 1
    <3>1. /\ p \in Pools /\ sets[p].ready < sets[p].replicas
          /\ sets[p].replicas <= sets[p].ready + 1
      BY <2>2 DEF Joining, BringUp, Placed
    <3> QED
      BY <3>1, Numbers, SMT
  <2> QED
    BY <2>1, <2>2
<1> QED
  BY <1>1, TypeCorrect, SeriesHolds, PTL

\* docs/cassandra.rst, Create Cluster: a pool gets its first node only when all
\* pools before it in the spec are complete.
THEOREM PoolsFilledInOrder == Spec => []FilledInOrder
<1>1. Series => FilledInOrder
  BY DEF Series, BringUp, InOrder, FilledInOrder
<1> QED
  BY <1>1, SeriesHolds, PTL
=============================================================================

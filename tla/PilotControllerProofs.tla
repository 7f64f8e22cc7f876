------------------------- MODULE PilotControllerProofs -------------------------
(***************************************************************************)
(* The pilot controller for any number of pods, workers, replacements and  *)
(* failures: its workers never share a key, a Pilot never changes hands,   *)
(* and a running pod without a Pilot of its own is never forgotten.        *)
(***************************************************************************)
EXTENDS PilotController, TLAPS

USE PilotControllerAssumption

\* A Pilot of k that the garbage collector is about to remove.
LeftBehind(k) == pilots[k] # NoPilot /\ pilots[k] < pods[k].uid

\* Worker w is going to give the pod k a Pilot.
AtWork(w, k) ==
  key[w] = k /\ (step[w] = "sync" \/ pod[w] = pods[k].uid)

\* A running pod without its Pilot comes round again: its key is queued or
\* about to be, by an event of the pod or of the Pilot, a worker has it, or the
\* Pilot of the pod before it is still to be collected.
Pending(k) ==
  pods[k].phase = "running" /\ pilots[k] # pods[k].uid =>
    \/ cPods[k] # pods[k]
    \/ k \in queue \cup unseen
    \/ \E w \in Workers : AtWork(w, k)
    \/ LeftBehind(k)

NoPodForgotten == \A k \in Keys : Pending(k)

\* The workqueue never gives one key to two workers.
OneWorkerPerKey ==
  \A v, w \in Workers : key[v] = key[w] /\ key[v] # None => v = w

\* A Pilot is owned by a pod that was created under its name.
OwnedByPod == \A k \in Keys : pilots[k] \in NoPilot .. pods[k].uid

\* The cache holds an earlier pod or this one, and a pod that runs was created.
CacheBehind ==
  \A k \in Keys : /\ cPods[k].uid \in 0 .. pods[k].uid
                  /\ pods[k].phase = "running" => pods[k].uid # 0
                  /\ cPods[k].phase = "running" => cPods[k].uid # 0

\* A cache of Pilots that is not up to date has an event to come.
EventToCome == \A k \in Keys : cPilots[k] # pilots[k] => k \in unseen

\* A worker that goes for a Pilot has seen a pod under its key.
PodSeen ==
  \A w \in Workers : step[w] \in {"pilot", "create"} =>
                       pod[w] \in 1 .. pods[key[w]].uid

IInv ==
  /\ TypeOK /\ OneWorkerPerKey /\ OwnedByPod /\ CacheBehind /\ EventToCome
  /\ PodSeen /\ NoPodForgotten

-----------------------------------------------------------------------------
(* What the steps do to one key, and their types.                          *)

\* The uid of a pod only grows, and of a pod under another name nothing is
\* changed.
LEMMA PodSteps ==
  ASSUME TypeOK, NEW k \in Keys, CreatePod(k) \/ DeletePod(k) \/ PodGone(k)
  PROVE  /\ pods' \in [Keys -> PodType]
         /\ \A j \in Keys \ {k} : pods'[j] = pods[j]
         /\ pods'[k].uid \in pods[k].uid .. MaxUid
         /\ pods'[k].phase = "running" => pods'[k].uid = pods[k].uid + 1
         /\ UNCHANGED <<pilots, cacheVars, workVars, errors>>
<1>1. pods[k] \in PodType /\ pods[k].uid \in 0 .. MaxUid
  BY DEF TypeOK, PodType
<1>2. CASE CreatePod(k)
  <2>1. pods' = [pods EXCEPT ![k] = [uid |-> pods[k].uid + 1,
                                     phase |-> "running"]]
    BY <1>2 DEF CreatePod
  <2>2. [uid |-> pods[k].uid + 1, phase |-> "running"] \in PodType
    BY <1>1, <1>2 DEF CreatePod, PodType
  <2> QED
    BY <1>1, <1>2, <2>1, <2>2 DEF CreatePod, TypeOK, PodType
<1>3. ASSUME NEW ph \in {"deleting", "gone"},
             pods' = [pods EXCEPT ![k].phase = ph]
      PROVE  /\ pods' \in [Keys -> PodType]
             /\ \A j \in Keys \ {k} : pods'[j] = pods[j]
             /\ pods'[k].uid = pods[k].uid /\ pods'[k].phase # "running"
  <2>1. pods' = [pods EXCEPT ![k] = [pods[k] EXCEPT !.phase = ph]]
    BY <1>3
  <2>2. /\ [pods[k] EXCEPT !.phase = ph] \in PodType
        /\ [pods[k] EXCEPT !.phase = ph].uid = pods[k].uid
        /\ [pods[k] EXCEPT !.phase = ph].phase = ph
    BY <1>1 DEF PodType
  <2> QED
    BY <2>1, <2>2 DEF TypeOK
<1>4. CASE DeletePod(k) \/ PodGone(k)
  <2>1. PICK ph \in {"deleting", "gone"} :
          pods' = [pods EXCEPT ![k].phase = ph]
    BY <1>4 DEF DeletePod, PodGone
  <2> QED
    BY <1>1, <1>3, <1>4, <2>1 DEF DeletePod, PodGone
<1> QED
  BY <1>2, <1>4

\* What a worker that finishes leaves behind.
LEMMA DoneEffect ==
  ASSUME TypeOK, NEW w \in Workers, Done(w)
  PROVE  /\ step' \in [Workers -> {"idle", "sync", "pilot", "create"}]
         /\ key' \in [Workers -> Keys \cup {None}]
         /\ pod' \in [Workers -> 0 .. MaxUid]
         /\ step'[w] = "idle" /\ key'[w] = None
         /\ \A v \in Workers \ {w} : /\ step'[v] = step[v] /\ key'[v] = key[v]
                                     /\ pod'[v] = pod[v]
BY DEF Done, Goto, TypeOK

\* A worker that is not idle has a key.
LEMMA HasKey ==
  ASSUME TypeOK, NEW w \in Workers, step[w] # "idle"
  PROVE  key[w] \in Keys
BY DEF TypeOK

\* What a step of worker w does to the workers: another worker is not
\* disturbed, and w keeps its key, takes a free one from the queue, or ends.
LEMMA WorkSteps ==
  ASSUME TypeOK, NEW w \in Workers, Work(w)
  PROVE  /\ step' \in [Workers -> {"idle", "sync", "pilot", "create"}]
         /\ key' \in [Workers -> Keys \cup {None}]
         /\ pod' \in [Workers -> 0 .. MaxUid]
         /\ \A v \in Workers \ {w} : /\ step'[v] = step[v] /\ key'[v] = key[v]
                                     /\ pod'[v] = pod[v]
         /\ step'[w] = "idle" <=> key'[w] = None
         /\ \/ key'[w] \in {None, key[w]}
            \/ key'[w] \in queue /\ \A v \in Workers : key[v] # key'[w]
<1>1. CASE Get(w)
  <2>1. PICK k \in queue : /\ \A v \in Workers : key[v] # k
                           /\ key' = [key EXCEPT ![w] = k]
    BY <1>1, Zenon DEF Get
  <2>2. k \in Keys
    BY DEF TypeOK
  <2> QED
    BY <1>1, <2>1, <2>2 DEF Get, Goto, TypeOK
<1>2. CASE LookUpPod(w)
  <2>1. cPods[key[w]].uid \in 0 .. MaxUid /\ key[w] \in Keys
    BY <1>2, HasKey DEF LookUpPod, TypeOK, PodType
  <2>2. CASE cPods[key[w]].phase = "running"
    BY <1>2, <2>1, <2>2 DEF LookUpPod, Goto, TypeOK
  <2>3. CASE cPods[key[w]].phase # "running"
    BY <1>2, <2>3, DoneEffect DEF LookUpPod
  <2> QED
    BY <2>2, <2>3
<1>3. CASE LookUpPilot(w)
  <2>1. key[w] \in Keys
    BY <1>3, HasKey DEF LookUpPilot
  <2>2. CASE cPilots[key[w]] # NoPilot
    BY <1>3, <2>2, DoneEffect DEF LookUpPilot
  <2>3. CASE cPilots[key[w]] = NoPilot
    BY <1>3, <2>1, <2>3 DEF LookUpPilot, Goto, TypeOK
  <2> QED
    BY <2>2, <2>3
<1>4. CASE CreatePilot(w) \/ CreateFails(w)
  BY <1>4, DoneEffect DEF CreatePilot, CreateFails
<1> QED
  BY <1>1, <1>2, <1>3, <1>4 DEF Work

\* Every step keeps the types.
LEMMA StepType == ASSUME TypeOK, [Next]_vars PROVE TypeOK'
<1>1. ASSUME NEW k \in Keys, CreatePod(k) \/ DeletePod(k) \/ PodGone(k)
      PROVE  TypeOK'
  BY <1>1, PodSteps DEF TypeOK, cacheVars, workVars
<1>2. ASSUME NEW k \in Keys, CollectPilot(k) PROVE TypeOK'
  BY <1>2 DEF CollectPilot, TypeOK, workVars, NoPilot
<1>3. ASSUME NEW k \in Keys, ObservePod(k) \/ ObservePilot(k) PROVE TypeOK'
  BY <1>3 DEF ObservePod, ObservePilot, TypeOK, apiVars
<1>4. ASSUME NEW w \in Workers, Work(w) PROVE TypeOK'
  <2>1. \A v \in Workers : step'[v] = "idle" <=> key'[v] = None
    BY <1>4, WorkSteps DEF TypeOK
  <2>2. queue' \subseteq Keys
    BY <1>4, HasKey DEF Work, Get, LookUpPod, LookUpPilot, CreatePilot,
                        CreateFails, TypeOK
  <2>3. errors' \in 0 .. MaxErrors
    BY <1>4 DEF Work, Get, LookUpPod, LookUpPilot, CreatePilot, CreateFails,
                TypeOK
  <2>4. pilots' \in [Keys -> NoPilot .. MaxUid] /\ unseen' \subseteq Keys
    <3>1. CASE CreatePilot(w)
      BY <3>1, HasKey DEF CreatePilot, TypeOK, NoPilot
    <3> QED
      BY <1>4, <3>1 DEF Work, Get, LookUpPod, LookUpPilot, CreateFails,
                        apiVars, cacheVars, TypeOK
  <2>5. UNCHANGED <<pods, cPods, cPilots>>
    BY <1>4 DEF Work, Get, LookUpPod, LookUpPilot, CreatePilot, CreateFails,
                apiVars, cacheVars
  <2> QED
    BY <1>4, <2>1, <2>2, <2>3, <2>4, <2>5, WorkSteps DEF TypeOK
<1>5. CASE UNCHANGED vars
  BY <1>5 DEF vars, apiVars, cacheVars, workVars, TypeOK
<1> QED
  BY <1>1, <1>2, <1>3, <1>4, <1>5 DEF Next

-----------------------------------------------------------------------------
(* The conjuncts of the invariant.                                         *)

\* Steps that are not a worker's leave the workers alone.
LEMMA OthersLeaveWorkers ==
  ASSUME TypeOK, NEW k \in Keys,
         \/ CreatePod(k) \/ DeletePod(k) \/ PodGone(k)
         \/ CollectPilot(k) \/ ObservePod(k) \/ ObservePilot(k)
  PROVE  UNCHANGED <<step, key, pod>> /\ queue \subseteq queue'
<1>1. CASE CreatePod(k) \/ DeletePod(k) \/ PodGone(k)
  BY <1>1, PodSteps DEF workVars
<1>2. CASE CollectPilot(k)
  BY <1>2 DEF CollectPilot, workVars
<1>3. CASE ObservePod(k) \/ ObservePilot(k)
  BY <1>3 DEF ObservePod, ObservePilot
<1> QED
  BY <1>1, <1>2, <1>3

\* A key that a worker has is not given to another one.
LEMMA StepExclusive ==
  ASSUME TypeOK, OneWorkerPerKey, [Next]_vars
  PROVE  OneWorkerPerKey'
<1>1. ASSUME NEW w \in Workers, Work(w) PROVE OneWorkerPerKey'
  <2> SUFFICES ASSUME NEW u \in Workers, NEW v \in Workers,
                      key'[u] = key'[v], key'[u] # None
               PROVE  u = v
    BY DEF OneWorkerPerKey
  <2> QED
    BY <1>1, WorkSteps DEF OneWorkerPerKey
<1>2. ASSUME NEW k \in Keys,
             \/ CreatePod(k) \/ DeletePod(k) \/ PodGone(k)
             \/ CollectPilot(k) \/ ObservePod(k) \/ ObservePilot(k)
      PROVE  OneWorkerPerKey'
  BY <1>2, OthersLeaveWorkers DEF OneWorkerPerKey
<1>3. CASE UNCHANGED vars
  BY <1>3, SMT, Z3, Zenon DEF vars, workVars, OneWorkerPerKey
<1> QED
  BY <1>1, <1>2, <1>3 DEF Next

\* What a worker's step does to the API server and the caches: nothing, but
\* for the Pilot that createPilot adds.
LEMMA WorkWrites ==
  ASSUME TypeOK, NEW w \in Workers, Work(w)
  PROVE  /\ UNCHANGED <<pods, cPods, cPilots>>
         /\ \/ UNCHANGED <<pilots, unseen>>
            \/ /\ step[w] = "create" /\ pilots[key[w]] = NoPilot
               /\ pilots' = [pilots EXCEPT ![key[w]] = pod[w]]
               /\ unseen' = unseen \cup {key[w]}
BY DEF Work, Get, LookUpPod, LookUpPilot, CreatePilot, CreateFails, apiVars,
       cacheVars

\* Pilots are owned by pods that were created, and caches lag behind.
LEMMA StepOwners ==
  ASSUME TypeOK, OwnedByPod, CacheBehind, EventToCome, PodSeen, [Next]_vars
  PROVE  OwnedByPod' /\ CacheBehind' /\ EventToCome' /\ PodSeen'
<1> USE DEF NoPilot
<1>a. \A j \in Keys : /\ pods[j] \in PodType /\ cPods[j] \in PodType
                      /\ pods[j].uid \in 0 .. MaxUid
                      /\ cPods[j].uid \in 0 .. MaxUid
                      /\ pilots[j] \in 0 .. MaxUid
  BY DEF TypeOK, PodType
<1>b. \A v \in Workers : step[v] # "idle" => key[v] \in Keys
  BY HasKey
<1>1. ASSUME NEW k \in Keys, CreatePod(k) \/ DeletePod(k) \/ PodGone(k)
      PROVE  OwnedByPod' /\ CacheBehind' /\ EventToCome' /\ PodSeen'
  <2>1. \A j \in Keys : pods'[j].uid \in pods[j].uid .. MaxUid
    BY <1>1, <1>a, PodSteps
  <2>2. \A j \in Keys : pods'[j].phase = "running" => pods'[j].uid # 0
    BY <1>1, <1>a, PodSteps DEF CacheBehind
  <2>3. UNCHANGED <<pilots, cPods, cPilots, unseen, step, key, pod>>
    BY <1>1, PodSteps DEF cacheVars, workVars
  <2>4. OwnedByPod' /\ CacheBehind'
    BY <1>a, <2>1, <2>2, <2>3 DEF OwnedByPod, CacheBehind
  <2>5. EventToCome'
    BY <2>3 DEF EventToCome
  <2>6. PodSeen'
    BY <1>a, <1>b, <2>1, <2>3 DEF PodSeen
  <2> QED
    BY <2>4, <2>5, <2>6
<1>2. ASSUME NEW k \in Keys, CollectPilot(k)
      PROVE  OwnedByPod' /\ CacheBehind' /\ EventToCome' /\ PodSeen'
  <2>1. \A j \in Keys : pilots'[j] = IF j = k THEN 0 ELSE pilots[j]
    BY <1>2 DEF CollectPilot, TypeOK
  <2>2. /\ UNCHANGED <<pods, cPods, cPilots, step, key, pod>>
        /\ unseen' = unseen \cup {k}
    BY <1>2 DEF CollectPilot, workVars
  <2> QED
    BY <1>a, <2>1, <2>2 DEF OwnedByPod, CacheBehind, EventToCome, PodSeen
<1>3. ASSUME NEW k \in Keys, ObservePod(k)
      PROVE  OwnedByPod' /\ CacheBehind' /\ EventToCome' /\ PodSeen'
  <2>1. \A j \in Keys : cPods'[j] = IF j = k THEN pods[j] ELSE cPods[j]
    BY <1>3 DEF ObservePod, TypeOK
  <2>2. UNCHANGED <<pods, pilots, cPilots, unseen, step, key, pod>>
    BY <1>3 DEF ObservePod, apiVars
  <2> QED
    BY <1>a, <2>1, <2>2 DEF OwnedByPod, CacheBehind, EventToCome, PodSeen
<1>4. ASSUME NEW k \in Keys, ObservePilot(k)
      PROVE  OwnedByPod' /\ CacheBehind' /\ EventToCome' /\ PodSeen'
  <2>1. \A j \in Keys : cPilots'[j] = IF j = k THEN pilots[j] ELSE cPilots[j]
    BY <1>4 DEF ObservePilot, TypeOK
  <2>2. /\ UNCHANGED <<pods, pilots, cPods, step, key, pod>>
        /\ unseen' = unseen \ {k}
    BY <1>4 DEF ObservePilot, apiVars
  <2> QED
    BY <2>1, <2>2 DEF OwnedByPod, CacheBehind, EventToCome, PodSeen
<1>5. ASSUME NEW w \in Workers, Work(w)
      PROVE  OwnedByPod' /\ CacheBehind' /\ EventToCome' /\ PodSeen'
  <2>1. UNCHANGED <<pods, cPods, cPilots>>
    BY <1>5, WorkWrites
  <2>2. OwnedByPod' /\ EventToCome'
    <3>1. CASE UNCHANGED <<pilots, unseen>>
      BY <2>1, <3>1 DEF OwnedByPod, EventToCome
    <3>2. CASE /\ step[w] = "create"
               /\ pilots' = [pilots EXCEPT ![key[w]] = pod[w]]
               /\ unseen' = unseen \cup {key[w]}
      <4>1. pod[w] \in 1 .. pods[key[w]].uid /\ key[w] \in Keys
        BY <3>2, <1>b DEF PodSeen
      <4>2. \A j \in Keys :
              pilots'[j] = IF j = key[w] THEN pod[w] ELSE pilots[j]
        BY <3>2 DEF TypeOK
      <4> QED
        BY <1>a, <2>1, <3>2, <4>1, <4>2 DEF OwnedByPod, EventToCome
    <3> QED
      BY <1>5, <3>1, <3>2, WorkWrites
  <2>3. PodSeen'
    <3> SUFFICES ASSUME NEW v \in Workers, step'[v] \in {"pilot", "create"}
                 PROVE  pod'[v] \in 1 .. pods[key'[v]].uid
      BY <2>1 DEF PodSeen
    <3>1. CASE v # w
      BY <1>5, <3>1, WorkSteps DEF PodSeen
    <3>2. CASE v = w /\ LookUpPod(w)
      <4>1. cPods[key[w]].phase = "running"
        BY <3>2, DoneEffect DEF LookUpPod
      <4>2. key[w] \in Keys
        BY <3>2, <1>b DEF LookUpPod
      <4>3. key'[w] = key[w] /\ pod'[w] = cPods[key[w]].uid
        BY <3>2, <4>1 DEF LookUpPod, TypeOK
      <4> QED
        BY <3>2, <4>1, <4>2, <4>3, <1>a DEF CacheBehind
    <3>3. CASE v = w /\ ~LookUpPod(w)
      <4>1. LookUpPilot(w) /\ UNCHANGED <<key, pod>>
        BY <1>5, <3>3, DoneEffect
           DEF Work, Get, Goto, LookUpPilot, CreatePilot, CreateFails, TypeOK
      <4> QED
        BY <3>3, <4>1, SMT, Z3, Zenon DEF LookUpPilot, PodSeen
    <3> QED
      BY <3>1, <3>2, <3>3
  <2>4. CacheBehind'
    BY <2>1, SMT, Z3, Zenon DEF CacheBehind
  <2> QED
    BY <2>2, <2>3, <2>4
<1>6. CASE UNCHANGED vars
  BY <1>6 DEF vars, apiVars, cacheVars, workVars, OwnedByPod, CacheBehind,
              EventToCome, PodSeen
<1> QED
  BY <1>1, <1>2, <1>3, <1>4, <1>5, <1>6 DEF Next

\* No step loses a pod that still needs its Pilot: what ends one reason to
\* come back to it begins another.
LEMMA StepPending ==
  ASSUME TypeOK, OwnedByPod, CacheBehind, EventToCome, PodSeen,
         NoPodForgotten, [Next]_vars
  PROVE  NoPodForgotten'
<1> USE DEF NoPilot
<1> SUFFICES ASSUME NEW j \in Keys PROVE Pending(j)'
  BY DEF NoPodForgotten
<1>a. /\ Pending(j)
      /\ pods[j] \in PodType /\ pods[j].uid \in 0 .. MaxUid
      /\ pilots[j] \in 0 .. pods[j].uid
      /\ cPods[j].uid \in 0 .. pods[j].uid
  BY DEF NoPodForgotten, OwnedByPod, CacheBehind, TypeOK, PodType
<1>1. ASSUME NEW k \in Keys, CreatePod(k) \/ DeletePod(k) \/ PodGone(k)
      PROVE  Pending(j)'
  <2>1. CASE j = k
    <3>1. pods'[j].phase = "running" => cPods[j] # pods'[j]
      BY <1>1, <1>a, <2>1, PodSteps, SMT, Z3, Zenon
    <3> QED
      BY <1>1, <3>1, PodSteps DEF Pending, cacheVars
  <2>2. CASE j # k
    <3>1. pods'[j] = pods[j]
      BY <1>1, <2>2, PodSteps
    <3> QED
      BY <1>1, <1>a, <3>1, PodSteps
         DEF Pending, AtWork, LeftBehind, cacheVars, workVars
  <2> QED
    BY <2>1, <2>2
<1>2. ASSUME NEW k \in Keys, CollectPilot(k) PROVE Pending(j)'
  <2>1. j # k => pilots'[j] = pilots[j]
    BY <1>2 DEF CollectPilot, TypeOK
  <2> QED
    BY <1>2, <1>a, <2>1
       DEF CollectPilot, Pending, AtWork, LeftBehind, workVars
<1>3. ASSUME NEW k \in Keys, ObservePod(k) PROVE Pending(j)'
  <2>1. j # k => cPods'[j] = cPods[j]
    BY <1>3 DEF ObservePod, TypeOK
  <2> QED
    BY <1>3, <1>a, <2>1 DEF ObservePod, Pending, AtWork, LeftBehind, apiVars
<1>4. ASSUME NEW k \in Keys, ObservePilot(k) PROVE Pending(j)'
  BY <1>4, <1>a, SMT, Z3, Zenon DEF ObservePilot, Pending, AtWork, LeftBehind,
     apiVars
<1>5. ASSUME NEW w \in Workers, Work(w) PROVE Pending(j)'
  <2> SUFFICES ASSUME pods[j].phase = "running", pilots'[j] # pods[j].uid
               PROVE  \/ cPods[j] # pods[j]
                      \/ j \in queue' \cup unseen'
                      \/ \E v \in Workers : AtWork(v, j)'
                      \/ LeftBehind(j)'
    BY <1>5, WorkWrites DEF Pending
  <2>1. ASSUME NEW v \in Workers \ {w}, AtWork(v, j) PROVE AtWork(v, j)'
    BY <1>5, <2>1, WorkSteps, WorkWrites DEF AtWork
  <2>2. CASE Get(w)
    <3>1. PICK k \in queue : queue' = queue \ {k} /\ key' = [key EXCEPT ![w] = k]
      BY <2>2, Zenon DEF Get
    <3>2. key'[w] = k /\ step'[w] = "sync" /\ key[w] # j
      BY <2>2, <3>1 DEF Get, Goto, TypeOK
    <3>3. k = j => AtWork(w, j)'
      BY <3>2 DEF AtWork
    <3>4. ~AtWork(w, j)
      BY <3>2 DEF AtWork
    <3>5. UNCHANGED <<pods, pilots, unseen>>
      BY <2>2 DEF Get, apiVars, cacheVars
    <3> QED
      BY <1>a, <2>1, <3>1, <3>3, <3>4, <3>5 DEF Pending, LeftBehind
  <2>3. CASE LookUpPod(w)
    <3>1. UNCHANGED <<pods, pilots, unseen, queue>>
      BY <2>3 DEF LookUpPod, apiVars, cacheVars
    <3>2. ASSUME AtWork(w, j), cPods[j] = pods[j] PROVE AtWork(w, j)'
      <4>1. key[w] = j /\ cPods[key[w]].phase = "running"
        BY <3>2 DEF AtWork
      <4>2. key'[w] = j /\ pod'[w] = pods[j].uid
        BY <2>3, <3>2, <4>1, SMT, Z3, Zenon DEF LookUpPod, TypeOK
      <4> QED
        BY <3>1, <4>2 DEF AtWork
    <3> QED
      BY <1>a, <2>1, <3>1, <3>2 DEF Pending, LeftBehind
  <2>4. CASE LookUpPilot(w)
    <3>1. UNCHANGED <<pods, pilots, unseen, queue>>
      BY <2>4 DEF LookUpPilot, apiVars, cacheVars
    <3>2. ASSUME AtWork(w, j)
          PROVE  j \in unseen \/ LeftBehind(j) \/ AtWork(w, j)'
      <4>1. key[w] = j /\ pod[w] = pods[j].uid
        BY <2>4, <3>2 DEF AtWork, LookUpPilot
      <4>2. CASE cPilots[j] # 0
        BY <1>a, <3>1, <4>1, <4>2 DEF EventToCome, LeftBehind
      <4>3. CASE cPilots[j] = 0
        BY <2>4, <3>1, <4>1, <4>3 DEF LookUpPilot, AtWork
      <4> QED
        BY <4>2, <4>3
    <3> QED
      BY <1>a, <2>1, <3>1, <3>2 DEF Pending, LeftBehind
  <2>5. CASE CreatePilot(w)
    <3>1. UNCHANGED <<pods, queue>> /\ unseen \subseteq unseen'
      BY <2>5 DEF CreatePilot
    <3>2. key[w] \in Keys /\ pod[w] \in 1 .. pods[key[w]].uid
      BY <2>5, HasKey DEF CreatePilot, PodSeen
    <3>3. CASE key[w] = j
      <4>1. pilots'[j] = IF pilots[j] = 0 THEN pod[w] ELSE pilots[j]
        BY <2>5, <3>3 DEF CreatePilot, TypeOK
      <4> QED
        BY <1>a, <3>1, <3>2, <3>3, <4>1 DEF LeftBehind
    <3>4. CASE key[w] # j
      <4>1. pilots'[j] = pilots[j]
        BY <2>5, <3>4, <3>2 DEF CreatePilot, TypeOK
      <4>2. ~AtWork(w, j)
        BY <3>4, SMT, Z3, Zenon DEF AtWork
      <4> QED
        BY <1>a, <2>1, <3>1, <4>1, <4>2 DEF Pending, LeftBehind
    <3> QED
      BY <3>3, <3>4
  <2>6. CASE CreateFails(w)
    <3>1. UNCHANGED <<pods, pilots, unseen>> /\ queue' = queue \cup {key[w]}
      BY <2>6, SMT, Z3, Zenon DEF CreateFails, apiVars, cacheVars
    <3>2. AtWork(w, j) => j \in queue'
      BY <3>1, SMT, Z3, Zenon DEF AtWork
    <3> QED
      BY <1>a, <2>1, <3>1, <3>2, SMT, Z3, Zenon DEF Pending, LeftBehind
  <2> QED
    BY <1>5, <2>2, <2>3, <2>4, <2>5, <2>6 DEF Work
<1>6. CASE UNCHANGED vars
  BY <1>6, <1>a DEF vars, apiVars, cacheVars, workVars, Pending, AtWork,
                    LeftBehind
<1> QED
  BY <1>1, <1>2, <1>3, <1>4, <1>5, <1>6 DEF Next

\* There is no pod and no Pilot at first.
LEMMA InitIInv == Init => IInv
<1> SUFFICES ASSUME Init PROVE IInv
  OBVIOUS
<1>1. NeverWas \in PodType /\ NeverWas.uid = 0 /\ NeverWas.phase = "gone"
  BY DEF NeverWas, PodType
<1>2. TypeOK
  BY <1>1 DEF Init, TypeOK, NoPilot
<1>3. OneWorkerPerKey /\ PodSeen
  BY DEF Init, OneWorkerPerKey, PodSeen
<1>4. OwnedByPod /\ CacheBehind /\ EventToCome /\ NoPodForgotten
  BY <1>1 DEF Init, OwnedByPod, CacheBehind, EventToCome, NoPodForgotten,
              Pending, NoPilot
<1> QED
  BY <1>2, <1>3, <1>4 DEF IInv

\* Every step preserves the invariant.
LEMMA StepIInv == IInv /\ [Next]_vars => IInv'
BY StepType, StepExclusive, StepOwners, StepPending DEF IInv

-----------------------------------------------------------------------------
(* The theorems.                                                           *)

\* The types of the pilot controller.
THEOREM TypeCorrect == Spec => []TypeOK
<1>1. IInv => TypeOK
  BY DEF IInv
<1> QED
  BY <1>1, InitIInv, StepIInv, PTL DEF Spec

\* The workers run sync for different pods, although pods and Pilots are
\* queued under one key and a key is queued again while a worker has it.
THEOREM WorkersApart == Spec => []OneWorkerPerKey
<1>1. IInv => OneWorkerPerKey
  BY DEF IInv
<1> QED
  BY <1>1, InitIInv, StepIInv, PTL DEF Spec

\* The owner reference of a Pilot names a pod that was created under the name
\* of the Pilot, however old the pod was that createPilot worked from.
THEOREM PilotsOwned == Spec => []OwnedByPod
<1>1. IInv => OwnedByPod
  BY DEF IInv
<1> QED
  BY <1>1, InitIInv, StepIInv, PTL DEF Spec

\* pilot_controller.go sync returns when it finds any Pilot of that name, or
\* the pod on its way out; still no running pod is left without a Pilot and
\* without a reason to be looked at again.
THEOREM NothingForgotten == Spec => []NoPodForgotten
<1>1. IInv => NoPodForgotten
  BY DEF IInv
<1> QED
  BY <1>1, InitIInv, StepIInv, PTL DEF Spec

\* createPilot never takes a Pilot over for the next pod of that name: what
\* exists keeps its owner until the garbage collector removes it.
THEOREM OwnersKept == Spec => NeverHandedOn
<1>1. IInv /\ [Next]_vars =>
        [\A k \in Keys : pilots[k] # NoPilot =>
                           pilots'[k] \in {pilots[k], NoPilot}]_vars
  <2> SUFFICES ASSUME TypeOK, Next, NEW k \in Keys, pilots[k] # NoPilot
               PROVE  pilots'[k] \in {pilots[k], NoPilot}
    BY DEF IInv
  <2>1. ASSUME NEW j \in Keys,
               \/ CreatePod(j) \/ DeletePod(j) \/ PodGone(j)
               \/ ObservePod(j) \/ ObservePilot(j)
        PROVE  pilots' = pilots
    BY <2>1 DEF CreatePod, DeletePod, PodGone, ObservePod, ObservePilot, apiVars
  <2>2. ASSUME NEW j \in Keys, CollectPilot(j)
        PROVE  pilots'[k] \in {pilots[k], NoPilot}
    BY <2>2 DEF CollectPilot, TypeOK
  <2>3. ASSUME NEW w \in Workers, Work(w) PROVE pilots'[k] = pilots[k]
    BY <2>3, WorkWrites DEF TypeOK
  <2> QED
    BY <2>1, <2>2, <2>3 DEF Next
<1> QED
  BY <1>1, InitIInv, StepIInv, PTL DEF Spec, NeverHandedOn
=============================================================================

---------------------------- MODULE PilotController ----------------------------
(***************************************************************************)
(* The pilot controller (pkg/controllers/pilotcontroller): a Pilot for     *)
(* every pod that carries the pilot label, under the name of the pod and   *)
(* owned by it, so that the garbage collector removes it after the pod.    *)
(* A StatefulSet gives the successor of a pod the name of its predecessor. *)
(*                                                                         *)
(* Pods are told apart by a uid, counted up from 1; 0 is no pod.           *)
(***************************************************************************)
EXTENDS Integers, FiniteSets

CONSTANTS Keys,       \* namespace/name of pods and of Pilots
          None,       \* no key
          Workers,    \* worker goroutines
          MaxUid,     \* pods that are created under one name
          MaxErrors   \* Creates that fail

ASSUME PilotControllerAssumption ==
  None \notin Keys /\ MaxUid \in Nat /\ MaxErrors \in Nat

VARIABLES
  pods, cPods,      \* the pods, and their cache
  pilots, cPilots,  \* uid of the pod that owns each Pilot, and their cache
  unseen,           \* keys whose Pilot has events still to be delivered
  queue,            \* keys waiting in the workqueue
  step, key, pod,   \* of each worker: its step of sync, its key, the pod it saw
  errors            \* Creates that still may fail

apiVars   == <<pods, pilots>>
cacheVars == <<cPods, cPilots, unseen>>
workVars  == <<queue, step, key, pod>>
vars      == <<apiVars, cacheVars, workVars, errors>>

NoPilot  == 0
PodType  == [uid: 0 .. MaxUid, phase: {"running", "deleting", "gone"}]
NeverWas == [uid |-> 0, phase |-> "gone"]

TypeOK ==
  /\ pods \in [Keys -> PodType] /\ cPods \in [Keys -> PodType]
  /\ pilots \in [Keys -> NoPilot .. MaxUid]
  /\ cPilots \in [Keys -> NoPilot .. MaxUid]
  /\ queue \subseteq Keys /\ unseen \subseteq Keys
  /\ step \in [Workers -> {"idle", "sync", "pilot", "create"}]
  /\ key \in [Workers -> Keys \cup {None}]
  /\ \A w \in Workers : step[w] = "idle" <=> key[w] = None
  /\ pod \in [Workers -> 0 .. MaxUid]
  /\ errors \in 0 .. MaxErrors

Init ==
  /\ pods = [k \in Keys |-> NeverWas] /\ cPods = pods
  /\ pilots = [k \in Keys |-> NoPilot] /\ cPilots = pilots
  /\ queue = {} /\ unseen = {}
  /\ step = [w \in Workers |-> "idle"]
  /\ key = [w \in Workers |-> None]
  /\ pod = [w \in Workers |-> 0]
  /\ errors = MaxErrors

-----------------------------------------------------------------------------
(* StatefulSets, the kubelet and the garbage collector.                    *)

CreatePod(k) ==
  /\ pods[k].phase = "gone" /\ pods[k].uid < MaxUid
  /\ pods' = [pods EXCEPT ![k] = [uid |-> @.uid + 1, phase |-> "running"]]
  /\ UNCHANGED <<pilots, cacheVars, workVars, errors>>

DeletePod(k) ==
  /\ pods[k].phase = "running"
  /\ pods' = [pods EXCEPT ![k].phase = "deleting"]
  /\ UNCHANGED <<pilots, cacheVars, workVars, errors>>

PodGone(k) ==
  /\ pods[k].phase = "deleting"
  /\ pods' = [pods EXCEPT ![k].phase = "gone"]
  /\ UNCHANGED <<pilots, cacheVars, workVars, errors>>

\* A Pilot goes when the pod with the uid of its owner reference is gone.
CollectPilot(k) ==
  /\ pilots[k] \in 1 .. MaxUid
  /\ pilots[k] < pods[k].uid \/ pods[k].phase = "gone"
  /\ pilots' = [pilots EXCEPT ![k] = NoPilot]
  /\ unseen' = unseen \cup {k}
  /\ UNCHANGED <<pods, cPods, cPilots, workVars, errors>>

-----------------------------------------------------------------------------
(* The informers.  Pods and Pilots are queued under the same key.          *)

ObservePod(k) ==
  /\ cPods[k] # pods[k]
  /\ cPods' = [cPods EXCEPT ![k] = pods[k]]
  /\ queue' = queue \cup {k}
  /\ UNCHANGED <<apiVars, cPilots, unseen, step, key, pod, errors>>

\* Mutant: the deletion of a Pilot goes unnoticed.
ObservePilotUnlessDeleted(k) ==
  /\ k \in unseen
  /\ unseen' = unseen \ {k}
  /\ cPilots' = [cPilots EXCEPT ![k] = pilots[k]]
  /\ queue' = IF pilots[k] = NoPilot THEN queue ELSE queue \cup {k}
  /\ UNCHANGED <<apiVars, cPods, step, key, pod, errors>>

ObservePilot(k) ==
  /\ k \in unseen
  /\ unseen' = unseen \ {k}
  /\ cPilots' = [cPilots EXCEPT ![k] = pilots[k]]
  /\ queue' = queue \cup {k}
  /\ UNCHANGED <<apiVars, cPods, step, key, pod, errors>>

-----------------------------------------------------------------------------
(* The workers.  The workqueue gives no key out that a worker still has.   *)

Goto(w, s) == step' = [step EXCEPT ![w] = s]

Get(w) ==
  /\ step[w] = "idle"
  /\ \E k \in queue :
       /\ \A v \in Workers : key[v] # k
       /\ queue' = queue \ {k}
       /\ key' = [key EXCEPT ![w] = k]
  /\ Goto(w, "sync")
  /\ UNCHANGED <<apiVars, cacheVars, pod, errors>>

\* Mutant: the workqueue is not told that the key is done.
DoneWithoutQueue(w) ==
  /\ Goto(w, "idle")
  /\ pod' = [pod EXCEPT ![w] = 0]
  /\ UNCHANGED key

Done(w) ==
  /\ Goto(w, "idle")
  /\ key' = [key EXCEPT ![w] = None]
  /\ pod' = [pod EXCEPT ![w] = 0]

\* The pod, of the lister; nothing to do for one that is gone or going.
LookUpPod(w) ==
  LET p == cPods[key[w]] IN
  /\ step[w] = "sync"
  /\ IF p.phase = "running"
     THEN Goto(w, "pilot") /\ pod' = [pod EXCEPT ![w] = p.uid] /\ UNCHANGED key
     ELSE Done(w)
  /\ UNCHANGED <<apiVars, cacheVars, queue, errors>>

\* Any Pilot of that name will do, its owner is not looked at.
LookUpPilot(w) ==
  /\ step[w] = "pilot"
  /\ IF cPilots[key[w]] # NoPilot
     THEN Done(w)
     ELSE Goto(w, "create") /\ UNCHANGED <<key, pod>>
  /\ UNCHANGED <<apiVars, cacheVars, queue, errors>>

\* Mutant: a new Pilot replaces the one that is there.
CreateOrReplacePilot(w) ==
  /\ step[w] = "create"
  /\ pilots' = [pilots EXCEPT ![key[w]] = pod[w]]
  /\ unseen' = unseen \cup {key[w]}
  /\ Done(w)
  /\ UNCHANGED <<pods, cPods, cPilots, queue, errors>>

\* A Pilot that exists already is no error.
CreatePilot(w) ==
  /\ step[w] = "create"
  /\ IF pilots[key[w]] = NoPilot
     THEN /\ pilots' = [pilots EXCEPT ![key[w]] = pod[w]]
          /\ unseen' = unseen \cup {key[w]}
     ELSE UNCHANGED <<pilots, unseen>>
  /\ Done(w)
  /\ UNCHANGED <<pods, cPods, cPilots, queue, errors>>

CreateFails(w) ==
  /\ step[w] = "create" /\ errors > 0
  /\ errors' = errors - 1
  /\ queue' = queue \cup {key[w]}
  /\ Done(w)
  /\ UNCHANGED <<apiVars, cacheVars>>

-----------------------------------------------------------------------------

Work(w) == \/ Get(w) \/ LookUpPod(w) \/ LookUpPilot(w)
           \/ CreatePilot(w) \/ CreateFails(w)

Next ==
  \/ \E k \in Keys : \/ CreatePod(k) \/ DeletePod(k) \/ PodGone(k)
                     \/ CollectPilot(k) \/ ObservePod(k) \/ ObservePilot(k)
  \/ \E w \in Workers : Work(w)

Spec == Init /\ [][Next]_vars

\* Workers go on, informers deliver, and the garbage collector gets to a Pilot.
FairSpec ==
  /\ Spec
  /\ \A w \in Workers : WF_vars(Work(w))
  /\ \A k \in Keys : /\ WF_vars(ObservePod(k)) /\ WF_vars(ObservePilot(k))
                     /\ WF_vars(CollectPilot(k))

-----------------------------------------------------------------------------

\* No database node takes over the Pilot of another: the owner of a Pilot never
\* changes, so that createPilot leaves a successor of a pod to wait until the
\* garbage collector has removed what the pod before it left.
NeverHandedOn ==
  [][\A k \in Keys :
       pilots[k] # NoPilot => pilots'[k] \in {pilots[k], NoPilot}]_vars

\* Every pod that stays ends with a Pilot of its own, although sync takes any
\* Pilot of that name for its own, acts on pods that are gone, and creates
\* Pilots that are collected at once.
EveryPodPiloted ==
  \A k \in Keys :
    <>[](pods[k].phase = "running" => pilots[k] = pods[k].uid)
=============================================================================

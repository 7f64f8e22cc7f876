------------------------------- MODULE PilotSync -------------------------------
(***************************************************************************)
(* The controller inside every pilot (pkg/pilot/genericpilot/controller):  *)
(* one worker syncs this pilot and its peers, and re-arms a timer of the   *)
(* ScheduledWorkQueue at the end of each sync, so that every peer comes    *)
(* round again.  A Pilot resource is abstracted to its resourceVersion,    *)
(* with 0 for a resource that does not exist; syncFunc is abstracted to    *)
(* the version it was last given (GenericPilot has its inside).            *)
(***************************************************************************)
EXTENDS Integers

CONSTANTS Pilots,      \* the Pilot resources of the namespace
          This,        \* the one this process runs for
          Root,        \* the cluster at the root of a pilot's owner chain
          Timers, None,
          MaxRevision, \* bound on the writes to Pilot resources
          MaxErrors    \* bound on the syncs that fail

ASSUME PilotsAssumption ==
  /\ This \in Pilots /\ None \notin Pilots /\ None \notin Timers
  /\ Root \in [Pilots -> {"ours", "other", "none"}]
  /\ MaxRevision \in Nat \ {0} /\ MaxErrors \in Nat

VARIABLES api, revision,  \* the Pilot resources, and the last resourceVersion
          cache,          \* the lister's copies
          resolved,       \* pilots whose owner chain is in the other listers
          cachedThis,     \* cachedThisPilot
          queue, delayed, \* the workqueue, and its rate-limited additions
          pc, cur, copy, err, \* the worker: step, key, pilot, result
          applied,        \* the version last synced without an error
          errors,         \* failures so far
          work, timer     \* the ScheduledWorkQueue

apiVars    == <<api, revision>>
workerVars == <<cachedThis, pc, cur, copy, err, applied, errors>>
schedVars  == <<work, timer>>
vars == <<apiVars, cache, resolved, queue, delayed, workerVars, schedVars>>

\* The worker is the only goroutine that calls AddWithKey.
Scheduler == INSTANCE ScheduledWorkQueue
  WITH Keys <- Pilots, Callers <- {"worker"},
       calls <- [t \in {"worker"} |-> IF pc = "store" THEN cur ELSE None]

Versions == 0..MaxRevision

ControllerTypeOK ==
  /\ api \in [Pilots -> Versions] /\ cache \in [Pilots -> Versions]
  /\ revision \in Versions /\ cachedThis \in Versions
  /\ resolved \subseteq Pilots /\ queue \subseteq Pilots
  /\ delayed \subseteq Pilots
  /\ pc \in {"idle", "sync", "clear", "store"}
  /\ cur \in Pilots \cup {None} /\ copy \in Versions /\ err \in BOOLEAN
  /\ (pc = "idle") = (cur = None)
  /\ applied \in [Pilots -> Versions] /\ errors \in 0..MaxErrors

TypeOK == ControllerTypeOK /\ Scheduler!TypeOK

\* Run waits for the pilot informer only; its first list adds what it finds.
Init ==
  /\ api \in [Pilots -> {0, 1}] /\ revision = 1
  /\ cache = api /\ resolved = {}
  /\ cachedThis = 0
  /\ queue = {p \in Pilots : api[p] # 0} /\ delayed = {}
  /\ pc = "idle" /\ cur = None /\ copy = 0 /\ err = FALSE
  /\ applied = [p \in Pilots |-> 0] /\ errors = 0
  /\ work = [p \in Pilots |-> None]
  /\ timer = [i \in Timers |-> Scheduler!Free]

-----------------------------------------------------------------------------
(* The world: writes, informers and the workqueue's delays.                *)

\* The resource p is created, updated or deleted.
WritePilot(p, exists) ==
  /\ revision < MaxRevision
  /\ exists \/ api[p] # 0
  /\ revision' = revision + 1
  /\ api' = [api EXCEPT ![p] = IF exists THEN revision + 1 ELSE 0]
  /\ UNCHANGED <<cache, resolved, queue, delayed, workerVars, schedVars>>

\* Mutant: only additions and deletions are queued.
ObserveWithoutUpdates(p) ==
  /\ cache[p] # api[p]
  /\ cache' = [cache EXCEPT ![p] = api[p]]
  /\ queue' = IF cache[p] = 0 \/ api[p] = 0 THEN queue \cup {p} ELSE queue
  /\ UNCHANGED <<apiVars, resolved, delayed, workerVars, schedVars>>

\* The informer and QueuingEventHandler.
Observe(p) ==
  /\ cache[p] # api[p]
  /\ cache' = [cache EXCEPT ![p] = api[p]]
  /\ queue' = queue \cup {p}
  /\ UNCHANGED <<apiVars, resolved, delayed, workerVars, schedVars>>

\* The pods and StatefulSets between p and its cluster reach the listers;
\* nothing is queued for that.
Resolve(p) ==
  /\ p \notin resolved
  /\ resolved' = resolved \cup {p}
  /\ UNCHANGED <<apiVars, cache, queue, delayed, workerVars, schedVars>>

Release(p) ==
  /\ p \in delayed
  /\ delayed' = delayed \ {p}
  /\ queue' = queue \cup {p}
  /\ UNCHANGED <<apiVars, cache, resolved, workerVars, schedVars>>

-----------------------------------------------------------------------------
(* The worker.                                                             *)

ThisPilot == IF cache[This] # 0 THEN cache[This] ELSE cachedThis

\* Mutant: a pilot that is gone is synced as if it had just been seen.
FoundAlways(p) == IF cache[p] # 0 THEN cache[p] ELSE applied[p]

\* The pilot sync works on: a lookup that fails falls back to cachedThisPilot.
Found(p) == IF p = This THEN ThisPilot ELSE cache[p]

\* RootControllerRef finds the root of p, which may be that it has none.
RootKnown(p) == Root[p] = "none" \/ p \in resolved

PeerUnknown(p) ==
  \/ ThisPilot = 0
  \/ ~RootKnown(This) \/ Root[This] = "none"
  \/ ~RootKnown(p)

IsPeer(p) == ~PeerUnknown(p) /\ Root[p] = Root[This]

Take(p) == pc = "idle" /\ p \in queue /\ queue' = queue \ {p}

SkipPilot(p) ==
  /\ Take(p)
  /\ Found(p) = 0 \/ (~PeerUnknown(p) /\ ~IsPeer(p))
  /\ UNCHANGED <<apiVars, cache, resolved, delayed, workerVars, schedVars>>

\* Mutant: the error of IsPeer is taken for "not a peer".
RetryPilotDropped(p) ==
  /\ Take(p)
  /\ Found(p) # 0 /\ PeerUnknown(p)
  /\ UNCHANGED <<apiVars, cache, resolved, delayed, workerVars, schedVars>>

RetryPilot(p) ==
  /\ Take(p)
  /\ Found(p) # 0 /\ PeerUnknown(p)
  /\ delayed' = delayed \cup {p}
  /\ UNCHANGED <<apiVars, cache, resolved, workerVars, schedVars>>

BeginSync(p) ==
  /\ Take(p)
  /\ Found(p) # 0 /\ IsPeer(p)
  /\ pc' = "sync" /\ cur' = p /\ copy' = Found(p)
  /\ cachedThis' = IF p = This THEN Found(p) ELSE cachedThis
  /\ UNCHANGED <<apiVars, cache, resolved, delayed, err, applied, errors,
                 schedVars>>

RunSyncFunc ==
  /\ pc = "sync" /\ pc' = "clear"
  /\ \/ /\ applied' = [applied EXCEPT ![cur] = copy]
        /\ err' = FALSE
        /\ UNCHANGED errors
     \/ /\ errors < MaxErrors
        /\ errors' = errors + 1
        /\ err' = TRUE
        /\ UNCHANGED applied
  /\ UNCHANGED <<apiVars, cache, resolved, queue, delayed, cachedThis, cur,
                 copy, schedVars>>

\* Mutant: AddWithKey does not clear the timer of the key.
AddWithKeyKeepsTimer ==
  /\ pc = "clear" /\ pc' = "store"
  /\ UNCHANGED <<apiVars, cache, resolved, queue, delayed, cachedThis, cur,
                 copy, err, applied, errors, schedVars>>

\* The deferred AddWithKey: first its clearTimer...
AddWithKeyClears ==
  /\ pc = "clear" /\ pc' = "store"
  /\ Scheduler!ClearTimer(cur)
  /\ UNCHANGED <<apiVars, cache, resolved, queue, delayed, cachedThis, cur,
                 copy, err, applied, errors>>

\* Mutant: the worker keeps the key it has finished with.
AddWithKeyKeepsKey(i) ==
  /\ pc = "store" /\ pc' = "idle"
  /\ Scheduler!StoreTimer(cur, i)
  /\ delayed' = IF err THEN delayed \cup {cur} ELSE delayed
  /\ UNCHANGED <<apiVars, cache, resolved, queue, cachedThis, cur, copy, err,
                 applied, errors>>

\* ...then the new timer, after which a key whose sync failed is requeued.
AddWithKeyStores(i) ==
  /\ pc = "store" /\ pc' = "idle"
  /\ Scheduler!StoreTimer(cur, i)
  /\ delayed' = IF err THEN delayed \cup {cur} ELSE delayed
  /\ cur' = None
  /\ UNCHANGED <<apiVars, cache, resolved, queue, cachedThis, copy, err,
                 applied, errors>>

-----------------------------------------------------------------------------
(* The goroutines of the timers; processFunc is enqueuePilot.              *)

Fire(i) ==
  /\ Scheduler!Fire(i)
  /\ UNCHANGED <<apiVars, cache, resolved, queue, delayed, workerVars>>

EnqueuePilot(i) ==
  /\ Scheduler!Process(i)
  /\ delayed' = delayed \cup {timer[i].key}
  /\ UNCHANGED <<apiVars, cache, resolved, queue, workerVars>>

Finish(i) ==
  /\ Scheduler!Finish(i)
  /\ UNCHANGED <<apiVars, cache, resolved, queue, delayed, workerVars>>

Callback(i) == Fire(i) \/ EnqueuePilot(i) \/ Finish(i)

ProcessItem(p) == SkipPilot(p) \/ RetryPilot(p) \/ BeginSync(p)

WorkerStep ==
  \/ RunSyncFunc \/ AddWithKeyClears
  \/ \E i \in Timers : AddWithKeyStores(i)

Next ==
  \/ \E p \in Pilots :
       \/ \E exists \in BOOLEAN : WritePilot(p, exists)
       \/ Observe(p) \/ Resolve(p) \/ Release(p) \/ ProcessItem(p)
  \/ WorkerStep
  \/ \E i \in Timers : Callback(i)

Spec == Init /\ [][Next]_vars

\* Watches, timers and goroutines make progress, and the workqueue hands out
\* its keys first in, first out, so that no key waits for ever.
FairSpec ==
  /\ Spec
  /\ \A p \in Pilots : /\ WF_vars(Observe(p)) /\ WF_vars(Resolve(p))
                       /\ WF_vars(Release(p)) /\ SF_vars(ProcessItem(p))
  /\ WF_vars(WorkerStep)
  /\ \A i \in Timers : WF_vars(Callback(i))

-----------------------------------------------------------------------------
(* Properties.                                                             *)

Peers == {p \in Pilots : Root[p] = Root[This]}

\* A version of a peer that the lister holds and syncFunc has not yet taken is
\* never forgotten: its key is queued, waits for a retry, or is in the hands
\* of the worker, which holds that very version or will fail and retry.
NoLostWakeup ==
  \A p \in Peers :
    cache[p] # 0 /\ applied[p] # cache[p] =>
      \/ p \in queue \cup delayed
      \/ cur = p /\ (err \/ pc = "sync") /\ copy = cache[p]

\* Once the resources stop changing, syncFunc has seen the last version of
\* every peer, although owners may be unknown and syncs may fail at first.
LatestSynced ==
  \A p \in Peers :
    <>[](api[This] # 0 /\ api[p] # 0 => applied[p] = api[p])

\* A peer whose resource is gone stops coming round: its timer is not
\* re-armed and its key leaves the queue.
DeletedForgotten ==
  \A p \in Pilots \ {This} :
    <>[](api[p] = 0 => p \notin queue \cup delayed /\ Scheduler!Armed(p) = {})

\* The controller uses the ScheduledWorkQueue as its specification allows.
UsesScheduler == Scheduler!Spec

\* controller.go, at the call of AddWithKey: "we should resync all peers every
\* 10s".  A peer that exists for good is synced again and again.
ResyncedForever ==
  \A p \in Peers :
    []<>(cur = p \/ api[p] = 0 \/ api[This] = 0)
=============================================================================

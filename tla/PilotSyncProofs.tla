---------------------------- MODULE PilotSyncProofs ----------------------------
(***************************************************************************)
(* The peer controller of the pilot for any set of pilots, timers and      *)
(* owners: it is a legal client of the ScheduledWorkQueue, so what is      *)
(* proved of that queue holds of its timers, and it never forgets a        *)
(* version of a peer that syncFunc has not taken.                          *)
(***************************************************************************)
EXTENDS PilotSync, TLAPS

\* The worker's call of AddWithKey, as the scheduler sees it.
Calls == [t \in {"worker"} |-> IF pc = "store" THEN cur ELSE None]

\* An armed timer is the one stored under its key, and there is none between
\* the two critical sections of AddWithKey.
Tracked ==
  /\ \A i \in Timers : timer[i].phase = "armed" => work[timer[i].key] = i
  /\ \A t \in {"worker"}, i \in Timers :
       Calls[t] # None /\ timer[i].phase = "armed" => timer[i].key # Calls[t]

\* The types of the timers, and their tracking.
Timed == Scheduler!TypeOK /\ Tracked

\* What syncFunc is about to be given is the lister's version, or the key is
\* due again: otherwise an old version could overwrite the one applied.
CopyCurrent ==
  pc = "sync" /\ cache[cur] # 0 =>
    copy = cache[cur] \/ cur \in queue \cup delayed

\* The inductive invariant.  Timed is the scheduler's typing with the
\* tracking of its armed timers; NoLostWakeup needs CopyCurrent, since a
\* version that has been applied owes nothing until a stale one replaces it.
IInv == ControllerTypeOK /\ Timed /\ CopyCurrent /\ NoLostWakeup

-----------------------------------------------------------------------------
(* The ScheduledWorkQueue with one caller.                                 *)

\* A timer is free, or has a key and a phase.
LEMMA TimerFields ==
  ASSUME Timed, NEW i \in Timers
  PROVE  /\ \/ timer[i] = Scheduler!Free
            \/ timer[i] \in [key: Pilots, phase: Scheduler!Phases]
         /\ timer[i].phase = "armed" => timer[i].key \in Pilots
         /\ timer[i].phase \in Scheduler!Phases => timer[i].key \in Pilots
BY PilotsAssumption DEF Timed, Scheduler!TypeOK, Scheduler!Free,
                        Scheduler!Phases

\* clearTimer leaves no armed timer of its key and arms none, provided that
\* the armed timers are tracked (scheduler.go clearTimer).
LEMMA ClearTimerEffect ==
  ASSUME Timed, NEW k \in Pilots, Scheduler!ClearTimer(k)
  PROVE  /\ work' \in [Pilots -> Timers \cup {None}]
         /\ timer' \in [Timers -> [key: Pilots, phase: Scheduler!Phases]
                                   \cup {Scheduler!Free}]
         /\ \A i \in Timers : timer'[i].phase = "armed" =>
              /\ timer'[i] = timer[i] /\ timer[i].key # k
              /\ work'[timer[i].key] = i
<1>1. \A i \in Timers : timer'[i] \in {timer[i], Scheduler!Free}
  BY DEF Scheduler!ClearTimer, Scheduler!Stopped
<1>2. work' \in [Pilots -> Timers \cup {None}]
  BY DEF Scheduler!ClearTimer, Timed, Scheduler!TypeOK, Calls
<1>3. timer' \in [Timers -> [key: Pilots, phase: Scheduler!Phases] \cup {Scheduler!Free}]
  BY DEF Scheduler!ClearTimer, Scheduler!Stopped, Timed, Scheduler!TypeOK, Calls
<1>4. ASSUME NEW i \in Timers, timer'[i].phase = "armed"
      PROVE  /\ timer'[i] = timer[i] /\ timer[i].key # k
             /\ work'[timer[i].key] = i
  <2>1. timer'[i] = timer[i] /\ timer[i].phase = "armed"
    BY <1>1, <1>4 DEF Scheduler!Free
  <2>2. i # work[k]
    BY <2>1, <1>4 DEF Scheduler!ClearTimer, Scheduler!Stopped, Scheduler!Free
  <2>3. work[timer[i].key] = i /\ timer[i].key \in Pilots
    BY <2>1, TimerFields DEF Timed, Tracked, Calls
  <2> QED
    BY <2>1, <2>2, <2>3 DEF Scheduler!ClearTimer, Timed, Scheduler!TypeOK, Calls
<1> QED
  BY <1>2, <1>3, <1>4

\* No timer is armed at first.
LEMMA InitTimed == Scheduler!Init => Timed
BY DEF Scheduler!Init, Timed, Scheduler!TypeOK, Tracked, Scheduler!Free, Calls

\* Every step keeps the armed timers tracked, since there is one caller.
LEMMA StepTimed ==
  ASSUME Timed, [Scheduler!Next]_(Scheduler!schedVars)
  PROVE  Timed'
<1> USE PilotsAssumption
<1>1. ASSUME NEW t \in {"worker"}, NEW k \in Pilots,
             Scheduler!AddClears(t, k) \/ Scheduler!Forget(t, k)
      PROVE  Timed'
  <2>1. Scheduler!ClearTimer(k) /\ Calls[t] = None
    BY <1>1 DEF Scheduler!AddClears, Scheduler!Forget, Calls
  <2>2. Calls' \in [{"worker"} -> Pilots \cup {None}] /\ Calls'[t] \in {None, k}
    BY <1>1 DEF Scheduler!AddClears, Scheduler!Forget, Timed, Scheduler!TypeOK,
                Calls
  <2> QED
    BY <2>1, <2>2, ClearTimerEffect DEF Timed, Scheduler!TypeOK, Tracked, Calls
<1>2. ASSUME NEW t \in {"worker"}, NEW i \in Timers, Scheduler!AddStores(t, i)
      PROVE  Timed'
  <2>1. Calls[t] \in Pilots /\ Calls'[t] = None
    BY <1>2 DEF Scheduler!AddStores, Timed, Scheduler!TypeOK, Calls
  <2>2. Scheduler!TypeOK'
    BY <1>2, <2>1 DEF Scheduler!AddStores, Scheduler!StoreTimer, Timed,
                      Scheduler!TypeOK, Scheduler!Phases, Calls
  <2>3. ASSUME NEW j \in Timers, timer'[j].phase = "armed"
        PROVE  work'[timer'[j].key] = j
    <3>1. CASE j = i
      BY <1>2, <2>1, <3>1 DEF Scheduler!AddStores, Scheduler!StoreTimer, Timed,
                              Scheduler!TypeOK, Calls
    <3>2. CASE j # i
      <4>1. timer'[j] = timer[j] /\ timer[j].phase = "armed"
        BY <1>2, <2>3, <3>2 DEF Scheduler!AddStores, Scheduler!StoreTimer,
                                Timed, Scheduler!TypeOK, Calls
      <4>2. timer[j].key \in Pilots /\ timer[j].key # Calls[t]
        BY <1>2, <4>1, TimerFields DEF Scheduler!AddStores, Timed, Tracked,
                                Calls
      <4> QED
        BY <1>2, <4>1, <4>2 DEF Scheduler!AddStores, Scheduler!StoreTimer,
                                Timed, Scheduler!TypeOK, Tracked, Calls
    <3> QED
      BY <3>1, <3>2
  <2>4. \A u \in {"worker"} : Calls'[u] = None
    BY <2>1
  <2> QED
    BY <2>2, <2>3, <2>4 DEF Timed, Tracked, Calls
<1>3. ASSUME NEW i \in Timers, Scheduler!Fire(i) \/ Scheduler!Process(i), UNCHANGED Calls
      PROVE  Timed'
  <2>1. timer[i].phase \in {"armed", "fired"} /\ timer[i].key \in Pilots
    BY <1>3, TimerFields DEF Scheduler!Fire, Scheduler!Process, Timed,
                            Scheduler!Phases, Calls
  <2>2. timer[i] \in [key: Pilots, phase: Scheduler!Phases]
    BY <2>1, TimerFields DEF Timed, Scheduler!Free, Calls
  <2>3. timer'[i].phase # "armed"
    BY <1>3, <2>2 DEF Scheduler!Fire, Scheduler!Process, Timed,
                      Scheduler!TypeOK, Calls
  <2>4. Scheduler!TypeOK'
    BY <1>3, <2>2 DEF Scheduler!Fire, Scheduler!Process, Timed,
                      Scheduler!TypeOK, Scheduler!Phases, Calls
  <2>5. work' = work /\ \A j \in Timers : j # i => timer'[j] = timer[j]
    BY <1>3 DEF Scheduler!Fire, Scheduler!Process, Timed, Scheduler!TypeOK,
                Calls
  <2> QED
    BY <1>3, <2>3, <2>4, <2>5 DEF Timed, Tracked, Calls
<1>4. ASSUME NEW i \in Timers, Scheduler!Finish(i), UNCHANGED Calls PROVE Timed'
  <2> DEFINE k == timer[i].key
  <2>1. k \in Pilots
    BY <1>4, TimerFields DEF Scheduler!Finish, Timed, Scheduler!Phases, Calls
  <2>2. Scheduler!TypeOK'
    BY <1>4, <2>1 DEF Scheduler!Finish, Scheduler!Stopped, Timed,
                      Scheduler!TypeOK, Calls
  <2>3. ASSUME NEW j \in Timers, timer'[j].phase = "armed"
        PROVE  /\ timer'[j] = timer[j] /\ timer[j].phase = "armed"
               /\ j # work[k]
    BY <1>4, <2>3 DEF Scheduler!Finish, Scheduler!Stopped, Scheduler!Free,
                      Timed, Scheduler!TypeOK, Calls
  <2>4. ASSUME NEW j \in Timers, timer'[j].phase = "armed"
        PROVE  work'[timer'[j].key] = j
    <3>1. work[timer[j].key] = j /\ timer[j].key \in Pilots
      BY <2>3, <2>4, TimerFields DEF Timed, Tracked, Calls
    <3> QED
      BY <1>4, <2>3, <2>4, <3>1 DEF Scheduler!Finish, Timed, Scheduler!TypeOK,
                              Calls
  <2> QED
    BY <1>4, <2>2, <2>3, <2>4 DEF Timed, Tracked, Calls
<1>5. CASE UNCHANGED Scheduler!schedVars
  BY <1>5 DEF Scheduler!schedVars, Timed, Scheduler!TypeOK, Tracked, Calls
<1> QED
  BY <1>1, <1>2, <1>3, <1>4, <1>5 DEF Scheduler!Next, Calls

\* scheduler.go AddWithKey promises that an earlier timer of the key is
\* cancelled; a single caller, as the one worker of the peer controller is,
\* gets that although the lock is released between clearing and storing.
THEOREM OneCallerCancels == Scheduler!Spec => []Scheduler!PreviousCancelled
<1>1. Timed => Scheduler!PreviousCancelled
  <2> SUFFICES ASSUME Timed, NEW k \in Pilots,
                      NEW i \in Scheduler!Armed(k), NEW j \in Scheduler!Armed(k)
               PROVE  i = j
    BY DEF Scheduler!PreviousCancelled
  <2> QED
    BY DEF Scheduler!Armed, Timed, Tracked, Calls
<1>2. Timed /\ [Scheduler!Next]_(Scheduler!schedVars) => Timed'
  BY StepTimed
<1> QED
  BY <1>1, <1>2, InitTimed, PTL DEF Scheduler!Spec

-----------------------------------------------------------------------------
(* The controller as the caller.                                           *)

\* Every step of the controller is a step of the ScheduledWorkQueue with one
\* caller, or leaves its map and its timers alone.
LEMMA SchedulerStep ==
  ASSUME ControllerTypeOK, [Next]_vars
  PROVE  [Scheduler!Next]_(Scheduler!schedVars)
<1> USE PilotsAssumption
<1> SUFFICES ASSUME ~UNCHANGED Scheduler!schedVars PROVE Scheduler!Next
  OBVIOUS
<1>1. CASE AddWithKeyClears
  <2>1. cur \in Pilots /\ cur # None
    BY <1>1 DEF AddWithKeyClears, ControllerTypeOK
  <2>2. Calls["worker"] = None /\ Calls' = [Calls EXCEPT !["worker"] = cur]
    BY <1>1, <2>1 DEF AddWithKeyClears, Calls
  <2>3. Scheduler!ClearTimer(cur)
    BY <1>1 DEF AddWithKeyClears, Scheduler!ClearTimer, Scheduler!Stopped,
                Scheduler!Free
  <2>4. Scheduler!AddClears("worker", cur)
    BY <2>2, <2>3 DEF Scheduler!AddClears, Calls
  <2> QED
    BY <2>1, <2>4 DEF Scheduler!Next
<1>2. ASSUME NEW i \in Timers, AddWithKeyStores(i) PROVE Scheduler!Next
  <2>1. cur \in Pilots /\ cur # None
    BY <1>2 DEF AddWithKeyStores, ControllerTypeOK
  <2>2. Calls["worker"] = cur /\ Calls' = [Calls EXCEPT !["worker"] = None]
    BY <1>2, <2>1 DEF AddWithKeyStores, Calls
  <2>3. Scheduler!StoreTimer(cur, i)
    BY <1>2 DEF AddWithKeyStores, Scheduler!StoreTimer, Scheduler!Free
  <2>4. Scheduler!AddStores("worker", i)
    BY <2>1, <2>2, <2>3 DEF Scheduler!AddStores, Calls
  <2> QED
    BY <2>4 DEF Scheduler!Next
<1>3. ASSUME NEW i \in Timers, Callback(i) PROVE Scheduler!Next
  <2>1. UNCHANGED <<pc, cur>>
    BY <1>3 DEF Callback, Fire, EnqueuePilot, Finish, workerVars
  <2>2. Scheduler!Fire(i) \/ Scheduler!Process(i) \/ Scheduler!Finish(i)
    BY <1>3 DEF Callback, Fire, EnqueuePilot, Finish, Scheduler!Fire,
                Scheduler!Process, Scheduler!Finish, Scheduler!Stopped,
                Scheduler!Free
  <2> QED
    BY <2>1, <2>2 DEF Scheduler!Next
<1>4. ASSUME NEW p \in Pilots, NEW exists \in BOOLEAN, WritePilot(p, exists)
      PROVE  UNCHANGED Scheduler!schedVars
  BY <1>4, SMT, Z3, Zenon DEF WritePilot, workerVars, schedVars, Scheduler!schedVars
<1>5. ASSUME NEW p \in Pilots, Observe(p) \/ Resolve(p) \/ Release(p)
      PROVE  UNCHANGED Scheduler!schedVars
  BY <1>5 DEF Observe, Resolve, Release, workerVars, schedVars,
              Scheduler!schedVars
<1>6. ASSUME NEW p \in Pilots, ProcessItem(p) PROVE UNCHANGED Scheduler!schedVars
  BY <1>6 DEF ProcessItem, SkipPilot, RetryPilot, BeginSync, Take, workerVars,
              schedVars, Scheduler!schedVars
<1>7. CASE RunSyncFunc
  BY <1>7 DEF RunSyncFunc, schedVars, Scheduler!schedVars
<1>8. CASE UNCHANGED vars
  BY <1>8 DEF vars, workerVars, schedVars, Scheduler!schedVars
<1> QED
  BY <1>1, <1>2, <1>3, <1>4, <1>5, <1>6, <1>7, <1>8 DEF Next, WorkerStep

-----------------------------------------------------------------------------
(* The controller's own state.                                             *)

\* The version sync works on is one the API server has handed out.
LEMMA FoundType ==
  ASSUME ControllerTypeOK, NEW p \in Pilots
  PROVE  Found(p) \in Versions
BY PilotsAssumption DEF ControllerTypeOK, Found, ThisPilot

\* The timer of a callback has a key.
LEMMA CallbackKey ==
  ASSUME Timed, NEW i \in Timers, timer[i].phase = "fired"
  PROVE  timer[i].key \in Pilots
BY DEF Timed, Scheduler!TypeOK, Scheduler!Free, Scheduler!Phases

\* Every step keeps the types of the controller.
LEMMA StepType ==
  ASSUME ControllerTypeOK, Timed, [Next]_vars
  PROVE  ControllerTypeOK'
<1> USE PilotsAssumption
<1>1. ASSUME NEW p \in Pilots, NEW exists \in BOOLEAN, WritePilot(p, exists)
      PROVE  ControllerTypeOK'
  <2>1. revision + 1 \in Versions /\ 0 \in Versions
    BY <1>1 DEF WritePilot, ControllerTypeOK, Versions
  <2> QED
    BY <1>1, <2>1 DEF WritePilot, ControllerTypeOK, Versions, workerVars
<1>2. ASSUME NEW p \in Pilots, Observe(p) PROVE ControllerTypeOK'
  BY <1>2 DEF Observe, ControllerTypeOK, Versions, apiVars, workerVars
<1>3. ASSUME NEW p \in Pilots, Resolve(p) PROVE ControllerTypeOK'
  BY <1>3 DEF Resolve, ControllerTypeOK, Versions, apiVars, workerVars
<1>4. ASSUME NEW p \in Pilots, Release(p) PROVE ControllerTypeOK'
  BY <1>4 DEF Release, ControllerTypeOK, Versions, apiVars, workerVars
<1>5. ASSUME NEW p \in Pilots, ProcessItem(p) PROVE ControllerTypeOK'
  <2>1. CASE SkipPilot(p) \/ RetryPilot(p)
    BY <2>1 DEF SkipPilot, RetryPilot, Take, ControllerTypeOK, Versions,
                apiVars, workerVars
  <2>2. CASE BeginSync(p)
    BY <2>2, FoundType DEF BeginSync, Take, ControllerTypeOK, Versions, apiVars
  <2> QED
    BY <1>5, <2>1, <2>2 DEF ProcessItem
<1>6. CASE RunSyncFunc
  <2>1. errors' \in 0..MaxErrors
    BY <1>6 DEF RunSyncFunc, ControllerTypeOK
  <2>2. applied' \in [Pilots -> Versions] /\ err' \in BOOLEAN
    BY <1>6, ZenonT(60) DEF RunSyncFunc, ControllerTypeOK
  <2> QED
    BY <1>6, <2>1, <2>2 DEF RunSyncFunc, ControllerTypeOK, Versions, apiVars
<1>7. CASE AddWithKeyClears
  BY <1>7 DEF AddWithKeyClears, ControllerTypeOK, Versions, apiVars
<1>8. ASSUME NEW i \in Timers, AddWithKeyStores(i) PROVE ControllerTypeOK'
  <2>1. cur \in Pilots
    BY <1>8 DEF AddWithKeyStores, ControllerTypeOK
  <2> QED
    BY <1>8, <2>1 DEF AddWithKeyStores, ControllerTypeOK, Versions, apiVars
<1>9. ASSUME NEW i \in Timers, Callback(i) PROVE ControllerTypeOK'
  <2>1. delayed' \subseteq Pilots
    <3>1. CASE EnqueuePilot(i)
      BY <3>1, CallbackKey DEF EnqueuePilot, Scheduler!Process, ControllerTypeOK
    <3> QED
      BY <1>9, <3>1 DEF Callback, Fire, Finish, ControllerTypeOK
  <2> QED
    BY <1>9, <2>1 DEF Callback, Fire, EnqueuePilot, Finish, ControllerTypeOK,
                      Versions, apiVars, workerVars
<1>10. CASE UNCHANGED vars
  BY <1>10 DEF vars, ControllerTypeOK, Versions, apiVars, workerVars
<1> QED
  BY <1>1, <1>2, <1>3, <1>4, <1>5, <1>6, <1>7, <1>8, <1>9, <1>10, SMT, Z3, Zenon
     DEF Next, WorkerStep

\* The version of peer q that is in the lister and not yet synced is accounted
\* for by its key or by the worker.
Remembered(q) ==
  cache[q] # 0 /\ applied[q] # cache[q] =>
    \/ q \in queue \cup delayed
    \/ cur = q /\ (err \/ pc = "sync") /\ copy = cache[q]

\* The worker's copy stays current until the key is queued again.
LEMMA StepCopyCurrent ==
  ASSUME ControllerTypeOK, CopyCurrent, [Next]_vars
  PROVE  CopyCurrent'
<1> USE PilotsAssumption
<1>1. ASSUME NEW p \in Pilots, NEW exists \in BOOLEAN, WritePilot(p, exists)
      PROVE  CopyCurrent'
  BY <1>1 DEF WritePilot, workerVars, CopyCurrent
<1>2. ASSUME NEW p \in Pilots, Observe(p) PROVE CopyCurrent'
  <2>1. cur \in Pilots \ {p} => cache'[cur] = cache[cur]
    BY <1>2 DEF Observe, ControllerTypeOK
  <2>2. pc = "sync" => cur \in Pilots
    BY DEF ControllerTypeOK
  <2> QED
    BY <1>2, <2>1, <2>2 DEF Observe, workerVars, CopyCurrent
<1>3. ASSUME NEW p \in Pilots, Resolve(p) \/ Release(p) PROVE CopyCurrent'
  BY <1>3 DEF Resolve, Release, workerVars, CopyCurrent
<1>4. ASSUME NEW p \in Pilots, SkipPilot(p) \/ RetryPilot(p)
      PROVE  CopyCurrent'
  BY <1>4 DEF SkipPilot, RetryPilot, Take, workerVars, CopyCurrent
<1>5. ASSUME NEW p \in Pilots, BeginSync(p) PROVE CopyCurrent'
  BY <1>5 DEF BeginSync, Found, ThisPilot, CopyCurrent
<1>6. ASSUME RunSyncFunc \/ AddWithKeyClears PROVE CopyCurrent'
  BY <1>6 DEF RunSyncFunc, AddWithKeyClears, CopyCurrent
<1>7. ASSUME NEW i \in Timers, AddWithKeyStores(i) PROVE CopyCurrent'
  BY <1>7 DEF AddWithKeyStores, CopyCurrent
<1>8. ASSUME NEW i \in Timers, Callback(i) PROVE CopyCurrent'
  BY <1>8 DEF Callback, Fire, EnqueuePilot, Finish, workerVars, CopyCurrent
<1>9. CASE UNCHANGED vars
  BY <1>9 DEF vars, workerVars, CopyCurrent
<1> QED
  BY <1>1, <1>2, <1>3, <1>4, <1>5, <1>6, <1>7, <1>8, <1>9
     DEF Next, ProcessItem, WorkerStep

\* Every step keeps account of the versions that are still to be synced.
LEMMA StepRemembers ==
  ASSUME ControllerTypeOK, CopyCurrent, NoLostWakeup, [Next]_vars
  PROVE  NoLostWakeup'
<1> USE PilotsAssumption
<1> SUFFICES ASSUME NEW q \in Peers PROVE Remembered(q)'
  BY DEF NoLostWakeup, Remembered, Peers
<1>a. q \in Pilots /\ Root[q] = Root[This] /\ Remembered(q)
  BY DEF Peers, NoLostWakeup, Remembered
<1>1. ASSUME NEW p \in Pilots, NEW exists \in BOOLEAN, WritePilot(p, exists)
      PROVE  Remembered(q)'
  BY <1>1, <1>a DEF WritePilot, workerVars, Remembered
<1>2. ASSUME NEW p \in Pilots, Observe(p) PROVE Remembered(q)'
  <2>1. q # p => cache'[q] = cache[q]
    BY <1>2, <1>a, SMT, Z3, Zenon DEF Observe, ControllerTypeOK
  <2> QED
    BY <1>2, <1>a, <2>1 DEF Observe, workerVars, Remembered
<1>3. ASSUME NEW p \in Pilots, Resolve(p) \/ Release(p) PROVE Remembered(q)'
  BY <1>3, <1>a DEF Resolve, Release, workerVars, Remembered
<1>4. ASSUME NEW p \in Pilots, SkipPilot(p) PROVE Remembered(q)'
  <2>1. q = p => cache[q] = 0
    BY <1>4, <1>a, SMT, Z3, Zenon DEF SkipPilot, Found, ThisPilot, IsPeer
  <2> QED
    BY <1>4, <1>a, <2>1 DEF SkipPilot, Take, workerVars, Remembered
<1>5. ASSUME NEW p \in Pilots, RetryPilot(p) PROVE Remembered(q)'
  BY <1>5, <1>a DEF RetryPilot, Take, workerVars, Remembered
<1>6. ASSUME NEW p \in Pilots, BeginSync(p) PROVE Remembered(q)'
  <2>1. cur # q
    BY <1>6, <1>a DEF BeginSync, Take, ControllerTypeOK
  <2>2. q = p /\ cache[q] # 0 => copy' = cache[q]
    BY <1>6 DEF BeginSync, Found, ThisPilot
  <2> QED
    BY <1>6, <1>a, <2>1, <2>2 DEF BeginSync, Take, Remembered
<1>7. CASE RunSyncFunc
  <2>1. UNCHANGED <<cache, queue, delayed, cur, copy>> /\ pc = "sync"
    BY <1>7 DEF RunSyncFunc
  <2>2. CASE err' = FALSE /\ applied' = [applied EXCEPT ![cur] = copy]
    <3>1. applied'[q] = IF q = cur THEN copy ELSE applied[q]
      BY <2>2, <1>a DEF ControllerTypeOK
    <3> QED
      BY <1>a, <2>1, <3>1 DEF Remembered, CopyCurrent
  <2>3. CASE err' = TRUE /\ applied' = applied
    BY <1>a, <2>1, <2>3 DEF Remembered
  <2> QED
    BY <1>7, <2>2, <2>3, Zenon DEF RunSyncFunc
<1>8. CASE AddWithKeyClears
  BY <1>8, <1>a DEF AddWithKeyClears, Remembered
<1>9. ASSUME NEW i \in Timers, AddWithKeyStores(i) PROVE Remembered(q)'
  BY <1>9, <1>a DEF AddWithKeyStores, Remembered
<1>10. ASSUME NEW i \in Timers, Callback(i) PROVE Remembered(q)'
  BY <1>10, <1>a DEF Callback, Fire, EnqueuePilot, Finish, workerVars,
                     Remembered
<1>11. CASE UNCHANGED vars
  BY <1>11, <1>a DEF vars, workerVars, Remembered
<1> QED
  BY <1>1, <1>2, <1>3, <1>4, <1>5, <1>6, <1>7, <1>8, <1>9, <1>10, <1>11
     DEF Next, ProcessItem, WorkerStep

\* The invariant holds at first: what the first list finds is queued.
LEMMA InitIInv == Init => IInv
<1> SUFFICES ASSUME Init PROVE IInv
  OBVIOUS
<1> USE PilotsAssumption
<1>1. ControllerTypeOK
  <2>1. 0 \in Versions /\ 1 \in Versions /\ 0 \in 0..MaxErrors
    BY DEF Versions
  <2>2. api \in [Pilots -> Versions] /\ cache \in [Pilots -> Versions]
    BY <2>1 DEF Init
  <2>3. applied \in [Pilots -> Versions]
    BY <2>1 DEF Init
  <2> QED
    BY <2>1, <2>2, <2>3, Zenon DEF Init, ControllerTypeOK
<1>2. Scheduler!Init
  BY DEF Init, Scheduler!Init, Scheduler!Free
<1>3. NoLostWakeup
  BY DEF Init, NoLostWakeup, Peers
<1>4. CopyCurrent
  BY DEF Init, CopyCurrent
<1> QED
  BY <1>1, <1>2, <1>3, <1>4, InitTimed DEF IInv

\* Every step preserves it.
LEMMA StepIInv == IInv /\ [Next]_vars => IInv'
<1> SUFFICES ASSUME IInv, [Next]_vars PROVE IInv'
  OBVIOUS
<1>1. Timed'
  BY PilotsAssumption, SchedulerStep, StepTimed DEF IInv
<1> QED
  BY <1>1, StepType, StepCopyCurrent, StepRemembers DEF IInv

-----------------------------------------------------------------------------
(* The theorems.                                                           *)

\* The types of the controller and of its timers.
THEOREM TypeCorrect == Spec => []TypeOK
<1>1. IInv => TypeOK
  BY DEF IInv, TypeOK, Timed, Scheduler!TypeOK, Scheduler!Phases, Scheduler!Free
<1> QED
  BY <1>1, InitIInv, StepIInv, PTL DEF Spec

\* controller.go processNextWorkItem and sync: whatever the order of events,
\* failures and retries, the newest version of a peer in the lister has been
\* synced, or its key is queued, delayed or in the hands of the worker.
THEOREM NothingForgotten == Spec => []NoLostWakeup
<1>1. IInv => NoLostWakeup
  BY DEF IInv
<1> QED
  BY <1>1, InitIInv, StepIInv, PTL DEF Spec

\* The peer controller implements the ScheduledWorkQueue with one caller, its
\* worker: the two critical sections of AddWithKey are its "clear" and "store"
\* steps.
THEOREM ImplementsScheduler == Spec => UsesScheduler
<1>1. Init => Scheduler!Init
  BY PilotsAssumption DEF Init, Scheduler!Init, Scheduler!Free
<1>2. IInv /\ [Next]_vars => [Scheduler!Next]_(Scheduler!schedVars)
  BY SchedulerStep DEF IInv
<1> QED
  BY <1>1, <1>2, InitIInv, StepIInv, PTL DEF Spec, UsesScheduler, Scheduler!Spec

\* So a resync timer of a peer is cancelled before the next one is armed: no
\* peer ever has two timers running (controller.go, the deferred AddWithKey).
THEOREM OneTimerPerPeer == Spec => []Scheduler!PreviousCancelled
<1>1. IInv => Scheduler!PreviousCancelled
  BY DEF IInv, Timed, Tracked, Scheduler!PreviousCancelled, Scheduler!Armed
<1> QED
  BY <1>1, InitIInv, StepIInv, PTL DEF Spec
=============================================================================

-------------------------- MODULE ScheduledWorkQueue --------------------------
(***************************************************************************)
(* The timers of pkg/pilot/genericpilot/controller/scheduler.  AddWithKey  *)
(* takes workLock twice, once inside clearTimer and once to store the new  *)
(* timer; the function of a timer runs in a goroutine of its own and ends  *)
(* with a deferred clearTimer of its key.  Each critical section is one    *)
(* step.  A duration is abstracted away: an armed timer may fire at any    *)
(* moment.  Timers are named from a pool and go back to it when they are   *)
(* stopped or their function has ended.                                    *)
(***************************************************************************)
EXTENDS Integers

CONSTANTS Keys,     \* keys given to AddWithKey and Forget
          Callers,  \* goroutines that call AddWithKey and Forget
          Timers,   \* the pool of timers
          None      \* neither a key nor a timer

VARIABLES work,     \* the map from keys to timers
          timer,    \* what each timer is doing
          calls     \* the key a caller is about to store a timer for

schedVars == <<work, timer, calls>>

Phases == {"armed", "fired", "processed"}
Free   == [key |-> None, phase |-> "free"]

TypeOK ==
  /\ work \in [Keys -> Timers \cup {None}]
  /\ timer \in [Timers -> [key: Keys, phase: Phases] \cup {Free}]
  /\ calls \in [Callers -> Keys \cup {None}]

Init ==
  /\ work = [k \in Keys |-> None]
  /\ timer = [i \in Timers |-> Free]
  /\ calls = [t \in Callers |-> None]

\* The timers once the one stored under k is stopped: Stop has no effect on a
\* timer that has fired.
Stopped(k) ==
  [i \in Timers |-> IF i = work[k] /\ timer[i].phase = "armed"
                    THEN Free ELSE timer[i]]

ClearTimer(k) ==
  /\ work' = [work EXCEPT ![k] = None]
  /\ timer' = Stopped(k)

AddClears(t, k) ==
  /\ calls[t] = None
  /\ ClearTimer(k)
  /\ calls' = [calls EXCEPT ![t] = k]

StoreTimer(k, i) ==
  /\ timer[i] = Free
  /\ timer' = [timer EXCEPT ![i] = [key |-> k, phase |-> "armed"]]
  /\ work' = [work EXCEPT ![k] = i]

AddStores(t, i) ==
  /\ calls[t] # None
  /\ StoreTimer(calls[t], i)
  /\ calls' = [calls EXCEPT ![t] = None]

Forget(t, k) ==
  /\ calls[t] = None
  /\ ClearTimer(k)
  /\ UNCHANGED calls

Fire(i) ==
  /\ timer[i].phase = "armed"
  /\ timer' = [timer EXCEPT ![i].phase = "fired"]
  /\ UNCHANGED work

\* processFunc(obj)
Process(i) ==
  /\ timer[i].phase = "fired"
  /\ timer' = [timer EXCEPT ![i].phase = "processed"]
  /\ UNCHANGED work

\* The deferred clearTimer(key), whichever timer is stored under the key now.
Finish(i) ==
  LET k == timer[i].key IN
  /\ timer[i].phase = "processed"
  /\ work' = [work EXCEPT ![k] = None]
  /\ timer' = [Stopped(k) EXCEPT ![i] = Free]

Next ==
  \/ \E t \in Callers, k \in Keys : AddClears(t, k) \/ Forget(t, k)
  \/ \E t \in Callers, i \in Timers : AddStores(t, i)
  \/ \E i \in Timers : (Fire(i) \/ Process(i) \/ Finish(i)) /\ UNCHANGED calls

Spec == Init /\ [][Next]_schedVars

-----------------------------------------------------------------------------
(* Properties.                                                             *)

Armed(k) == {i \in Timers : timer[i].key = k /\ timer[i].phase = "armed"}

\* scheduler.go: "If an existing Timer for obj already exists, the previous
\* timer will be cancelled."  So no key has two timers that will still fire.
PreviousCancelled ==
  \A k \in Keys : \A i, j \in Armed(k) : i = j
=============================================================================

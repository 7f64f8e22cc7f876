----------------------------- MODULE GenericPilot ------------------------------
(***************************************************************************)
(* The life of one pilot process (pkg/pilot/genericpilot): the worker that *)
(* runs syncPilot, the main goroutine of Run with its stop, the hooks both *)
(* execute under the lock of hook.Hooks, the database process under the    *)
(* process manager, and the leader elector.                                *)
(*                                                                         *)
(* GenericPilot.lock is taken by syncPilot alone, and there is one worker, *)
(* so it orders nothing and is left out.  Hooks, the database and the API  *)
(* may fail at any time; an error of syncPilot brings its key back, so the *)
(* worker may always begin another sync.                                   *)
(***************************************************************************)
EXTENDS Integers

Phases == {"PreStart", "PostStart", "PreStop", "PostStop"}

CONSTANT NumHooks   \* the number of hooks of each phase

ASSUME HooksAssumption == NumHooks \in [Phases -> Nat]

VARIABLES
  listed, cached,    \* this Pilot is in the lister, is in cachedThisPilot
  worker,            \* the step of syncPilot the worker is at
  this,              \* it syncs this pilot, not a peer
  main,              \* the step of Run or stop the main goroutine is at
  result,            \* what Run returned
  shutdown,          \* the field of the same name
  executed, hookLock,\* hooks done in each phase; the holder of Hooks.lock
  proc, failed, told,\* the database process, its exit, whether signalled
  status,            \* the Started condition of the Pilot resource
  elector, leading, starting, \* elector.Run, its flag, a late startLeading
  signals            \* signals received

pilotVars   == <<listed, cached>>
workerVars  == <<worker, this, status>>
mainVars    == <<main, result, shutdown>>
hookVars    == <<executed, hookLock>>
procVars    == <<proc, failed, told>>
electorVars == <<elector, leading, starting>>
vars == <<pilotVars, workerVars, mainVars, hookVars, procVars, electorVars,
          signals>>

\* "exited": not waited for yet; "waited": the wait has returned but
\* ProcessState is not set; "reaped": it is set; "done": doneCh is closed.
ProcStates == {"nil", "made", "running", "exited", "waited", "reaped", "done",
               "killed"}

TypeOK ==
  /\ listed \in BOOLEAN /\ cached \in BOOLEAN
  /\ worker \in {"idle", "prestart", "construct", "check", "start",
                 "poststart", "syncfunc", "lead", "status"}
  /\ this \in BOOLEAN /\ status \in BOOLEAN
  /\ main \in {"select", "this", "stop", "check", "prestop", "signal", "wait",
               "poststop", "returned", "exited"}
  /\ result \in {"none", "ok", "error", "killed"}
  /\ (main \in {"returned", "exited"}) = (result # "none")
  /\ shutdown \in BOOLEAN
  /\ executed \in [Phases -> Nat]
  /\ \A p \in Phases : executed[p] <= NumHooks[p]
  /\ hookLock \in {"none", "worker", "main"}
  /\ proc \in ProcStates /\ failed \in BOOLEAN /\ told \in BOOLEAN
  /\ elector \in {"trying", "held", "returned"}
  /\ leading \in BOOLEAN /\ starting \in BOOLEAN
  /\ signals \in 0..2

Init ==
  /\ listed \in BOOLEAN /\ cached = FALSE
  /\ worker = "idle" /\ this = FALSE /\ status = FALSE
  /\ main = "select" /\ result = "none" /\ shutdown = FALSE
  /\ executed = [p \in Phases |-> 0] /\ hookLock = "none"
  /\ proc = "nil" /\ failed = FALSE /\ told = FALSE
  /\ elector = "trying" /\ leading = FALSE /\ starting = FALSE
  /\ signals = 0

Alive == main # "exited"

Running == proc \in {"running", "exited", "waited"}

\* ThisPilot finds a resource.
ThisPilotKnown == listed \/ cached

-----------------------------------------------------------------------------
(* Hooks.Transition, for either goroutine.                                 *)

LockedBy(who) == hookLock \in {"none", who}

\* Mutant: a hook is executed whether or not it was before.
RunHookAgain(who, phase) ==
  /\ LockedBy(who)
  /\ executed' = [executed EXCEPT ![phase] = @ + 1]
  /\ hookLock' = who

\* The next hook of the phase that has not been executed yet succeeds.
RunHook(who, phase) ==
  /\ LockedBy(who) /\ executed[phase] < NumHooks[phase]
  /\ executed' = [executed EXCEPT ![phase] = @ + 1]
  /\ hookLock' = who

FailHook(who, phase) ==
  /\ LockedBy(who) /\ executed[phase] < NumHooks[phase]
  /\ hookLock' = "none"
  /\ UNCHANGED executed

EndPhase(who, phase) ==
  /\ LockedBy(who) /\ executed[phase] = NumHooks[phase]
  /\ hookLock' = "none"
  /\ UNCHANGED executed

-----------------------------------------------------------------------------
(* The worker: Controller.sync up to syncFunc, then syncPilot.             *)

Goto(step) ==
  /\ worker' = step
  /\ UNCHANGED <<this, status>>

\* Mutant: cachedThisPilot is not stored.
BeginSyncUncached(isThis) ==
  /\ Alive /\ worker = "idle" /\ ThisPilotKnown
  /\ worker' = IF isThis THEN "prestart" ELSE "lead"
  /\ this' = isThis
  /\ UNCHANGED <<pilotVars, status, mainVars, hookVars, procVars,
                 electorVars, signals>>

\* A peer goes straight to the deferred LeaderElectedSyncFunc.
BeginSync(isThis) ==
  /\ Alive /\ worker = "idle" /\ ThisPilotKnown
  /\ worker' = IF isThis THEN "prestart" ELSE "lead"
  /\ this' = isThis
  /\ cached' = (cached \/ isThis)
  /\ UNCHANGED <<listed, status, mainVars, hookVars, procVars, electorVars,
                 signals>>

\* Mutant: a failed hook returns at once, with nothing deferred.
WorkerHooksReturn(phase, step, next) ==
  /\ Alive /\ worker = step
  /\ \/ RunHook("worker", phase) /\ UNCHANGED workerVars
     \/ FailHook("worker", phase) /\ Goto("idle")
     \/ EndPhase("worker", phase) /\ Goto(next)
  /\ UNCHANGED <<pilotVars, mainVars, procVars, electorVars, signals>>

WorkerHooks(phase, step, next) ==
  /\ Alive /\ worker = step
  /\ \/ RunHook("worker", phase) /\ UNCHANGED workerVars
     \/ FailHook("worker", phase) /\ Goto("lead")
     \/ EndPhase("worker", phase) /\ Goto(next)
  /\ UNCHANGED <<pilotVars, mainVars, procVars, electorVars, signals>>

\* constructProcess, unless there is a process; CmdFunc may fail.
Construct ==
  /\ Alive /\ worker = "construct"
  /\ \/ proc # "nil" /\ Goto("check") /\ UNCHANGED proc
     \/ proc = "nil" /\ Goto("check") /\ proc' = "made"
     \/ proc = "nil" /\ Goto("lead") /\ UNCHANGED proc
  /\ UNCHANGED <<pilotVars, mainVars, hookVars, failed, told, electorVars,
                 signals>>

CheckRunning ==
  /\ Alive /\ worker = "check"
  /\ Goto(IF ~Running /\ ~shutdown THEN "start" ELSE "poststart")
  /\ UNCHANGED <<pilotVars, mainVars, hookVars, procVars, electorVars,
                 signals>>

\* process.Start: a command that has run cannot be started again.
Start ==
  /\ Alive /\ worker = "start"
  /\ \/ proc = "made" /\ proc' = "running" /\ Goto("poststart")
     \/ Goto("lead") /\ UNCHANGED proc
  /\ UNCHANGED <<pilotVars, mainVars, hookVars, failed, told, electorVars,
                 signals>>

\* Mutant: the leader's function is skipped after SyncFunc.
SyncFuncThenStatus ==
  /\ Alive /\ worker = "syncfunc"
  /\ Goto("status")
  /\ UNCHANGED <<pilotVars, mainVars, hookVars, procVars, electorVars,
                 signals>>

\* SyncFunc; its error only brings the key back.
SyncFunc ==
  /\ Alive /\ worker = "syncfunc"
  /\ Goto("lead")
  /\ UNCHANGED <<pilotVars, mainVars, hookVars, procVars, electorVars,
                 signals>>

\* The deferred LeaderElectedSyncFunc, whatever came before it.
Lead ==
  /\ Alive /\ worker = "lead"
  /\ Goto(IF this THEN "status" ELSE "idle")
  /\ UNCHANGED <<pilotVars, mainVars, hookVars, procVars, electorVars,
                 signals>>

\* The deferred updatePilotStatus, whose update may be refused.
UpdatePilotStatus(accepted) ==
  /\ Alive /\ worker = "status"
  /\ worker' = "idle"
  /\ status' = IF accepted THEN Running ELSE status
  /\ UNCHANGED <<pilotVars, this, mainVars, hookVars, procVars, electorVars,
                 signals>>

WorkerStep ==
  \/ \E isThis \in BOOLEAN : BeginSync(isThis)
  \/ WorkerHooks("PreStart", "prestart", "construct")
  \/ Construct \/ CheckRunning \/ Start
  \/ WorkerHooks("PostStart", "poststart", "syncfunc")
  \/ SyncFunc \/ Lead
  \/ \E accepted \in BOOLEAN : UpdatePilotStatus(accepted)

-----------------------------------------------------------------------------
(* The main goroutine: Run, then stop.                                     *)

MainGoto(step) ==
  /\ main' = step
  /\ UNCHANGED <<result, shutdown>>

Return(r) ==
  /\ main' = "returned" /\ result' = r
  /\ UNCHANGED shutdown

\* The select of Run.  The controller's channel cannot be ready: its Run ends
\* only when ctrlStopCh is closed, on return.
Select ==
  /\ main = "select"
  /\ signals > 0 \/ proc = "done" \/ elector = "returned"
  /\ MainGoto("this")
  /\ UNCHANGED <<pilotVars, workerVars, hookVars, procVars, electorVars,
                 signals>>

FindThisPilot ==
  /\ main = "this"
  /\ IF ThisPilotKnown THEN MainGoto("stop") ELSE Return("error")
  /\ UNCHANGED <<pilotVars, workerVars, hookVars, procVars, electorVars,
                 signals>>

SetShutdown ==
  /\ main = "stop"
  /\ main' = "check" /\ shutdown' = TRUE
  /\ UNCHANGED <<pilotVars, workerVars, result, hookVars, procVars,
                 electorVars, signals>>

\* Mutant: stop goes on whether or not the process runs.
StopUnchecked ==
  /\ main = "check"
  /\ MainGoto("wait")
  /\ UNCHANGED <<pilotVars, workerVars, hookVars, procVars, electorVars,
                 signals>>

StopIfRunning ==
  /\ main = "check"
  /\ IF Running THEN MainGoto("prestop") ELSE Return("ok")
  /\ UNCHANGED <<pilotVars, workerVars, hookVars, procVars, electorVars,
                 signals>>

MainHooks(phase, step, After) ==
  /\ main = step
  /\ \/ RunHook("main", phase) /\ UNCHANGED mainVars
     \/ FailHook("main", phase) /\ Return("error")
     \/ EndPhase("main", phase) /\ After
  /\ UNCHANGED <<pilotVars, workerVars, procVars, electorVars, signals>>

\* Mutant: Stop does not wait for the process to exit.
SignalAndGoOn ==
  /\ main = "signal"
  /\ \/ ~Running /\ UNCHANGED told
     \/ proc \in {"running", "exited"} /\ told' = TRUE
  /\ MainGoto("poststop")
  /\ UNCHANGED <<pilotVars, workerVars, hookVars, proc, failed, electorVars,
                 signals>>

\* process.Stop: a process that has exited by now has no error to return
\* until doneCh is closed, and one that is just being waited for cannot be
\* signalled.
SignalProcess ==
  /\ main = "signal"
  /\ \/ /\ ~Running
        /\ IF proc = "done" /\ failed THEN Return("error")
                                      ELSE MainGoto("poststop")
        /\ UNCHANGED told
     \/ proc = "waited" /\ Return("error") /\ UNCHANGED told
     \/ proc \in {"running", "exited"} /\ MainGoto("wait") /\ told' = TRUE
  /\ UNCHANGED <<pilotVars, workerVars, hookVars, proc, failed, electorVars,
                 signals>>

WaitProcess ==
  /\ main = "wait" /\ proc = "done"
  /\ IF failed THEN Return("error") ELSE MainGoto("poststop")
  /\ UNCHANGED <<pilotVars, workerVars, hookVars, procVars, electorVars,
                 signals>>

\* The pilot is the container's first process: all others die with it.
ExitNow ==
  /\ main' = "exited"
  /\ proc' = IF proc = "running" THEN "killed" ELSE proc
  /\ UNCHANGED <<pilotVars, workerVars, shutdown, hookVars, failed, told,
                 electorVars>>

Exit == main = "returned" /\ ExitNow /\ UNCHANGED <<result, signals>>

MainStep ==
  \/ Select \/ FindThisPilot \/ SetShutdown \/ StopIfRunning
  \/ MainHooks("PreStop", "prestop", MainGoto("signal"))
  \/ SignalProcess \/ WaitProcess
  \/ MainHooks("PostStop", "poststop", Return("ok"))
  \/ Exit

-----------------------------------------------------------------------------
(* The process, the elector and the world.                                 *)

\* The database ends, by itself or because it was told to.
ProcessExits ==
  /\ Alive /\ proc = "running"
  /\ proc' = "exited" /\ failed' \in BOOLEAN
  /\ UNCHANGED <<pilotVars, workerVars, mainVars, hookVars, told,
                 electorVars, signals>>

\* startWait: cmd.Wait, its ProcessState, doneCh.
StartWait ==
  /\ Alive
  /\ \/ proc = "exited" /\ proc' = "waited"
     \/ proc = "waited" /\ proc' = "reaped"
     \/ proc = "reaped" /\ proc' = "done"
  /\ UNCHANGED <<pilotVars, workerVars, mainVars, hookVars, failed, told,
                 electorVars, signals>>

\* OnStartedLeading is called in a goroutine of its own, OnStoppedLeading just
\* before elector.Run returns.
Elect ==
  /\ Alive
  /\ \/ /\ elector = "trying" /\ elector' = "held"
        /\ starting' = TRUE /\ UNCHANGED leading
     \/ /\ starting /\ starting' = FALSE /\ leading' = TRUE
        /\ UNCHANGED elector
     \/ /\ elector # "returned" /\ elector' = "returned"
        /\ leading' = FALSE /\ UNCHANGED starting
  /\ UNCHANGED <<pilotVars, workerVars, mainVars, hookVars, procVars, signals>>

\* The Pilot resource comes and goes in the lister.
PilotChanges ==
  /\ Alive /\ listed' = ~listed
  /\ UNCHANGED <<cached, workerVars, mainVars, hookVars, procVars,
                 electorVars, signals>>

\* The first signal closes StopCh, a second one ends the pilot at once.
Signal ==
  /\ Alive /\ signals < 2 /\ signals' = signals + 1
  /\ IF signals = 0
     THEN UNCHANGED <<pilotVars, workerVars, mainVars, hookVars, procVars,
                      electorVars>>
     ELSE ExitNow /\ result' = IF result = "none" THEN "killed" ELSE result

Next ==
  \/ WorkerStep \/ MainStep \/ ProcessExits \/ StartWait
  \/ Elect \/ PilotChanges \/ Signal

Spec == Init /\ [][Next]_vars

\* Goroutines run; a process that is told to stop does; the API server does
\* not refuse every update for ever.
FairSpec ==
  /\ Spec
  /\ WF_vars(WorkerStep) /\ WF_vars(MainStep) /\ WF_vars(StartWait)
  /\ WF_vars(told /\ ProcessExits)
  /\ SF_vars(UpdatePilotStatus(TRUE)) /\ SF_vars(BeginSync(TRUE))

-----------------------------------------------------------------------------
(* Properties.                                                             *)

\* The database only ever runs after every PreStart hook has succeeded.
PreparedBeforeStart ==
  proc \notin {"nil", "made"} => executed["PreStart"] = NumHooks["PreStart"]

\* The PostStop hooks find the database gone, although the process may exit
\* by itself anywhere in stop.
PostStopAfterExit ==
  executed["PostStop"] > 0 => proc \in {"reaped", "done"}

\* The database is never told to stop before the PreStop hooks are done.
PreStopBeforeSignal ==
  told => executed["PreStop"] = NumHooks["PreStop"]

\* The hooks of syncPilot and stop keep their places around the start, the
\* signal and the exit of the database, however the two goroutines, failing
\* hooks and a database that exits by itself interleave.
HooksInOrder ==
  PreparedBeforeStart /\ PreStopBeforeSignal /\ PostStopAfterExit

\* A pilot that gives up because it cannot find its own resource has not
\* started the database: cachedThisPilot is there before the first start.
UnknownMeansNotStarted ==
  [][main = "this" /\ main' = "returned" => proc = "nil"]_vars

\* Once a signal arrives, or its database is gone, the pilot exits: stop never
\* waits for a process that was not started, for a hook lock or for a condition
\* that stays false.
PilotEnds == signals > 0 \/ proc = "done" ~> main = "exited"

\* "we defer this to the end of execution to ensure it is run even if a part
\* of the sync errors": the Started condition becomes true while the database
\* runs, even if a hook fails every time.
StatusFollowsProcess ==
  proc = "running" /\ main = "select" ~>
    status \/ proc # "running" \/ main # "select"

\* "we defer this to ensure it is run regardless of whether the pilot has
\* actually started": a leader keeps running its function, whether or not the
\* hooks and the database let it sync its own pilot.
LeaderKeepsWorking ==
  <>[](leading /\ main = "select" /\ ThisPilotKnown) => []<>(worker = "lead")

\* stop logs "Waiting for process exit and hooks to execute", and shutdown "is
\* true when the process has been told to gracefully exit": a pilot that
\* returns without an error has not left the database to be killed.
StopIsGraceful == proc = "killed" => result # "ok"
=============================================================================

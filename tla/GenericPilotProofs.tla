-------------------------- MODULE GenericPilotProofs --------------------------
(* The order of hooks and process, for any number of hooks.                *)
EXTENDS GenericPilot, TLAPS

USE HooksAssumption

Done(phase) == executed[phase] = NumHooks[phase]
Started     == proc \notin {"nil", "made"}
Gone        == proc \in {"reaped", "done"}

\* Where each goroutine is says which hooks are behind it and what has become
\* of the process: the facts that syncPilot and stop establish by their order.
WorkerOrder ==
  /\ worker \in {"construct", "check", "start", "poststart", "syncfunc"} =>
       Done("PreStart")
  /\ Started => Done("PreStart")

MainOrder ==
  /\ main \in {"signal", "wait", "poststop"} => Done("PreStop")
  /\ told => Done("PreStop")
  /\ main \in {"prestop", "signal", "wait"} => Started /\ proc # "killed"
  /\ main = "poststop" => Gone
  /\ executed["PostStop"] > 0 => Gone

Inv == TypeOK /\ WorkerOrder /\ MainOrder

\* What a hook, its failure or the end of a phase does to the hooks: the ones
\* of other phases stay, and a finished phase stays finished (hook.go
\* Transition).
LEMMA HookEffect ==
  ASSUME TypeOK, NEW who \in {"worker", "main"}, NEW phase \in Phases,
         RunHook(who, phase) \/ FailHook(who, phase) \/ EndPhase(who, phase)
  PROVE  /\ executed' \in [Phases -> Nat]
         /\ \A p \in Phases : executed'[p] <= NumHooks[p]
         /\ \A p \in Phases : p # phase => executed'[p] = executed[p]
         /\ \A p \in Phases : Done(p) => Done(p)'
         /\ hookLock' \in {"none", "worker", "main"}
BY DEF TypeOK, RunHook, FailHook, EndPhase, Done

\* Nothing has happened at first.
LEMMA InitInv == Init => Inv
<1> SUFFICES ASSUME Init PROVE Inv
  OBVIOUS
<1>1. executed \in [Phases -> Nat] /\ \A p \in Phases : executed[p] = 0
  BY DEF Init
<1>2. listed \in BOOLEAN /\ cached \in BOOLEAN /\ this \in BOOLEAN
      /\ status \in BOOLEAN /\ shutdown \in BOOLEAN /\ failed \in BOOLEAN
      /\ told \in BOOLEAN /\ leading \in BOOLEAN /\ starting \in BOOLEAN
  BY Zenon DEF Init
<1>3. TypeOK
  BY <1>1, <1>2 DEF Init, TypeOK, ProcStates
<1>4. WorkerOrder /\ MainOrder
  BY <1>1, SMTT(30), Z3T(30) DEF Init, WorkerOrder, MainOrder, Started, Phases
<1> QED
  BY <1>3, <1>4 DEF Inv

\* A step of the worker.
LEMMA WorkerInv == Inv /\ WorkerStep => Inv'
<1> SUFFICES ASSUME Inv, WorkerStep PROVE Inv'
  OBVIOUS
<1> USE DEF Inv, TypeOK, WorkerOrder, MainOrder, Started, Gone, Done, Goto,
            pilotVars, mainVars, hookVars, procVars, electorVars
<1>1. ASSUME NEW isThis \in BOOLEAN, BeginSync(isThis) PROVE Inv'
  BY <1>1, SMT, Z3, Zenon DEF BeginSync
<1>2. CASE WorkerHooks("PreStart", "prestart", "construct")
  BY <1>2, HookEffect DEF WorkerHooks, workerVars, EndPhase, Phases
<1>3. CASE WorkerHooks("PostStart", "poststart", "syncfunc")
  BY <1>3, HookEffect DEF WorkerHooks, workerVars, Phases
<1>4. CASE Construct
  BY <1>4 DEF Construct, ProcStates
<1>5. CASE CheckRunning
  BY <1>5 DEF CheckRunning
<1>6. CASE Start
  BY <1>6 DEF Start, ProcStates
<1>7. CASE SyncFunc \/ Lead
  BY <1>7 DEF SyncFunc, Lead
<1>8. ASSUME NEW accepted \in BOOLEAN, UpdatePilotStatus(accepted) PROVE Inv'
  <2>1. status' \in BOOLEAN
    <3>1. Running \in BOOLEAN
      BY DEF Running
    <3>2. status \in BOOLEAN
      OBVIOUS
    <3>3. status' = IF accepted THEN Running ELSE status
      BY <1>8, Zenon DEF UpdatePilotStatus
    <3> QED
      BY <3>1, <3>2, <3>3, Zenon
  <2> QED
    BY <1>8, <2>1 DEF UpdatePilotStatus
<1> QED
  BY <1>1, <1>2, <1>3, <1>4, <1>5, <1>6, <1>7, <1>8 DEF WorkerStep

\* The end of the pilot kills a running process and leaves the rest alone.
LEMMA ExitInv ==
  ASSUME Inv, ExitNow, result' \in {"ok", "error", "killed"}, signals' \in 0..2
  PROVE  Inv'
BY SMTT(30), Z3T(30) DEF ExitNow, Inv, TypeOK, WorkerOrder, MainOrder, Started, Gone,
   Done, ProcStates, pilotVars, workerVars, hookVars, electorVars

\* A step of the main goroutine.
LEMMA MainInv == Inv /\ MainStep => Inv'
<1> SUFFICES ASSUME Inv, MainStep PROVE Inv'
  OBVIOUS
<1> USE DEF Inv, TypeOK, WorkerOrder, MainOrder, Started, Gone, Done, MainGoto,
            Return, pilotVars, workerVars, hookVars, procVars, electorVars
<1>1. CASE Select
  BY <1>1 DEF Select
<1>2. CASE FindThisPilot
  BY <1>2 DEF FindThisPilot
<1>3. CASE SetShutdown
  BY <1>3 DEF SetShutdown
<1>4. CASE StopIfRunning
  BY <1>4, SMT, Z3, Zenon DEF StopIfRunning, Running
<1>5. CASE MainHooks("PreStop", "prestop", MainGoto("signal"))
  BY <1>5, HookEffect, SMT, Z3, Zenon DEF MainHooks, mainVars, EndPhase, Phases
<1>6. CASE SignalProcess
  <2>1. told' \in BOOLEAN
    BY <1>6, Zenon DEF SignalProcess
  <2>2. TypeOK' /\ WorkerOrder'
    BY <1>6, <2>1 DEF SignalProcess
  <2>3. MainOrder'
    BY <1>6 DEF SignalProcess, Running, ProcStates
  <2> QED
    BY <2>2, <2>3
<1>7. CASE WaitProcess
  BY <1>7 DEF WaitProcess
<1>8. CASE MainHooks("PostStop", "poststop", Return("ok"))
  BY <1>8, HookEffect, SMT, Z3, Zenon DEF MainHooks, mainVars, Phases
<1>9. CASE Exit
  BY <1>9, ExitInv, SMTT(30), Z3T(30) DEF Exit
<1> QED
  BY <1>1, <1>2, <1>3, <1>4, <1>5, <1>6, <1>7, <1>8, <1>9, Zenon DEF MainStep

\* A step of the process, the elector, the lister or a signal.
LEMMA WorldInv ==
  Inv /\ (ProcessExits \/ StartWait \/ Elect \/ PilotChanges \/ Signal) => Inv'
<1> SUFFICES ASSUME Inv,
                    ProcessExits \/ StartWait \/ Elect \/ PilotChanges \/ Signal
             PROVE  Inv'
  OBVIOUS
<1> USE DEF Inv, TypeOK, WorkerOrder, MainOrder, Started, Gone, Done,
            pilotVars, workerVars, mainVars, hookVars, procVars, electorVars
<1>1. CASE ProcessExits
  BY <1>1 DEF ProcessExits, ProcStates
<1>2. CASE StartWait
  BY <1>2 DEF StartWait, ProcStates
<1>3. CASE Elect
  <2>1. leading' \in BOOLEAN /\ starting' \in BOOLEAN
    BY <1>3, Zenon DEF Elect
  <2> QED
    BY <1>3, <2>1 DEF Elect
<1>4. CASE PilotChanges
  BY <1>4, SMT, Z3, Zenon DEF PilotChanges
<1>5. CASE Signal
  <2>1. CASE signals = 0
    BY <1>5, <2>1 DEF Signal
  <2>2. CASE signals # 0
    <3>1. ExitNow /\ result' \in {"ok", "error", "killed"} /\ signals' \in 0..2
      BY <1>5, <2>2 DEF Signal
    <3> QED
      BY <3>1, ExitInv
  <2> QED
    BY <2>1, <2>2
<1> QED
  BY <1>1, <1>2, <1>3, <1>4, <1>5

\* The invariant holds in every reachable state.
THEOREM InvHolds == Spec => []Inv
<1>1. Inv /\ UNCHANGED vars => Inv'
  BY DEF vars, pilotVars, workerVars, mainVars, hookVars, procVars,
         electorVars, Inv, TypeOK, WorkerOrder, MainOrder, Started, Gone, Done
<1>2. Inv /\ [Next]_vars => Inv'
  BY <1>1, WorkerInv, MainInv, WorldInv DEF Next
<1> QED
  BY <1>2, InitInv, PTL DEF Spec

\* TypeOK holds for any number of hooks: in particular no hook is executed
\* twice (hook.go Transition).
THEOREM TypeCorrect == Spec => []TypeOK
<1>1. Inv => TypeOK
  BY DEF Inv
<1> QED
  BY <1>1, InvHolds, PTL

\* syncPilot starts the database only after every PreStart hook, also when
\* hooks failed and were retried in between.
THEOREM PreparedFirst == Spec => []PreparedBeforeStart
<1>1. Inv => PreparedBeforeStart
  BY DEF Inv, WorkerOrder, Started, Done, PreparedBeforeStart
<1> QED
  BY <1>1, InvHolds, PTL

\* stop signals the database only after every PreStop hook.
THEOREM PreStopFirst == Spec => []PreStopBeforeSignal
<1>1. Inv => PreStopBeforeSignal
  BY DEF Inv, MainOrder, Done, PreStopBeforeSignal
<1> QED
  BY <1>1, InvHolds, PTL

\* stop runs PostStop hooks only once the database is gone, although the
\* process and the worker go on while stop is under way.
THEOREM PostStopLast == Spec => []PostStopAfterExit
<1>1. Inv => PostStopAfterExit
  BY DEF Inv, MainOrder, Gone, PostStopAfterExit
<1> QED
  BY <1>1, InvHolds, PTL

\* The hooks of all phases keep their places around the life of the database.
THEOREM HooksOrdered == Spec => []HooksInOrder
BY PreparedFirst, PreStopFirst, PostStopLast, PTL DEF HooksInOrder

\* Until this pilot is in cachedThisPilot only peers have been synced, and
\* nothing of the database is there.
CachedFirst ==
  ~cached => worker \in {"idle", "lead"} /\ ~this /\ proc = "nil"

\* A step of either goroutine, or of the world, keeps that.
LEMMA StepCachedFirst ==
  ASSUME TypeOK, CachedFirst, [Next]_vars PROVE CachedFirst'
<1> SUFFICES ASSUME ~cached'
             PROVE  worker' \in {"idle", "lead"} /\ ~this' /\ proc' = "nil"
  BY DEF CachedFirst
<1> USE DEF CachedFirst, Goto, pilotVars, workerVars, mainVars, hookVars,
            procVars, electorVars
<1>1. CASE WorkerStep
  <2>1. ASSUME NEW isThis \in BOOLEAN, BeginSync(isThis)
        PROVE  worker' \in {"idle", "lead"} /\ ~this' /\ proc' = "nil"
    BY <2>1, Zenon DEF BeginSync
  <2>2. ~(\E isThis \in BOOLEAN : BeginSync(isThis)) =>
          Lead \/ worker \notin {"lead", "idle"}
    BY <1>1 DEF WorkerStep, WorkerHooks, Construct, CheckRunning, Start,
                SyncFunc, UpdatePilotStatus
  <2>3. ~(\E isThis \in BOOLEAN : BeginSync(isThis)) => UNCHANGED cached
    BY <1>1 DEF WorkerStep, WorkerHooks, Construct, CheckRunning, Start,
                SyncFunc, Lead, UpdatePilotStatus
  <2>4. CASE Lead
    BY <2>4 DEF Lead
  <2> QED
    BY <2>1, <2>2, <2>3, <2>4
<1>2. CASE MainStep
  BY <1>2, SMTT(30), Z3T(30) DEF MainStep, Select, FindThisPilot, SetShutdown,
     StopIfRunning, MainHooks, SignalProcess, WaitProcess, Exit, ExitNow
<1>3. CASE ProcessExits \/ StartWait \/ Elect \/ PilotChanges
  BY <1>3 DEF ProcessExits, StartWait, Elect, PilotChanges
<1>4. CASE Signal
  BY <1>4 DEF Signal, ExitNow
<1>5. CASE UNCHANGED vars
  BY <1>5 DEF vars
<1> QED
  BY <1>1, <1>2, <1>3, <1>4, <1>5 DEF Next

\* genericpilot.go Run: when it returns because it does not find its own Pilot
\* resource, the database was never started, so that nothing is left behind.
THEOREM UnknownNotStarted == Spec => UnknownMeansNotStarted
<1>1. Init => CachedFirst
  BY DEF Init, CachedFirst
<1>2. CachedFirst /\ [Next]_vars =>
        [main = "this" /\ main' = "returned" => proc = "nil"]_vars
  <2> SUFFICES ASSUME CachedFirst, Next, main = "this", main' = "returned"
               PROVE  proc = "nil"
    OBVIOUS
  <2>1. FindThisPilot
    <3>1. ~WorkerStep /\ ~ProcessExits /\ ~StartWait /\ ~Elect /\ ~PilotChanges
      BY DEF WorkerStep, BeginSync, WorkerHooks, Construct, CheckRunning,
             Start, SyncFunc, Lead, UpdatePilotStatus, ProcessExits, StartWait,
             Elect, PilotChanges, mainVars
    <3>2. ~Signal
      BY DEF Signal, ExitNow, mainVars
    <3> QED
      BY <3>1, <3>2 DEF Next, MainStep, Select, SetShutdown, StopIfRunning,
         MainHooks, SignalProcess, WaitProcess, Exit, MainGoto
  <2> QED
    BY <2>1 DEF FindThisPilot, ThisPilotKnown, MainGoto, CachedFirst
<1> QED
  BY <1>1, <1>2, StepCachedFirst, TypeCorrect, PTL DEF Spec, UnknownMeansNotStarted
=============================================================================

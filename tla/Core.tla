-------------------------------- MODULE Core --------------------------------
(***************************************************************************)
(* The life of the DLL in the game's process: dll/dllmain.cpp, dll/core.cpp*)
(* and dll/log.cpp around the scaling engine.                              *)
(*                                                                         *)
(* DllMain starts a bootstrap thread and returns; the game's main thread   *)
(* is resumed without waiting for it.  The bootstrap thread checks the     *)
(* version, installs the hooks, sets the player count and starts the       *)
(* scaling worker.  When the game exits, Windows kills every thread where  *)
(* it stands, mutexes and all, and then calls DllMain to tear down.        *)
(*                                                                         *)
(* Every step is a step of Scaling for one of two threads, Worker and      *)
(* Teardown, or leaves the engine's variables alone; version_gate::check   *)
(* is called by the bootstrap thread.                                      *)
(***************************************************************************)
EXTENDS Scaling, VersionGate

CONSTANTS
  Worker,       \* the scaling worker thread
  Teardown,     \* the thread that runs teardown()
  Bootstrap,    \* the bootstrap thread, as a holder of the log mutex
  Game1,        \* a thread of the game that runs a hook
  DebugCount,   \* the setting _debug_player_count
  MaxAttempts,  \* the worker's bound on calls of apply(), 1200 in the code
  MayUnload     \* whether somebody may call FreeLibrary on the DLL

ASSUME CoreAssumption ==
  /\ Threads = {Worker, Teardown}
  /\ Worker # Teardown
  /\ {Worker, Teardown} \cap {Bootstrap, Game1} = {}
  /\ NoThread \notin {Bootstrap, Game1}
  /\ Counts = {DebugCount}
  /\ MaxAttempts \in Nat
  /\ MayUnload \in BOOLEAN

Hooks == {"dns", "save", "redirect"}

VARIABLES
  proc,      \* suspended, running, unloading, unloaded, exiting, or gone
  boot,      \* the next thing the bootstrap thread does
  hooked,    \* the hooks that are installed
  worker,    \* where the worker is in its loop
  attempt,   \* the worker's loop counter
  stop,      \* g_stop_worker
  logOwner,  \* the holder of the log's mutex
  logOpen,   \* the log file's handle is valid
  td,        \* where teardown() is
  opened     \* history: the save files the game has opened

engineVars == vars
lifeVars == <<proc, boot, hooked, worker, attempt, stop, logOwner, logOpen, td, opened>>
coreVars == <<engineVars, lifeVars, gateVars>>

(* DllMain has created the bootstrap thread, or failed to; LoadLibrary is  *)
(* done, and the launcher is about to resume the game's main thread.       *)
CoreInit ==
  /\ Init
  /\ GateInit
  /\ proc = "suspended"
  /\ boot \in {"log", "none"}
  /\ hooked = {}
  /\ worker = "none"
  /\ attempt = 0
  /\ stop = FALSE
  /\ logOwner = NoThread
  /\ logOpen = FALSE
  /\ td = "none"
  /\ opened = {}

(* The threads other than the one in DllMain are running.                  *)
Alive == proc \in {"suspended", "running", "unloading"}

Playing == proc \in {"running", "unloading"}

-----------------------------------------------------------------------------
(* write_line: the mutex is held while the line goes to the file.  Which   *)
(* lines are written is left out; a thread inside the DLL may be writing   *)
(* one at any time, and then does nothing else.                            *)

MayLog(x) ==
  \/ x = Bootstrap /\ boot \notin {"log", "none"}
  \/ x = Worker /\ worker # "none"
  \/ x = Game1 /\ Playing /\ hooked # {}

StartLine(x) ==
  /\ Alive
  /\ MayLog(x)
  /\ logOwner = NoThread
  /\ logOwner' = x
  /\ UNCHANGED <<engineVars, proc, boot, hooked, worker, attempt, stop, logOpen, td, opened>>

EndLine(x) ==
  /\ Alive
  /\ logOwner = x
  /\ logOwner' = NoThread
  /\ UNCHANGED <<engineVars, proc, boot, hooked, worker, attempt, stop, logOpen, td, opened>>

-----------------------------------------------------------------------------
(* bootstrap().                                                            *)

BootAt(step) == Alive /\ logOwner # Bootstrap /\ boot = step

(* log::init opens the file under the mutex.                               *)
BootLog ==
  /\ BootAt("log")
  /\ logOwner = NoThread
  /\ logOpen' \in BOOLEAN
  /\ boot' = "gate"
  /\ UNCHANGED <<engineVars, proc, hooked, worker, attempt, stop, logOwner, td, opened>>

(* version_gate::check, one system call at a time.                         *)
BootChecks ==
  /\ BootAt("gate")
  /\ GateStep
  /\ UNCHANGED <<engineVars, lifeVars>>

(* It has refused, or accepted, the host executable.                       *)
BootGate ==
  /\ BootAt("gate")
  /\ gate = "done"
  /\ boot' = IF verdict THEN "dns" ELSE "none"
  /\ UNCHANGED <<engineVars, proc, hooked, worker, attempt, stop, logOwner, logOpen, td, opened>>

(* An install that fails logs its error, and bootstrap goes on regardless. *)
BootInstall(hook, next) ==
  /\ BootAt(hook)
  /\ hooked' \in {hooked, hooked \cup {hook}}
  /\ boot' = next
  /\ UNCHANGED <<engineVars, proc, worker, attempt, stop, logOwner, logOpen, td, opened>>

(* player_count::set, before there is any caller of apply().               *)
BootCount(next) ==
  /\ BootAt("count")
  /\ SetCount(DebugCount)
  /\ boot' = next
  /\ UNCHANGED <<proc, hooked, worker, attempt, stop, logOwner, logOpen, td, opened>>

(* scaling::init, and CreateThread for the worker, which may fail.         *)
BootWorker(next) ==
  /\ BootAt("worker")
  /\ worker' \in {"none", "check"}
  /\ boot' = next
  /\ UNCHANGED <<engineVars, proc, hooked, attempt, stop, logOwner, logOpen, td, opened>>

MutBootStep ==
  \/ BootChecks
  \/ /\ \/ BootLog
        \/ BootGate
        \/ BootInstall("dns", "save")
        \/ BootInstall("save", "redirect")
        \/ BootInstall("redirect", "worker")
        \/ BootWorker("count")
        \/ BootCount("none")
     /\ UNCHANGED gateVars

(* The order of the calls in bootstrap().                                  *)
BootStep ==
  \/ BootChecks
  \/ /\ \/ BootLog
        \/ BootGate
        \/ BootInstall("dns", "save")
        \/ BootInstall("save", "redirect")
        \/ BootInstall("redirect", "count")
        \/ BootCount("worker")
        \/ BootWorker("none")
     /\ UNCHANGED gateVars

-----------------------------------------------------------------------------
(* scaling_worker().                                                       *)

WorkerAt(step) == Alive /\ logOwner # Worker /\ worker = step

MutWorkerLoopsOnceMore ==
  /\ WorkerAt("check")
  /\ attempt <= MaxAttempts
  /\ ~ stop
  /\ worker' = "call"
  /\ UNCHANGED <<engineVars, proc, boot, hooked, attempt, stop, logOwner, logOpen, td, opened>>

(* The loop's condition holds.                                             *)
WorkerLoops ==
  /\ WorkerAt("check")
  /\ attempt < MaxAttempts
  /\ ~ stop
  /\ worker' = "call"
  /\ UNCHANGED <<engineVars, proc, boot, hooked, attempt, stop, logOwner, logOpen, td, opened>>

(* The loop is over, after as many attempts as it makes.                   *)
WorkerGivesUp ==
  /\ WorkerAt("check")
  /\ attempt = MaxAttempts \/ stop
  /\ worker' = "gaveUp"
  /\ UNCHANGED <<engineVars, proc, boot, hooked, attempt, stop, logOwner, logOpen, td, opened>>

WorkerCallsApply ==
  /\ WorkerAt("call")
  /\ CallApply(Worker)
  /\ worker' = "apply"
  /\ UNCHANGED <<proc, boot, hooked, attempt, stop, logOwner, logOpen, td, opened>>

WorkerInApply ==
  /\ WorkerAt("apply")
  /\ ApplyStep(Worker) \/ RevertStep(Worker)
  /\ UNCHANGED lifeVars

MutWorkerForgetsToCount ==
  /\ WorkerAt("apply")
  /\ pc[Worker] = "idle"
  /\ worker' = IF ret[Worker] >= 0 THEN "done" ELSE "check"
  /\ UNCHANGED <<engineVars, proc, boot, hooked, attempt, stop, logOwner, logOpen, td, opened>>

(* apply() returned: done if the table was ready, and otherwise Sleep(500) *)
(* and the next attempt.                                                   *)
WorkerAfterApply ==
  /\ WorkerAt("apply")
  /\ pc[Worker] = "idle"
  /\ \/ /\ ret[Worker] >= 0
        /\ worker' = "done"
        /\ UNCHANGED attempt
     \/ /\ ret[Worker] < 0
        /\ worker' = "check"
        /\ attempt' = attempt + 1
  /\ UNCHANGED <<engineVars, proc, boot, hooked, stop, logOwner, logOpen, td, opened>>

WorkerStep ==
  /\ \/ WorkerLoops
     \/ WorkerGivesUp
     \/ WorkerCallsApply
     \/ WorkerInApply
     \/ WorkerAfterApply
  /\ UNCHANGED gateVars

-----------------------------------------------------------------------------
(* The game.                                                               *)

Resume ==
  /\ proc = "suspended"
  /\ proc' = "running"
  /\ UNCHANGED <<engineVars, boot, hooked, worker, attempt, stop, logOwner, logOpen, td, opened>>

GameLoads ==
  /\ Playing
  /\ Game
  /\ UNCHANGED lifeVars

(* The game opens its save container, through the hook if it is there.     *)
GameOpensSave ==
  /\ Playing
  /\ opened' = opened \cup {IF "save" \in hooked THEN "mod" ELSE "vanilla"}
  /\ UNCHANGED <<engineVars, proc, boot, hooked, worker, attempt, stop, logOwner, logOpen, td>>

(* ExitProcess: every other thread is killed, and teardown() begins.       *)
GameExits ==
  /\ proc = "running"
  /\ proc' = "exiting"
  /\ td' = "stop"
  /\ UNCHANGED <<engineVars, boot, hooked, worker, attempt, stop, logOwner, logOpen, opened>>

(* FreeLibrary: teardown() begins with every other thread still running.   *)
DllUnloads ==
  /\ MayUnload
  /\ proc = "running"
  /\ proc' = "unloading"
  /\ td' = "stop"
  /\ UNCHANGED <<engineVars, boot, hooked, worker, attempt, stop, logOwner, logOpen, opened>>

-----------------------------------------------------------------------------
(* teardown(), on DLL_PROCESS_DETACH.                                      *)

TeardownAt(step) == proc \in {"exiting", "unloading"} /\ td = step

MutTeardownJoinsWorker ==
  /\ TeardownAt("stop")
  /\ worker \in {"none", "done", "gaveUp"}
  /\ stop' = TRUE
  /\ td' = "restore"
  /\ UNCHANGED <<engineVars, proc, boot, hooked, worker, attempt, logOwner, logOpen, opened>>

(* g_stop_worker is raised; nobody waits for the worker to see it.         *)
TeardownStops ==
  /\ TeardownAt("stop")
  /\ stop' = TRUE
  /\ td' = "restore"
  /\ UNCHANGED <<engineVars, proc, boot, hooked, worker, attempt, logOwner, logOpen, opened>>

MutTeardownSkipsRestore ==
  /\ TeardownAt("restore")
  /\ owner = NoThread
  /\ worker # "done"
  /\ td' = "log"
  /\ UNCHANGED <<engineVars, proc, boot, hooked, worker, attempt, stop, logOwner, logOpen, opened>>

(* restore() takes the mutex also when there is nothing to restore.        *)
TeardownNothingToRestore ==
  /\ TeardownAt("restore")
  /\ owner = NoThread
  /\ DOMAIN backup = {}
  /\ td' = "log"
  /\ UNCHANGED <<engineVars, proc, boot, hooked, worker, attempt, stop, logOwner, logOpen, opened>>

TeardownRestoreBegins ==
  /\ TeardownAt("restore")
  /\ RestoreBegin(Teardown)
  /\ td' = "restoring"
  /\ UNCHANGED <<proc, boot, hooked, worker, attempt, stop, logOwner, logOpen, opened>>

(* Its loop done, restore() logs a line before it releases its mutex.      *)
RestoreMustLog == td = "restoring" /\ todo[Teardown] = {}

TeardownRestores ==
  /\ TeardownAt("restoring")
  /\ RestoreMustLog => logOwner = NoThread
  /\ RevertStep(Teardown)
  /\ td' = IF pc'[Teardown] = "idle" THEN "log" ELSE "restoring"
  /\ UNCHANGED <<proc, boot, hooked, worker, attempt, stop, logOwner, logOpen, opened>>

(* The teardown line is written, and then log::shutdown closes the file:   *)
(* both take the log's mutex.                                              *)
TeardownLine ==
  /\ TeardownAt("log")
  /\ logOwner = NoThread
  /\ td' = "shutdown"
  /\ UNCHANGED <<engineVars, proc, boot, hooked, worker, attempt, stop, logOwner, logOpen, opened>>

TeardownCloses ==
  /\ TeardownAt("shutdown")
  /\ logOwner = NoThread
  /\ logOpen' = FALSE
  /\ td' = "done"
  /\ proc' = IF proc = "unloading" THEN "unloaded" ELSE "gone"
  /\ UNCHANGED <<engineVars, boot, hooked, worker, attempt, stop, logOwner, opened>>

(* A mutex whose holder was killed is never released.  Windows ends a      *)
(* process that waits for one while it is shutting down.                   *)
OrphanedLock ==
  \/ td = "restore" /\ owner # NoThread
  \/ (td \in {"log", "shutdown"} \/ RestoreMustLog) /\ logOwner # NoThread

TeardownCutShort ==
  /\ proc = "exiting"
  /\ OrphanedLock
  /\ proc' = "gone"
  /\ UNCHANGED <<engineVars, boot, hooked, worker, attempt, stop, logOwner, logOpen, td, opened>>

TeardownStep ==
  /\ \/ TeardownStops
     \/ TeardownNothingToRestore
     \/ TeardownRestoreBegins
     \/ TeardownRestores
     \/ TeardownLine
     \/ TeardownCloses
     \/ TeardownCutShort
  /\ UNCHANGED gateVars

-----------------------------------------------------------------------------
LogStep ==
  /\ \E x \in {Bootstrap, Worker, Game1} : StartLine(x) \/ EndLine(x)
  /\ UNCHANGED gateVars

ProcessStep ==
  /\ \/ Resume
     \/ GameLoads
     \/ GameOpensSave
     \/ GameExits
     \/ DllUnloads
  /\ UNCHANGED gateVars

CoreNext ==
  \/ LogStep
  \/ BootStep
  \/ WorkerStep
  \/ ProcessStep
  \/ TeardownStep

CoreSpec == CoreInit /\ [][CoreNext]_coreVars

(* Windows schedules every ready thread, and a line being written ends.    *)
(* The worker's fairness is strong because its own lines come between its  *)
(* steps, only finitely many of them in the code.  Nothing obliges the     *)
(* game to load a save or to exit.                                         *)
CoreFairness ==
  /\ WF_coreVars(BootStep)
  /\ SF_coreVars(WorkerStep)
  /\ WF_coreVars(TeardownStep)
  /\ \A x \in {Bootstrap, Worker, Game1} : WF_coreVars(EndLine(x) /\ UNCHANGED gateVars)

FairCoreSpec == CoreSpec /\ CoreFairness

-----------------------------------------------------------------------------
BootSteps == {"none", "log", "gate", "dns", "save", "redirect", "count", "worker"}

WorkerSteps == {"none", "check", "call", "apply", "done", "gaveUp"}

CoreTypeOK ==
  /\ TypeOK
  /\ GateTypeOK
  /\ proc \in {"suspended", "running", "unloading", "unloaded", "exiting", "gone"}
  /\ boot \in BootSteps
  /\ hooked \subseteq Hooks
  /\ worker \in WorkerSteps
  /\ attempt \in 0 .. MaxAttempts
  /\ stop \in BOOLEAN
  /\ logOwner \in {NoThread, Bootstrap, Worker, Game1}
  /\ logOpen \in BOOLEAN
  /\ td \in {"none", "stop", "restore", "restoring", "log", "shutdown", "done"}
  /\ opened \subseteq {"mod", "vanilla"}

(* The engine as Core drives it is the engine as Scaling describes it, so  *)
(* what holds of every use of scaling.cpp holds of this one.               *)
EngineSpec == Spec

(* A teardown at process exit that got past restore() left every row as    *)
(* the game loaded it, although the worker was killed at an arbitrary      *)
(* point of its work: had it been inside apply(), teardown would never     *)
(* have got past the mutex.  (After FreeLibrary this need not hold: nobody *)
(* joins the worker, and it may apply once more after restore().)          *)
ExitLeavesVanilla ==
  proc \in {"exiting", "gone"} /\ td \in {"log", "shutdown", "done"} =>
    \A r \in Rows \ lost : hp[r] = Vanilla[r]

(* A worker that is done, and found rows to scale, has scaled them all for *)
(* the configured player count: nobody sees half a table, or a table half  *)
(* scaled for another count.  A boss that BossBattleParam did not name in  *)
(* time has the enemies' rate.                                             *)
ScaledOnceDone ==
  worker = "done" /\ td = "none" /\ DOMAIN backup # {} =>
    \A r \in Rows :
      \E pct \in Rates(r) :
        hp[r] \in Scaled(Vanilla[r], MulFrom(Clamped(DebugCount), pct))

(* The worker does not poll for ever, even if no save is ever loaded.      *)
WorkerEnds == (worker = "check") ~> (worker \in {"done", "gaveUp"} \/ ~ Alive)

(* A process that has begun to exit does exit: whatever thread was killed  *)
(* holding whichever mutex, teardown does not hang.                        *)
ExitCompletes == (proc = "exiting") ~> (proc = "gone")

(* How far the worker and teardown() have still to go.                     *)
CallStage ==
  [bossMul |-> 4, collect |-> 3, rows |-> 2, revert |-> 2, restore |-> 2, idle |-> 1]

WorkerStage ==
  LET loop == [none |-> 7, check |-> 6, call |-> 5, done |-> 0, gaveUp |-> 0]
  IN  IF worker = "apply" THEN CallStage[pc[Worker]] ELSE loop[worker]

TeardownStage ==
  LET steps == [none |-> 6, stop |-> 5, restore |-> 4, restoring |-> 3,
                log |-> 2, shutdown |-> 1, done |-> 0]
  IN  steps[td]

VisitsRow(t) == todo'[t] \subseteq todo[t] /\ todo'[t] # todo[t]

WorkerAdvances ==
  \/ attempt' > attempt
  \/ attempt' = attempt /\ WorkerStage' < WorkerStage
  \/ attempt' = attempt /\ WorkerStage' = WorkerStage /\ VisitsRow(Worker)

TeardownAdvances ==
  \/ TeardownStage' < TeardownStage
  \/ TeardownStage' = TeardownStage /\ VisitsRow(Teardown)

(* Neither thread ever goes back: whatever else runs, and whenever it does, *)
(* every step of the worker uses up an attempt, a stage of the attempt or a *)
(* row of the stage, and every step of teardown() a stage or a row.  There  *)
(* are finitely many of each, so WorkerEnds and ExitCompletes need nothing  *)
(* more than that the two threads get to run.                              *)
ThreadsOnlyAdvance ==
  [][/\ WorkerAdvances \/ UNCHANGED <<worker, attempt, pc[Worker], todo[Worker]>>
     /\ TeardownAdvances \/ UNCHANGED <<td, pc[Teardown], todo[Teardown]>>]_coreVars

(* What can keep teardown from its log line (see CleanTeardownLine): only a *)
(* worker killed inside apply(), and then before restore() has written any  *)
(* row back, or a thread killed in the middle of a line of its own.  A call *)
(* of apply() that has returned, by whichever of its returns, never does.   *)
CutShortByKilledHolder ==
  proc = "gone" /\ td # "done" =>
    \/ td = "restore" /\ worker = "apply" /\ pc[Worker] # "idle"
    \/ td # "restore" /\ logOwner \in {Bootstrap, Worker, Game1}

(* "redirect save files ... so vanilla .sl2 saves are never touched": in a *)
(* game that passed the version gate, and whose save hook was installed,   *)
(* the vanilla save was never opened.                                      *)
VanillaSaveNeverTouched == "save" \in hooked => "vanilla" \notin opened

(* Hooks, which write at offsets of one build, are only ever installed in  *)
(* a game whose executable was read as that build.  "Begins with", because *)
(* a read that fails passes for the end of the file: a longer file whose   *)
(* read fails exactly where the known one ends has the known one's digest. *)
HooksNeedKnownExe == hooked # {} => KnownExe

(* "Closing the game produces a clean teardown log line": a process that   *)
(* is gone got as far as writing it.                                       *)
CleanTeardownLine == proc = "gone" => td = "done"
=============================================================================

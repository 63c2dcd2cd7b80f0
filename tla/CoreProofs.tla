----------------------------- MODULE CoreProofs -----------------------------
(***************************************************************************)
(* Proofs about Core: it drives the engine only through the engine's own   *)
(* steps, so every theorem of ScalingProofs holds of it; and, from the     *)
(* order of bootstrap() and teardown(), what the engine alone does not     *)
(* promise.                                                                *)
(***************************************************************************)
EXTENDS Core, ScalingProofs, SequenceTheorems

USE CoreAssumption

(* Every step of the program is a step of the engine, or leaves it alone.  *)
LEMMA CoreStep == [CoreNext]_coreVars => [Next]_vars
<1> SUFFICES ASSUME [CoreNext]_coreVars PROVE Next \/ UNCHANGED vars
  OBVIOUS
<1>1. CASE UNCHANGED coreVars
  BY <1>1 DEF coreVars, engineVars
<1>2. CASE LogStep
  BY <1>2 DEF LogStep, StartLine, EndLine, engineVars
<1>3. CASE BootStep
  <2>1. CASE BootCount("worker")
    BY <2>1 DEF BootCount, Next
  <2> QED
    BY <1>3, <2>1 DEF BootStep, BootChecks, BootLog, BootGate, BootInstall, BootWorker, engineVars
<1>4. CASE WorkerStep
  <2>1. CASE WorkerCallsApply \/ WorkerInApply
    BY <2>1 DEF WorkerCallsApply, WorkerInApply, Next
  <2> QED
    BY <1>4, <2>1 DEF WorkerStep, WorkerLoops, WorkerGivesUp, WorkerAfterApply, engineVars
<1>5. CASE ProcessStep
  BY <1>5 DEF ProcessStep, Resume, GameLoads, GameOpensSave, GameExits, DllUnloads, engineVars, Next
<1>6. CASE TeardownStep
  <2>1. CASE TeardownRestoreBegins \/ TeardownRestores
    BY <2>1 DEF TeardownRestoreBegins, TeardownRestores, Next
  <2> QED
    BY <1>6, <2>1 DEF TeardownStep, TeardownStops, TeardownNothingToRestore, TeardownLine,
                      TeardownCloses, TeardownCutShort, engineVars
<1> QED
  BY <1>1, <1>2, <1>3, <1>4, <1>5, <1>6 DEF CoreNext

(* The program implements the engine.                                      *)
THEOREM CoreImplementsEngine == CoreSpec => EngineSpec
<1>1. CoreInit => Init
  BY DEF CoreInit
<1> QED
  BY <1>1, CoreStep, PTL DEF CoreSpec, EngineSpec, Spec

(* And with it the ledger: whatever dies or unloads when, the rows in the  *)
(* game's memory are scaled from vanilla only, and a restore that ends has *)
(* put back every row it could write.                                      *)
THEOREM CoreImplementsLedger == CoreSpec => LedgerSpec
BY CoreImplementsEngine, Refinement DEF EngineSpec

(* So the engine's inductive invariant holds throughout the program's life.*)
LEMMA CoreEngineInv == CoreSpec => []IInv
BY CoreImplementsEngine, Invariance, PTL DEF EngineSpec

-----------------------------------------------------------------------------
(* The worker starts after the player count is set, and nobody sets it     *)
(* again.                                                                  *)
CountFixed ==
  /\ pc[Worker] # "idle" => worker = "apply"
  /\ pc[Teardown] \in {"idle", "restore"}
  /\ worker # "none" => boot = "none"
  /\ boot = "worker" \/ worker # "none" => n = Clamped(DebugCount)
  /\ pc[Worker] \in {"bossMul", "collect", "rows"} =>
       enemyMul[Worker] = MulFrom(Clamped(DebugCount), EnemyPct)
  /\ pc[Worker] \in {"collect", "rows"} =>
       bossMul[Worker] = MulFrom(Clamped(DebugCount), BossPct)

LEMMA CountFixedInit == CoreInit => CountFixed
BY DEF CoreInit, Init, CountFixed

LEMMA CountFixedStep == IInv /\ CountFixed /\ [CoreNext]_coreVars => CountFixed'
<1> SUFFICES ASSUME IInv, CountFixed, [CoreNext]_coreVars PROVE CountFixed'
  OBVIOUS
<1> USE DEF IInv, TypeOK, CountFixed
(* Steps that leave the calls, the count and the two threads alone.        *)
<1>1. ASSUME UNCHANGED <<pc, n, enemyMul, bossMul, worker, boot>>
      PROVE  CountFixed'
  BY <1>1
<1>2. CASE UNCHANGED coreVars \/ LogStep \/ BootChecks
           \/ Resume \/ GameOpensSave \/ GameExits \/ DllUnloads
  BY <1>1, <1>2 DEF BootChecks, coreVars, engineVars, lifeVars, vars, multipliers, LogStep, StartLine,
                    EndLine, Resume, GameOpensSave, GameExits, DllUnloads
<1>3. CASE GameLoads
  BY <1>1, <1>3 DEF GameLoads, Game, LoadMaster, IndexTable, ChangePage, multipliers, lifeVars
<1>4. CASE BootStep
  <2>1. CASE BootCount("worker")
    BY <2>1 DEF BootCount, BootAt, SetCount, multipliers
  <2>2. CASE BootWorker("none")
    BY <2>2 DEF BootWorker, BootAt, engineVars, vars, multipliers
  <2>3. CASE BootLog \/ BootGate \/ BootInstall("dns", "save")
             \/ BootInstall("save", "redirect") \/ BootInstall("redirect", "count")
    <3>1. boot # "none" /\ boot' \in {"gate", "none", "dns", "save", "redirect", "count"}
          /\ UNCHANGED <<pc, n, enemyMul, bossMul, worker>>
      BY <2>3 DEF BootLog, BootGate, BootInstall, BootAt, engineVars, vars, multipliers
    <3> QED
      BY <3>1
  <2> QED
    BY <1>2, <1>4, <2>1, <2>2, <2>3 DEF BootStep
<1>5. CASE WorkerStep
  <2>1. CASE WorkerLoops \/ WorkerGivesUp \/ WorkerAfterApply
    BY <2>1 DEF WorkerLoops, WorkerGivesUp, WorkerAfterApply, WorkerAt, engineVars, vars,
                multipliers
  <2>2. CASE WorkerCallsApply
    BY <2>2 DEF WorkerCallsApply, WorkerAt, CallApply, ApplyNotReady, ApplyNoEnemyParam,
                ApplyBegin, multipliers
  <2>3. CASE WorkerInApply
    <3>1. UNCHANGED <<n, worker, boot>> /\ worker = "apply"
      BY <2>3 DEF WorkerInApply, WorkerAt, lifeVars, ApplyStep, ApplyBossMul, ApplyCollect,
                  ApplySkipRow, ApplyPatchRow, ApplyKeepRow, ApplyReturn, RevertStep,
                  RevertRow, RevertMiss, RevertReturn
    <3>2. pc'[Teardown] = pc[Teardown]
      BY <2>3 DEF WorkerInApply, ApplyStep, ApplyBossMul, ApplyCollect, ApplySkipRow,
                  ApplyPatchRow, ApplyKeepRow, AtRow, ApplyReturn, RevertStep, RevertRow,
                  RevertMiss, RevertReturn, Return
    <3>3. CASE ApplyBossMul(Worker)
      BY <3>1, <3>2, <3>3 DEF ApplyBossMul, Return, multipliers
    <3>4. CASE ApplyCollect(Worker)
      BY <3>1, <3>2, <3>4 DEF ApplyCollect
    <3>5. CASE ApplyReturn(Worker) \/ RevertReturn(Worker)
      BY <3>1, <3>2, <3>5 DEF ApplyReturn, RevertReturn, Return
    <3>6. CASE \E r \in Rows : \/ ApplySkipRow(Worker, r) \/ ApplyPatchRow(Worker, r)
                               \/ ApplyKeepRow(Worker, r) \/ RevertRow(Worker, r)
                               \/ RevertMiss(Worker, r)
      BY <3>1, <3>6 DEF ApplySkipRow, ApplyPatchRow, ApplyKeepRow, AtRow, RevertRow,
                        RevertMiss, multipliers
    <3> QED
      BY <2>3, <3>3, <3>4, <3>5, <3>6 DEF WorkerInApply, ApplyStep, RevertStep
  <2> QED
    BY <1>5, <2>1, <2>2, <2>3 DEF WorkerStep
<1>6. CASE TeardownStep
  <2>1. CASE TeardownStops \/ TeardownNothingToRestore \/ TeardownLine \/ TeardownCloses
             \/ TeardownCutShort
    BY <1>1, <2>1 DEF TeardownStops, TeardownNothingToRestore, TeardownLine, TeardownCloses,
                      TeardownCutShort, engineVars, vars, multipliers
  <2>2. CASE TeardownRestoreBegins
    BY <2>2 DEF TeardownRestoreBegins, RestoreBegin, multipliers
  <2>3. CASE TeardownRestores
    <3>1. UNCHANGED <<n, worker, boot>>
      BY <2>3 DEF TeardownRestores, RevertStep, RevertRow, RevertMiss, RevertReturn
    <3>2. CASE RevertReturn(Teardown)
      BY <3>1, <3>2 DEF RevertReturn, Return
    <3>3. CASE \E r \in Rows : RevertRow(Teardown, r) \/ RevertMiss(Teardown, r)
      BY <3>1, <3>3 DEF RevertRow, RevertMiss, multipliers
    <3> QED
      BY <2>3, <3>2, <3>3 DEF TeardownRestores, RevertStep
  <2> QED
    BY <1>6, <2>1, <2>2, <2>3 DEF TeardownStep
<1> QED
  BY <1>2, <1>3, <1>4, <1>5, <1>6 DEF CoreNext, ProcessStep

LEMMA CountFixedAlways == CoreSpec => []CountFixed
BY CoreEngineInv, CountFixedInit, CountFixedStep, PTL DEF CoreSpec

(* In the program as it is wired, one apply uses one player count.         *)
THEOREM OneCountAlways == CoreSpec => []OneCountPerApply
<1>1. Clamped(DebugCount) \in CountValues
  BY DEF CountValues
<1>2. CountFixed => OneCountPerApply
  BY <1>1 DEF CountFixed, OneCountPerApply
<1> QED
  BY <1>2, CountFixedAlways, PTL

-----------------------------------------------------------------------------
(* At process exit teardown runs alone, and ends with vanilla rows.        *)
TeardownAlone ==
  /\ Alive /\ proc # "unloading" => td = "none"
  /\ proc \in {"exiting", "gone"} /\ td = "restoring" => Reverting(Teardown)
  /\ ExitLeavesVanilla

LEMMA TeardownAloneInit == CoreInit => TeardownAlone
BY DEF CoreInit, TeardownAlone, ExitLeavesVanilla

LEMMA TeardownAloneStep ==
  ASSUME IInv, TeardownAlone, [CoreNext]_coreVars
  PROVE  TeardownAlone'
<1> USE DEF TeardownAlone, ExitLeavesVanilla, Alive
<1>1. ASSUME UNCHANGED <<proc, td, pc, hp, lost>>
      PROVE  TeardownAlone'
  BY <1>1 DEF Reverting
<1>2. CASE UNCHANGED coreVars \/ LogStep
  BY <1>1, <1>2 DEF coreVars, engineVars, lifeVars, vars, LogStep, StartLine, EndLine
<1>3. CASE BootStep \/ WorkerStep \/ GameLoads \/ GameOpensSave
  <2>1. Alive /\ UNCHANGED <<proc, td>>
    BY <1>3 DEF BootStep, BootChecks, BootLog, BootGate, BootInstall, BootCount, BootWorker, BootAt,
                WorkerStep, WorkerLoops, WorkerGivesUp, WorkerCallsApply, WorkerInApply,
                WorkerAfterApply, WorkerAt, GameLoads, GameOpensSave, Playing, lifeVars
  <2> QED
    BY <2>1
<1>4. CASE Resume \/ GameExits
  BY <1>4 DEF Resume, GameExits
<1>5. CASE DllUnloads
  BY <1>5 DEF DllUnloads
<1>6. CASE TeardownStep
  <2>1. \/ proc = "exiting" /\ proc' \in {"exiting", "gone"}
        \/ proc = "unloading" /\ proc' \in {"unloading", "unloaded"}
    BY <1>6 DEF TeardownStep, TeardownStops, TeardownNothingToRestore, TeardownRestoreBegins,
                TeardownRestores, TeardownLine, TeardownCloses, TeardownCutShort, TeardownAt
  <2>2. CASE TeardownStops
    BY <2>1, <2>2 DEF TeardownStops
  <2>3. CASE TeardownNothingToRestore
    BY <2>1, <2>3 DEF TeardownNothingToRestore, engineVars, vars, IInv, ChangesAreRecorded
  <2>4. CASE TeardownRestoreBegins
    BY <2>1, <2>4 DEF TeardownRestoreBegins, RestoreBegin, Reverting, IInv, TypeOK
  <2>5. CASE TeardownRestores
    <3>1. CASE RevertReturn(Teardown)
      BY <2>1, <2>5, <3>1 DEF TeardownRestores, RevertReturn, Return, IInv, TypeOK, Reverting,
                              RevertProgress
    <3>2. CASE \E r \in Rows : RevertRow(Teardown, r) \/ RevertMiss(Teardown, r)
      BY <2>1, <2>5, <3>2 DEF TeardownRestores, RevertRow, RevertMiss, Reverting
    <3> QED
      BY <2>5, <3>1, <3>2 DEF TeardownRestores, RevertStep
  <2>6. CASE TeardownLine \/ TeardownCloses \/ TeardownCutShort
    BY <2>1, <2>6 DEF TeardownLine, TeardownCloses, TeardownCutShort, TeardownAt, engineVars,
                      vars, Reverting
  <2> QED
    BY <1>6, <2>2, <2>3, <2>4, <2>5, <2>6 DEF TeardownStep
<1> QED
  BY <1>2, <1>3, <1>4, <1>5, <1>6 DEF CoreNext, ProcessStep

(* A teardown at process exit that gets past restore() leaves every row as *)
(* the game loaded it, wherever the worker was killed.                     *)
THEOREM ExitRestores == CoreSpec => []ExitLeavesVanilla
<1>1. IInv /\ TeardownAlone /\ [CoreNext]_coreVars => TeardownAlone'
  BY TeardownAloneStep
<1>2. TeardownAlone => ExitLeavesVanilla
  BY DEF TeardownAlone
<1> QED
  BY <1>1, <1>2, CoreEngineInv, TeardownAloneInit, PTL DEF CoreSpec

-----------------------------------------------------------------------------
(* What has been hashed, with what is being hashed, is what has been read; *)
(* and bootstrap goes past the gate only with a verdict.                   *)
GateInv ==
  /\ exe \in Seq(Nat)
  /\ offset \in 0 .. Len(exe)
  /\ gate = "setup" => offset = 0 /\ hashed = <<>>
  /\ gate = "read" => hashed = SubSeq(exe, 1, offset)
  /\ gate = "feed" => hashed \o buf = SubSeq(exe, 1, offset)
  /\ verdict => KnownExe
  /\ boot \in {"dns", "save", "redirect", "count", "worker"} => KnownExe
  /\ HooksNeedKnownExe

LEMMA GateInvInit == CoreInit => GateInv
<1> SUFFICES ASSUME CoreInit PROVE GateInv
  OBVIOUS
<1>1. exe \in Seq(Nat)
  BY GateAssumption DEF CoreInit, GateInit
<1> QED
  BY <1>1 DEF CoreInit, GateInit, GateInv, HooksNeedKnownExe

LEMMA GateInvGate == GateInv /\ GateStep /\ UNCHANGED <<boot, hooked>> => GateInv'
<1> SUFFICES ASSUME GateInv, GateStep, UNCHANGED <<boot, hooked>> PROVE GateInv'
  OBVIOUS
<1> USE GateAssumption DEF GateInv, HooksNeedKnownExe
<1>1. exe' = exe /\ KnownExe' = KnownExe
  BY DEF GateStep, GateFails, GateSetsUp, GateReads, GateFeeds, GateFinishes, Conclude, KnownExe
<1>2. CASE GateFails
  <2>1. gate' = "done" /\ offset' = 0 /\ ~ verdict'
    BY <1>2 DEF GateFails, Conclude
  <2> QED
    BY <1>1, <2>1
<1>3. CASE GateSetsUp
  <2>1. offset = 0 /\ hashed = <<>>
    BY <1>3 DEF GateSetsUp
  <2>2. SubSeq(exe, 1, offset) = <<>>
    BY <2>1, SubSeqEmpty
  <2> QED
    BY <1>1, <1>3, <2>1, <2>2 DEF GateSetsUp
<1>4. CASE GateReads
  <2> DEFINE k == IF offset + Chunk < Len(exe) THEN offset + Chunk ELSE Len(exe)
  <2>1. k \in offset .. Len(exe)
    BY <1>4 DEF GateReads
  <2>2. /\ buf' = SubSeq(exe, offset + 1, k) /\ offset' = offset + Len(buf')
        /\ gate' = "feed" /\ UNCHANGED <<hashed, verdict>>
        /\ hashed = SubSeq(exe, 1, offset)
    BY <1>4 DEF GateReads
  <2> HIDE DEF k
  <2>3. offset' = k
    <3>1. \A i \in offset + 1 .. k : exe[i] \in Nat
      BY <2>1
    <3>2. offset + 1 \in Int /\ k \in Int
      BY <2>1
    <3>3. Len(SubSeq(exe, offset + 1, k)) = IF offset + 1 <= k THEN k - (offset + 1) + 1 ELSE 0
      BY <3>1, <3>2, SubSeqProperties
    <3> QED
      BY <2>1, <2>2, <3>3
  <2>4. SubSeq(exe, 1, offset) \o SubSeq(exe, offset + 1, k) = SubSeq(exe, 1, k)
    BY <2>1, ConcatAdjacentSubSeq
  <2>5. hashed' \o buf' = SubSeq(exe', 1, offset')
    BY <1>1, <2>2, <2>3, <2>4
  <2>6. offset' \in 0 .. Len(exe')
    BY <1>1, <2>1, <2>3
  <2>7. gate' = "feed" /\ UNCHANGED verdict
    BY <2>2
  <2> QED
    BY <1>1, <2>5, <2>6, <2>7
<1>5. CASE GateFeeds
  BY <1>1, <1>5 DEF GateFeeds
<1>6. CASE GateFinishes
  <2>1. verdict' => KnownExe
    <3>1. SUFFICES ASSUME hashed = Expected PROVE KnownExe
      BY <1>6 DEF GateFinishes, Conclude
    <3>2. Expected = SubSeq(exe, 1, offset)
      BY <1>6, <3>1 DEF GateFinishes
    <3>3. Len(Expected) = offset
      BY <3>2
    <3> QED
      BY <3>2, <3>3 DEF KnownExe
  <2> QED
    BY <1>1, <1>6, <2>1 DEF GateFinishes, Conclude
<1> QED
  BY <1>2, <1>3, <1>4, <1>5, <1>6 DEF GateStep

LEMMA GateInvStep == GateInv /\ [CoreNext]_coreVars => GateInv'
<1> SUFFICES ASSUME GateInv, [CoreNext]_coreVars PROVE GateInv'
  OBVIOUS
<1>1. ASSUME UNCHANGED gateVars,
             \/ UNCHANGED <<boot, hooked>>
             \/ BootLog \/ BootGate
             \/ BootInstall("dns", "save") \/ BootInstall("save", "redirect")
             \/ BootInstall("redirect", "count") \/ BootCount("worker") \/ BootWorker("none")
      PROVE  GateInv'
  <2>1. KnownExe' = KnownExe
    BY <1>1 DEF gateVars, KnownExe
  <2> QED
    BY <1>1, <2>1 DEF GateInv, HooksNeedKnownExe, gateVars, BootLog, BootGate, BootInstall,
                      BootCount, BootWorker, BootAt
<1>2. CASE UNCHANGED coreVars \/ LogStep
  BY <1>1, <1>2 DEF coreVars, lifeVars, LogStep, StartLine, EndLine
<1>3. CASE BootStep
  BY <1>1, <1>3, GateInvGate DEF BootStep, BootChecks, lifeVars
<1>4. CASE WorkerStep
  BY <1>1, <1>4 DEF WorkerStep, WorkerLoops, WorkerGivesUp, WorkerCallsApply, WorkerInApply,
                    WorkerAfterApply, lifeVars
<1>5. CASE ProcessStep
  BY <1>1, <1>5 DEF ProcessStep, Resume, GameLoads, GameOpensSave, GameExits, DllUnloads, lifeVars
<1>6. CASE TeardownStep
  BY <1>1, <1>6 DEF TeardownStep, TeardownStops, TeardownNothingToRestore, TeardownRestoreBegins,
                    TeardownRestores, TeardownLine, TeardownCloses, TeardownCutShort
<1> QED
  BY <1>2, <1>3, <1>4, <1>5, <1>6 DEF CoreNext

(* No hook is ever installed into an executable that does not begin with   *)
(* the known one, whatever its length, the chunk size, and whichever calls *)
(* of the version gate fail.                                               *)
THEOREM HooksNeedKnownExeAlways == CoreSpec => []HooksNeedKnownExe
<1>1. GateInv => HooksNeedKnownExe
  BY DEF GateInv
<1> QED
  BY <1>1, GateInvInit, GateInvStep, PTL DEF CoreSpec

-----------------------------------------------------------------------------
(* The variables of Core keep their types; an apply() that is under way is *)
(* one of the worker's attempts.                                           *)
Flags == stop \in BOOLEAN /\ logOpen \in BOOLEAN

LifeTypes ==
  /\ proc \in {"suspended", "running", "unloading", "unloaded", "exiting", "gone"}
  /\ boot \in BootSteps
  /\ hooked \subseteq Hooks
  /\ worker \in WorkerSteps
  /\ attempt \in 0 .. MaxAttempts
  /\ worker \in {"call", "apply"} => attempt < MaxAttempts
  /\ logOwner \in {NoThread, Bootstrap, Worker, Game1}
  /\ td \in {"none", "stop", "restore", "restoring", "log", "shutdown", "done"}
  /\ opened \subseteq {"mod", "vanilla"}

LEMMA CoreTypesInit == CoreInit => GateTypeOK /\ Flags /\ LifeTypes
<1> SUFFICES ASSUME CoreInit PROVE GateTypeOK /\ Flags /\ LifeTypes
  OBVIOUS
<1>1. Flags
  BY Zenon DEF CoreInit, Flags
<1>2. GateTypeOK
  <2>1. verdict \in BOOLEAN
    BY Zenon DEF CoreInit, GateInit
  <2>2. exe \in Seq(Nat)
    BY GateAssumption DEF CoreInit, GateInit
  <2> QED
    BY <2>1, <2>2 DEF CoreInit, GateInit, GateTypeOK
<1>3. LifeTypes
  BY DEF CoreInit, LifeTypes, BootSteps, WorkerSteps
<1> QED
  BY <1>1, <1>2, <1>3

LEMMA GateTypes == GateTypeOK /\ GateStep => GateTypeOK'
<1> SUFFICES ASSUME GateTypeOK, GateStep PROVE GateTypeOK'
  OBVIOUS
<1> USE GateAssumption DEF GateTypeOK
<1>1. exe \in Seq(Nat)
  OBVIOUS
<1>2. CASE GateReads
  <2> DEFINE k == IF offset + Chunk < Len(exe) THEN offset + Chunk ELSE Len(exe)
  <2>1. k \in offset + 1 .. Len(exe)
    BY <1>1, <1>2 DEF GateReads
  <2>2. /\ buf' = SubSeq(exe, offset + 1, k) /\ offset' = offset + Len(buf')
        /\ gate' = "feed" /\ UNCHANGED <<exe, hashed, verdict>>
    BY <1>2 DEF GateReads
  <2> HIDE DEF k
  <2>3. \A i \in offset + 1 .. k : exe[i] \in Nat
    BY <1>1, <2>1
  <2>4. /\ SubSeq(exe, offset + 1, k) \in Seq(Nat)
        /\ Len(SubSeq(exe, offset + 1, k)) = k - offset
    BY <2>1, <2>3, SubSeqProperties
  <2> QED
    BY <2>1, <2>2, <2>4
<1>3. CASE GateFeeds
  BY <1>3 DEF GateFeeds
<1>4. CASE GateSetsUp
  BY <1>4 DEF GateSetsUp
<1>5. ASSUME NEW ok \in BOOLEAN, Conclude(ok) PROVE GateTypeOK'
  <2>1. verdict' \in BOOLEAN
    BY <1>5, Zenon DEF Conclude
  <2> QED
    BY <1>1, <1>5, <2>1 DEF Conclude
<1>6. CASE GateFails \/ GateFinishes
  BY <1>5, <1>6 DEF GateFails, GateFinishes
<1> QED
  BY <1>2, <1>3, <1>4, <1>6 DEF GateStep

LEMMA FlagsStep == Flags /\ [CoreNext]_coreVars => Flags'
<1> SUFFICES ASSUME Flags, [CoreNext]_coreVars PROVE Flags'
  OBVIOUS
<1> USE DEF Flags
<1>1. CASE UNCHANGED coreVars
  BY <1>1, Zenon DEF coreVars, lifeVars
<1>2. CASE LogStep
  BY <1>2, Zenon DEF LogStep, StartLine, EndLine
<1>3. CASE BootStep
  BY <1>3, Zenon DEF BootStep, BootChecks, BootLog, BootGate, BootInstall, BootCount, BootWorker,
                     lifeVars
<1>4. CASE WorkerStep
  BY <1>4, Zenon DEF WorkerStep, WorkerLoops, WorkerGivesUp, WorkerCallsApply, WorkerInApply,
                     WorkerAfterApply, lifeVars
<1>5. CASE ProcessStep
  BY <1>5, Zenon DEF ProcessStep, Resume, GameLoads, GameOpensSave, GameExits, DllUnloads, lifeVars
<1>6. CASE TeardownStep
  BY <1>6, Zenon DEF TeardownStep, TeardownStops, TeardownNothingToRestore, TeardownRestoreBegins,
                     TeardownRestores, TeardownLine, TeardownCloses, TeardownCutShort
<1> QED
  BY <1>1, <1>2, <1>3, <1>4, <1>5, <1>6 DEF CoreNext

LEMMA LifeTypesStep == LifeTypes /\ [CoreNext]_coreVars => LifeTypes'
<1> SUFFICES ASSUME LifeTypes, [CoreNext]_coreVars PROVE LifeTypes'
  OBVIOUS
<1> USE DEF LifeTypes
<1>1. CASE UNCHANGED coreVars
  BY <1>1 DEF coreVars, lifeVars
<1>2. CASE LogStep
  <2>1. UNCHANGED <<proc, boot, hooked, worker, attempt, td, opened>>
    BY <1>2 DEF LogStep, StartLine, EndLine
  <2>2. logOwner' \in {NoThread, Bootstrap, Worker, Game1}
    BY <1>2 DEF LogStep, StartLine, EndLine
  <2> QED
    BY <2>1, <2>2
<1>3. CASE BootStep
  <2>1. UNCHANGED <<proc, attempt, logOwner, td, opened>>
    BY <1>3 DEF BootStep, BootChecks, BootLog, BootGate, BootInstall, BootCount, BootWorker,
                lifeVars
  <2>2. boot' \in BootSteps
    BY <1>3 DEF BootStep, BootChecks, BootLog, BootGate, BootInstall, BootCount, BootWorker,
                BootSteps, lifeVars
  <2>3. hooked' \subseteq Hooks
    BY <1>3 DEF BootStep, BootChecks, BootLog, BootGate, BootInstall, BootCount, BootWorker,
                Hooks, lifeVars
  <2>4. worker' \in {worker, "none", "check"}
    BY <1>3 DEF BootStep, BootChecks, BootLog, BootGate, BootInstall, BootCount, BootWorker,
                lifeVars
  <2> QED
    BY <2>1, <2>2, <2>3, <2>4 DEF WorkerSteps
<1>4. CASE WorkerStep
  <2>1. UNCHANGED <<proc, boot, hooked, logOwner, td, opened>>
    BY <1>4 DEF WorkerStep, WorkerLoops, WorkerGivesUp, WorkerCallsApply, WorkerInApply,
                WorkerAfterApply, lifeVars
  <2>2. /\ worker' \in WorkerSteps
        /\ attempt' \in 0 .. MaxAttempts
        /\ worker' \in {"call", "apply"} => attempt' < MaxAttempts
    BY <1>4 DEF WorkerStep, WorkerLoops, WorkerGivesUp, WorkerCallsApply, WorkerInApply,
                WorkerAfterApply, WorkerAt, WorkerSteps, lifeVars
  <2> QED
    BY <2>1, <2>2
<1>5. CASE ProcessStep
  <2>1. UNCHANGED <<boot, hooked, worker, attempt, logOwner>>
    BY <1>5 DEF ProcessStep, Resume, GameLoads, GameOpensSave, GameExits, DllUnloads, lifeVars
  <2>2. proc' \in {proc, "running", "exiting", "unloading"} /\ td' \in {td, "stop"}
    BY <1>5 DEF ProcessStep, Resume, GameLoads, GameOpensSave, GameExits, DllUnloads, lifeVars
  <2>3. opened' \subseteq {"mod", "vanilla"}
    BY <1>5 DEF ProcessStep, Resume, GameLoads, GameOpensSave, GameExits, DllUnloads, lifeVars
  <2> QED
    BY <2>1, <2>2, <2>3
<1>6. CASE TeardownStep
  <2>1. UNCHANGED <<boot, hooked, worker, attempt, logOwner, opened>>
    BY <1>6 DEF TeardownStep, TeardownStops, TeardownNothingToRestore, TeardownRestoreBegins,
                TeardownRestores, TeardownLine, TeardownCloses, TeardownCutShort
  <2>2. /\ proc' \in {proc, "unloaded", "gone"}
        /\ td' \in {td, "restore", "restoring", "log", "shutdown", "done"}
    BY <1>6 DEF TeardownStep, TeardownStops, TeardownNothingToRestore, TeardownRestoreBegins,
                TeardownRestores, TeardownLine, TeardownCloses, TeardownCutShort
  <2> QED
    BY <2>1, <2>2
<1> QED
  BY <1>1, <1>2, <1>3, <1>4, <1>5, <1>6 DEF CoreNext

LEMMA GateTypesStep == GateTypeOK /\ [CoreNext]_coreVars => GateTypeOK'
<1>1. ASSUME GateTypeOK, UNCHANGED gateVars PROVE GateTypeOK'
  BY <1>1 DEF GateTypeOK, gateVars
<1> QED
  BY <1>1, GateTypes DEF coreVars, CoreNext, BootStep, BootChecks, LogStep, WorkerStep,
                         ProcessStep, TeardownStep

(* Every variable of the program keeps its type, and the worker makes no   *)
(* more attempts than its bound.                                           *)
THEOREM CoreTypesAlways == CoreSpec => []CoreTypeOK
<1>1. IInv /\ GateTypeOK /\ Flags /\ LifeTypes => CoreTypeOK
  BY DEF IInv, Flags, LifeTypes, CoreTypeOK
<1> QED
  BY <1>1, CoreEngineInv, CoreTypesInit, GateTypesStep, FlagsStep, LifeTypesStep, PTL DEF CoreSpec

-----------------------------------------------------------------------------
(* Until teardown begins, a row has its vanilla HP or that HP scaled for   *)
(* the configured count; and outside the loops of apply(), either no row   *)
(* has been touched or every row is scaled.                                *)
ScaledForCount(r) ==
  \E pct \in Rates(r) :
    hp[r] \in Scaled(Vanilla[r], MulFrom(Clamped(DebugCount), pct))

ScaledInv ==
  /\ lost = {}
  /\ Alive /\ proc # "unloading" => td = "none"
  /\ td = "none" =>
       /\ pc[Teardown] = "idle"
       /\ \A r \in Rows : hp[r] = Vanilla[r] \/ ScaledForCount(r)
       /\ pc[Worker] = "rows" => \A r \in Rows \ todo[Worker] : ScaledForCount(r)
       /\ pc[Worker] \in {"idle", "bossMul", "collect"} =>
            DOMAIN backup = {} \/ \A r \in Rows : ScaledForCount(r)

LEMMA ScaledInvInit == CoreInit => ScaledInv
BY DEF CoreInit, Init, ScaledInv, NoBackup

(* A row the loop passes is scaled by a multiplier of the configured count.*)
LEMMA RowIsScaled ==
  ASSUME IInv, CountFixed, ScaledInv, WritesSucceed, td = "none",
         NEW r \in Rows,
         ApplySkipRow(Worker, r) \/ ApplyPatchRow(Worker, r) \/ ApplyKeepRow(Worker, r)
  PROVE  /\ \A q \in Rows \ {r} : hp'[q] = hp[q]
         /\ ScaledForCount(r)'
<1> DEFINE mul == RowMul(Worker, r)
<1>1. pc[Worker] = "rows"
  BY DEF ApplySkipRow, ApplyPatchRow, ApplyKeepRow, AtRow
<1>2. \E pct \in Rates(r) :
        mul = MulFrom(Clamped(DebugCount), pct)
  BY <1>1 DEF RowMul, CountFixed, Rates, IInv, TypeOK
<1>3. mul \in Int
  <2>1. Clamped(DebugCount) \in Int
    BY ScalingAssumption DEF Clamped
  <2>2. Rates(r) \subseteq Int
    BY RatesInt
  <2> QED
    BY <1>2, <2>1, <2>2, MulFromInt
<1>4. SUFFICES /\ \A q \in Rows \ {r} : hp'[q] = hp[q]
               /\ ScaledForCount(r)' \/ hp'[r] \in Scaled(Vanilla[r], mul)
  BY <1>2 DEF ScaledForCount
<1>5. Readable(r) /\ ~ WriteMayFail(r) /\ Vanilla[r] \in HpValues
  <2>1. page[r] \in PageStates
    BY DEF IInv, TypeOK
  <2>2. Vanilla[r] \in HpValues
    BY ScalingAssumption
  <2> QED
    BY <2>1, <2>2 DEF Readable, WriteMayFail, WritesSucceed
<1>6. hp[r] = Vanilla[r] \/ ScaledForCount(r)
  BY DEF ScaledInv
<1>7. CASE ApplySkipRow(Worker, r)
  <2>1. hp' = hp /\ mul = One
    BY <1>5, <1>7 DEF ApplySkipRow
  <2> QED
    BY <1>5, <1>6, <2>1, ScaledByOne DEF ScaledForCount, Rates, One
<1>8. ASSUME backup' = Snapshot(backup, r, hp[r]) PROVE backup'[r] = Vanilla[r]
  BY <1>8 DEF Snapshot, ScaledInv, IInv, SnapshotsAreVanilla, ChangesAreRecorded
<1>9. CASE ApplyPatchRow(Worker, r)
  BY <1>8, <1>9 DEF ApplyPatchRow, IInv, TypeOK
<1>10. CASE ApplyKeepRow(Worker, r)
  <2>1. hp' = hp /\ Vanilla[r] = 0
    BY <1>5, <1>8, <1>10 DEF ApplyKeepRow
  <2> QED
    BY <1>3, <1>5, <1>6, <2>1, ScaledZero DEF ScaledForCount
<1> QED
  BY <1>7, <1>9, <1>10

LEMMA ScaledInvStep ==
  ASSUME IInv, CountFixed, ScaledInv, WritesSucceed, [CoreNext]_coreVars
  PROVE  ScaledInv'
(* Steps that leave the calls and the rows alone, or end the DLL's life.   *)
<1>1. ASSUME UNCHANGED <<pc, hp, backup, todo, lost>>,
             UNCHANGED <<proc, td>> \/ (Alive /\ proc # "unloading" /\ UNCHANGED td)
               \/ (~ (Alive /\ proc # "unloading")' /\ td' # "none")
      PROVE  ScaledInv'
  BY <1>1 DEF ScaledInv, ScaledForCount, Alive
<1>2. CASE UNCHANGED coreVars \/ LogStep
  BY <1>1, <1>2 DEF coreVars, engineVars, lifeVars, vars, LogStep, StartLine, EndLine
<1>3. CASE BootStep
  BY <1>1, <1>3 DEF BootStep, BootChecks, BootLog, BootGate, BootInstall, BootCount, BootWorker,
                    SetCount, engineVars, lifeVars, vars
<1>4. CASE ProcessStep
  <2>1. CASE Resume \/ GameOpensSave
    BY <1>1, <2>1 DEF Resume, GameOpensSave, engineVars, vars, Alive
  <2>2. CASE GameExits \/ DllUnloads
    BY <1>1, <2>2 DEF GameExits, DllUnloads, engineVars, vars, Alive
  <2>3. CASE GameLoads
    BY <1>1, <2>3 DEF GameLoads, Game, LoadMaster, IndexTable, ChangePage, lifeVars
  <2> QED
    BY <1>4, <2>1, <2>2, <2>3 DEF ProcessStep
<1>5. CASE TeardownStep
  <2>1. proc \in {"exiting", "unloading"} /\ td # "none"
    BY <1>5 DEF TeardownStep, TeardownStops, TeardownNothingToRestore, TeardownRestoreBegins,
                TeardownRestores, TeardownLine, TeardownCloses, TeardownCutShort, TeardownAt,
                OrphanedLock, RestoreMustLog
  <2>2. proc' \in {"exiting", "unloading", "unloaded", "gone"} /\ td' # "none"
    BY <1>5, <2>1 DEF TeardownStep, TeardownStops, TeardownNothingToRestore,
                TeardownRestoreBegins, TeardownRestores, TeardownLine, TeardownCloses,
                TeardownCutShort
  <2>3. lost' = {}
    <3>1. CASE TeardownRestoreBegins \/ TeardownRestores
      BY <3>1 DEF TeardownRestoreBegins, TeardownRestores, RestoreBegin, RevertStep, RevertRow,
                  RevertMiss, RevertReturn, WriteMayFail, WritesSucceed, IInv, TypeOK, ScaledInv
    <3> QED
      BY <1>5, <3>1 DEF TeardownStep, TeardownStops, TeardownNothingToRestore, TeardownLine,
                        TeardownCloses, TeardownCutShort, engineVars, vars, ScaledInv
  <2> QED
    BY <2>2, <2>3 DEF ScaledInv, Alive
<1>6. CASE WorkerStep
  <2>1. UNCHANGED <<proc, td>>
    BY <1>6 DEF WorkerStep, WorkerLoops, WorkerGivesUp, WorkerCallsApply, WorkerInApply,
                WorkerAfterApply, lifeVars
  <2>2. CASE WorkerLoops \/ WorkerGivesUp \/ WorkerAfterApply
    BY <1>1, <2>1, <2>2 DEF WorkerLoops, WorkerGivesUp, WorkerAfterApply, engineVars, vars
  <2>3. CASE CallApply(Worker)
    <3>1. CASE ApplyNotReady(Worker) \/ ApplyNoEnemyParam(Worker)
      BY <1>1, <2>1, <3>1 DEF ApplyNotReady, ApplyNoEnemyParam
    <3>2. CASE ApplyBegin(Worker)
      BY <2>1, <3>2 DEF ApplyBegin, ScaledInv, ScaledForCount, Alive, IInv, TypeOK
    <3> QED
      BY <2>3, <3>1, <3>2 DEF CallApply
  <2>4. CASE ApplyBossMul(Worker)
    BY <2>1, <2>4 DEF ApplyBossMul, Return, ScaledInv, ScaledForCount, Alive, IInv, TypeOK
  <2>5. CASE ApplyCollect(Worker)
    <3>1. Readable(Header)
      BY DEF Readable, WritesSucceed, IInv, TypeOK
    <3> QED
      BY <2>1, <2>5, <3>1 DEF ApplyCollect, ScaledInv, ScaledForCount, Alive, IInv, TypeOK
  <2>6. CASE \E r \in Rows : ApplySkipRow(Worker, r) \/ ApplyPatchRow(Worker, r)
                             \/ ApplyKeepRow(Worker, r)
    <3> PICK r \in Rows : ApplySkipRow(Worker, r) \/ ApplyPatchRow(Worker, r)
                          \/ ApplyKeepRow(Worker, r)
      BY <2>6
    <3>1. /\ pc[Worker] = "rows" /\ UNCHANGED <<pc, lost>>
          /\ todo'[Worker] = todo[Worker] \ {r}
      BY DEF ApplySkipRow, ApplyPatchRow, ApplyKeepRow, AtRow, IInv, TypeOK
    <3>2. ASSUME td = "none"
          PROVE  ScaledForCount(r)' /\ \A q \in Rows \ {r} : hp'[q] = hp[q]
      BY <3>2, RowIsScaled
    <3> QED
      BY <2>1, <3>1, <3>2 DEF ScaledInv, ScaledForCount, Alive
  <2>7. CASE ApplyReturn(Worker)
    BY <2>1, <2>7 DEF ApplyReturn, Return, ScaledInv, ScaledForCount, Alive, IInv, TypeOK
  <2>8. CASE RevertReturn(Worker)
    BY <2>1, <2>8 DEF RevertReturn, Return, Cleared, NoBackup, ScaledInv, ScaledForCount, Alive,
                      IInv, TypeOK
  <2>9. CASE \E r \in Rows : RevertRow(Worker, r) \/ RevertMiss(Worker, r)
    <3> PICK r \in Rows : RevertRow(Worker, r) \/ RevertMiss(Worker, r)
      BY <2>9
    <3>1. /\ pc[Worker] \in {"revert", "restore"} /\ UNCHANGED <<pc, lost>>
          /\ r \in DOMAIN backup
          /\ hp' = [hp EXCEPT ![r] = backup[r]]
      BY DEF RevertRow, RevertMiss, Reverting, WriteMayFail, WritesSucceed, IInv, TypeOK,
             RevertProgress
    <3>2. backup[r] = Vanilla[r] /\ hp \in [Rows -> HpValues]
      BY <3>1 DEF IInv, TypeOK, SnapshotsAreVanilla, ScaledInv
    <3> QED
      BY <2>1, <3>1, <3>2 DEF ScaledInv, ScaledForCount, Alive
  <2> QED
    BY <1>6, <2>2, <2>3, <2>4, <2>5, <2>6, <2>7, <2>8, <2>9
       DEF WorkerStep, WorkerCallsApply, WorkerInApply, ApplyStep, RevertStep
<1> QED
  BY <1>2, <1>3, <1>4, <1>5, <1>6 DEF CoreNext

(* Where pages stay and can be written, a worker that is done has scaled   *)
(* every row for the configured count, or found nothing to scale.          *)
THEOREM ScaledOnceDoneAlways ==
  ASSUME WritesSucceed
  PROVE  CoreSpec => []ScaledOnceDone
<1>1. IInv /\ CountFixed /\ ScaledInv /\ [CoreNext]_coreVars => ScaledInv'
  BY ScaledInvStep
<1>2. CountFixed /\ ScaledInv => ScaledOnceDone
  BY DEF CountFixed, ScaledInv, ScaledForCount, ScaledOnceDone
<1> QED
  BY <1>1, <1>2, CoreEngineInv, CountFixedAlways, ScaledInvInit, PTL DEF CoreSpec

-----------------------------------------------------------------------------
(* Who moves the worker and who moves teardown().                          *)
LEMMA WorkerMoves ==
  ASSUME IInv, [CoreNext]_coreVars
  PROVE  \/ UNCHANGED <<worker, attempt, pc[Worker], todo[Worker]>>
         \/ WorkerStep
         \/ BootWorker("none")
<1>1. CASE UNCHANGED coreVars \/ LogStep
  BY <1>1 DEF coreVars, engineVars, lifeVars, vars, LogStep, StartLine, EndLine
<1>2. CASE BootStep
  BY <1>2 DEF BootStep, BootChecks, BootLog, BootGate, BootInstall, BootCount, SetCount, engineVars,
              lifeVars, vars
<1>3. CASE ProcessStep
  BY <1>3 DEF ProcessStep, Resume, GameLoads, Game, LoadMaster, IndexTable, ChangePage,
              GameOpensSave, GameExits, DllUnloads, engineVars, lifeVars, vars
<1>4. CASE TeardownStep
  <2>1. CASE TeardownRestoreBegins \/ TeardownRestores
    BY <2>1 DEF TeardownRestoreBegins, TeardownRestores, RestoreBegin, RevertStep, RevertRow,
                RevertMiss, RevertReturn, Return, IInv, TypeOK
  <2> QED
    BY <1>4, <2>1 DEF TeardownStep, TeardownStops, TeardownNothingToRestore, TeardownLine,
                      TeardownCloses, TeardownCutShort, engineVars, vars
<1> QED
  BY <1>1, <1>2, <1>3, <1>4 DEF CoreNext

LEMMA TeardownMoves ==
  ASSUME IInv, [CoreNext]_coreVars
  PROVE  \/ UNCHANGED <<td, pc[Teardown], todo[Teardown]>>
         \/ GameExits \/ DllUnloads
         \/ TeardownStep
<1>1. CASE UNCHANGED coreVars \/ LogStep
  BY <1>1 DEF coreVars, engineVars, lifeVars, vars, LogStep, StartLine, EndLine
<1>2. CASE BootStep
  BY <1>2 DEF BootStep, BootChecks, BootLog, BootGate, BootInstall, BootCount, BootWorker, SetCount,
              engineVars, lifeVars, vars
<1>3. CASE ProcessStep
  BY <1>3 DEF ProcessStep, Resume, GameLoads, Game, LoadMaster, IndexTable, ChangePage,
              GameOpensSave, engineVars, lifeVars, vars
<1>4. CASE WorkerStep
  <2>1. CASE WorkerLoops \/ WorkerGivesUp \/ WorkerAfterApply
    BY <2>1 DEF WorkerLoops, WorkerGivesUp, WorkerAfterApply, engineVars, vars
  <2>2. CASE WorkerCallsApply
    BY <2>2 DEF WorkerCallsApply, CallApply, ApplyNotReady, ApplyNoEnemyParam, ApplyBegin, IInv,
                TypeOK
  <2>3. CASE WorkerInApply
    BY <2>3 DEF WorkerInApply, lifeVars, ApplyStep, ApplyBossMul, ApplyCollect, ApplySkipRow,
                ApplyPatchRow, ApplyKeepRow, AtRow, ApplyReturn, RevertStep, RevertRow,
                RevertMiss, RevertReturn, Return, IInv, TypeOK
  <2> QED
    BY <1>4, <2>1, <2>2, <2>3 DEF WorkerStep
<1> QED
  BY <1>1, <1>2, <1>3, <1>4 DEF CoreNext

-----------------------------------------------------------------------------
(* The only mutexes teardown can be stuck at are those of killed threads,  *)
(* and nothing happens in a process that is gone.                          *)
MutexInv ==
  /\ pc[Teardown] # "idle" => td = "restoring"
  /\ proc = "gone" /\ td # "done" => OrphanedLock

LEMMA MutexInvInit == CoreInit => MutexInv
BY DEF CoreInit, Init, MutexInv

LEMMA GoneIsFinal == proc = "gone" /\ [CoreNext]_coreVars => UNCHANGED coreVars
<1> SUFFICES ASSUME proc = "gone", CoreNext PROVE FALSE
  BY Zenon
<1>1. ~ Alive /\ ~ Playing /\ ~ proc \in {"exiting", "unloading"}
  BY DEF Alive, Playing
<1> QED
  BY <1>1 DEF CoreNext, LogStep, StartLine, EndLine, BootStep, BootChecks, BootLog, BootGate,
              BootInstall, BootCount, BootWorker, BootAt, WorkerStep, WorkerLoops, WorkerGivesUp,
              WorkerCallsApply, WorkerInApply, WorkerAfterApply, WorkerAt, ProcessStep, Resume,
              GameLoads, GameOpensSave, GameExits, DllUnloads, TeardownStep, TeardownStops,
              TeardownNothingToRestore, TeardownRestoreBegins, TeardownRestores, TeardownLine,
              TeardownCloses, TeardownCutShort, TeardownAt

LEMMA MutexInvStep ==
  ASSUME IInv, LifeTypes, TeardownAlone, MutexInv, [CoreNext]_coreVars
  PROVE  MutexInv'
<1>1. pc'[Teardown] # "idle" => td' = "restoring"
  <2>1. CASE UNCHANGED <<td, pc[Teardown], todo[Teardown]>>
    BY <2>1 DEF MutexInv
  <2>2. CASE GameExits \/ DllUnloads
    BY <2>2 DEF GameExits, DllUnloads, engineVars, vars, MutexInv, TeardownAlone, Alive
  <2>3. CASE TeardownRestoreBegins
    BY <2>3 DEF TeardownRestoreBegins
  <2>4. CASE TeardownRestores
    BY <2>4 DEF TeardownRestores
  <2>5. CASE TeardownStep /\ ~ TeardownRestoreBegins /\ ~ TeardownRestores
    BY <2>5 DEF TeardownStep, TeardownStops, TeardownNothingToRestore, TeardownLine,
                TeardownCloses, TeardownCutShort, TeardownAt, OrphanedLock, RestoreMustLog,
                engineVars, vars, MutexInv
  <2> QED
    BY <2>1, <2>2, <2>3, <2>4, <2>5, TeardownMoves
<1>2. ASSUME proc' = "gone", td' # "done" PROVE OrphanedLock'
  <2>1. CASE proc = "gone"
    BY <1>2, <2>1, GoneIsFinal DEF MutexInv, OrphanedLock, RestoreMustLog, coreVars, engineVars,
                                   lifeVars, vars
  <2>2. CASE proc # "gone"
    <3>1. TeardownCutShort
      BY <1>2, <2>2 DEF CoreNext, coreVars, lifeVars, LogStep, StartLine, EndLine, BootStep,
              BootChecks, BootLog, BootGate, BootInstall, BootCount, BootWorker, WorkerStep,
              WorkerLoops, WorkerGivesUp, WorkerCallsApply, WorkerInApply, WorkerAfterApply,
              ProcessStep, Resume, GameLoads, GameOpensSave, GameExits, DllUnloads, TeardownStep,
              TeardownStops, TeardownNothingToRestore, TeardownRestoreBegins, TeardownRestores,
              TeardownLine, TeardownCloses
    <3> QED
      BY <3>1 DEF TeardownCutShort, OrphanedLock, RestoreMustLog, engineVars, vars
  <2> QED
    BY <2>1, <2>2
<1> QED
  BY <1>1, <1>2 DEF MutexInv

(* Only a worker killed inside apply(), or a thread killed writing a line, *)
(* keeps teardown from its own line.                                       *)
THEOREM CutShortAlways == CoreSpec => []CutShortByKilledHolder
<1>1. ASSUME IInv, CountFixed, LifeTypes, MutexInv PROVE CutShortByKilledHolder
  <2> SUFFICES ASSUME proc = "gone", td # "done"
               PROVE  \/ td = "restore" /\ worker = "apply" /\ pc[Worker] # "idle"
                      \/ td # "restore" /\ logOwner \in {Bootstrap, Worker, Game1}
    BY DEF CutShortByKilledHolder
  <2>1. CASE td = "restore" /\ owner # NoThread
    <3>1. owner \in {Worker, Teardown} /\ pc[owner] # "idle"
      BY <1>1, <2>1 DEF IInv, TypeOK, OwnerOnly
    <3> QED
      BY <1>1, <2>1, <3>1 DEF MutexInv, CountFixed
  <2>2. CASE (td \in {"log", "shutdown"} \/ RestoreMustLog) /\ logOwner # NoThread
    BY <1>1, <2>2 DEF RestoreMustLog, LifeTypes
  <2> QED
    BY <1>1, <2>1, <2>2 DEF MutexInv, OrphanedLock
<1>2. IInv /\ LifeTypes /\ TeardownAlone /\ MutexInv /\ [CoreNext]_coreVars => MutexInv'
  BY MutexInvStep
<1>3. IInv /\ TeardownAlone /\ [CoreNext]_coreVars => TeardownAlone'
  BY TeardownAloneStep
<1> QED
  BY <1>1, <1>2, <1>3, CoreEngineInv, CountFixedAlways, CoreTypesInit, LifeTypesStep,
     TeardownAloneInit, MutexInvInit, PTL DEF CoreSpec

-----------------------------------------------------------------------------
(* A call under way gets shorter with each of its steps.                   *)
LEMMA CallAdvances ==
  ASSUME IInv, ApplyStep(Worker) \/ RevertStep(Worker), worker = "apply",
         UNCHANGED <<worker, attempt>>
  PROVE  WorkerAdvances
<1> USE DEF WorkerAdvances, WorkerStage, CallStage
<1>1. CASE ApplyBossMul(Worker) \/ ApplyCollect(Worker)
  BY <1>1 DEF ApplyBossMul, ApplyCollect, Return, IInv, TypeOK
<1>2. CASE ApplyReturn(Worker) \/ RevertReturn(Worker)
  BY <1>2 DEF ApplyReturn, RevertReturn, Reverting, Return, IInv, TypeOK
<1>3. ASSUME NEW r \in Rows, r \in todo[Worker], todo' = [todo EXCEPT ![Worker] = @ \ {r}],
             UNCHANGED pc
      PROVE  WorkerAdvances
  <2>1. VisitsRow(Worker)
    BY <1>3 DEF VisitsRow, IInv, TypeOK
  <2> QED
    BY <1>3, <2>1
<1>4. CASE \E r \in Rows : \/ ApplySkipRow(Worker, r) \/ ApplyPatchRow(Worker, r)
                           \/ ApplyKeepRow(Worker, r) \/ RevertRow(Worker, r)
                           \/ RevertMiss(Worker, r)
  BY <1>3, <1>4 DEF ApplySkipRow, ApplyPatchRow, ApplyKeepRow, AtRow, RevertRow, RevertMiss
<1> QED
  BY <1>1, <1>2, <1>4 DEF ApplyStep, RevertStep

LEMMA WorkerStepAdvances ==
  ASSUME IInv, CountFixed, LifeTypes, [CoreNext]_coreVars
  PROVE  WorkerAdvances \/ UNCHANGED <<worker, attempt, pc[Worker], todo[Worker]>>
<1> USE DEF WorkerAdvances, WorkerStage, CallStage
<1>1. CASE BootWorker("none")
  BY <1>1 DEF BootWorker, BootAt, CountFixed, engineVars, vars
<1>2. CASE WorkerLoops \/ WorkerGivesUp
  BY <1>2 DEF WorkerLoops, WorkerGivesUp, WorkerAt
<1>3. CASE WorkerCallsApply
  <2>1. pc'[Worker] \in {"idle", "bossMul"} /\ worker = "call" /\ worker' = "apply"
        /\ UNCHANGED attempt
    BY <1>3 DEF WorkerCallsApply, WorkerAt, CallApply, ApplyNotReady, ApplyNoEnemyParam,
                ApplyBegin, IInv, TypeOK
  <2> QED
    BY <2>1
<1>4. CASE WorkerInApply
  BY <1>4, CallAdvances DEF WorkerInApply, WorkerAt, lifeVars
<1>5. CASE WorkerAfterApply
  BY <1>5 DEF WorkerAfterApply, WorkerAt, LifeTypes, engineVars, vars
<1> QED
  BY <1>1, <1>2, <1>3, <1>4, <1>5, WorkerMoves DEF WorkerStep

LEMMA TeardownStepAdvances ==
  ASSUME IInv, TeardownAlone, [CoreNext]_coreVars
  PROVE  TeardownAdvances \/ UNCHANGED <<td, pc[Teardown], todo[Teardown]>>
<1> USE DEF TeardownAdvances, TeardownStage
<1>1. CASE GameExits \/ DllUnloads
  BY <1>1 DEF GameExits, DllUnloads, TeardownAlone, Alive
<1>2. CASE TeardownStops \/ TeardownNothingToRestore \/ TeardownRestoreBegins \/ TeardownLine
           \/ TeardownCloses
  BY <1>2 DEF TeardownStops, TeardownNothingToRestore, TeardownRestoreBegins, TeardownLine,
              TeardownCloses, TeardownAt
<1>3. CASE TeardownRestores
  <2>1. CASE RevertReturn(Teardown)
    BY <1>3, <2>1 DEF TeardownRestores, TeardownAt, RevertReturn, Return, IInv, TypeOK
  <2>2. CASE \E r \in Rows : RevertRow(Teardown, r) \/ RevertMiss(Teardown, r)
    <3>1. VisitsRow(Teardown) /\ pc' = pc /\ Reverting(Teardown)
      BY <2>2 DEF VisitsRow, RevertRow, RevertMiss, IInv, TypeOK
    <3> QED
      BY <1>3, <3>1 DEF TeardownRestores, TeardownAt, Reverting
  <2> QED
    BY <1>3, <2>1, <2>2 DEF TeardownRestores, RevertStep
<1>4. CASE TeardownCutShort
  BY <1>4 DEF TeardownCutShort, engineVars, vars
<1> QED
  BY <1>1, <1>2, <1>3, <1>4, TeardownMoves DEF TeardownStep

(* The worker and teardown() never go back, whatever runs beside them.     *)
THEOREM ThreadsOnlyAdvanceAlways == CoreSpec => ThreadsOnlyAdvance
<1>1. IInv /\ CountFixed /\ LifeTypes /\ TeardownAlone /\ [CoreNext]_coreVars =>
        [/\ WorkerAdvances \/ UNCHANGED <<worker, attempt, pc[Worker], todo[Worker]>>
         /\ TeardownAdvances \/ UNCHANGED <<td, pc[Teardown], todo[Teardown]>>]_coreVars
  BY WorkerStepAdvances, TeardownStepAdvances, Zenon
<1>2. IInv /\ TeardownAlone /\ [CoreNext]_coreVars => TeardownAlone'
  BY TeardownAloneStep
<1> QED
  BY <1>1, <1>2, CoreEngineInv, CountFixedAlways, CoreTypesInit, LifeTypesStep, TeardownAloneInit,
     PTL DEF CoreSpec, ThreadsOnlyAdvance
=============================================================================

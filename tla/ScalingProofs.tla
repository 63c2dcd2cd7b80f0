--------------------------- MODULE ScalingProofs ----------------------------
(***************************************************************************)
(* Proofs about Scaling, for every table, every player count and every     *)
(* number of threads: the inductive invariant IInv, the safety properties  *)
(* it contains, and the refinement of HpLedger.                            *)
(***************************************************************************)
EXTENDS Scaling, ScaleArithProofs

USE WidthAssumption, ScalingAssumption

-----------------------------------------------------------------------------
(* The arithmetic.                                                         *)

LEMMA CountValuesInt == CountValues \subseteq Int /\ \A k \in CountValues : k >= 1
BY DEF CountValues, Clamped

LEMMA MultipliersInt == Multipliers \cup {One} \subseteq Int
<1>1. \A k \in CountValues, pct \in {EnemyPct, BossPct} : MulFrom(k, pct) \in Int
  BY CountValuesInt, MulFromInt
<1> QED
  BY <1>1 DEF Multipliers, One

LEMMA RatesInt ==
  ASSUME NEW r \in Rows
  PROVE  Rates(r) \subseteq {EnemyPct, BossPct} /\ Rates(r) \subseteq Int
BY DEF Rates

LEMMA AllowedBounds ==
  ASSUME NEW r \in Rows
  PROVE  Allowed[r] \subseteq HpValues
<1>1. Vanilla[r] \in HpValues /\ Vanilla[r] \in Int
  BY DEF HpValues
<1>2. \A k \in CountValues, p \in Rates(r) : MulFrom(k, p) \in Int
  BY RatesInt, CountValuesInt, MulFromInt
<1>3. \A k \in CountValues, p \in Rates(r) : Scaled(Vanilla[r], MulFrom(k, p)) \subseteq HpValues
  BY <1>1, <1>2, ScaledBounds
<1> QED
  BY <1>1, <1>3 DEF Allowed, ScaledValues

(* A multiplier read from a player count in use is one of Multipliers.     *)
LEMMA MulFromCount ==
  ASSUME NEW k \in CountValues, NEW pct \in {EnemyPct, BossPct}
  PROVE  MulFrom(k, pct) \in Multipliers
BY DEF Multipliers

-----------------------------------------------------------------------------
(* Initially.                                                              *)
LEMMA InitIInv == Init => IInv
<1> SUFFICES ASSUME Init PROVE IInv
  OBVIOUS
<1> USE DEF Init
<1>1. DOMAIN backup = {}
  BY DEF NoBackup
<1>2. TypeOK
  <2>1. n \in CountValues /\ n >= 1
    BY DEF CountValues
  <2>2. backup \in [DOMAIN backup -> HpValues]
    BY <1>1 DEF NoBackup
  <2>3. hp \in [Rows -> HpValues]
    OBVIOUS
  <2> QED
    BY <1>1, <2>1, <2>2, <2>3 DEF TypeOK
<1>3. OwnerOnly
  BY DEF OwnerOnly
<1>4. SnapshotsAreVanilla /\ ChangesAreRecorded
  BY <1>1 DEF SnapshotsAreVanilla, ChangesAreRecorded
<1>5. NeverCompounds
  BY DEF NeverCompounds, Allowed
<1>6. RevertProgress /\ RatesByCategory
  BY DEF RevertProgress, Reverting, RatesByCategory
<1> QED
  BY <1>2, <1>3, <1>4, <1>5, <1>6 DEF IInv

-----------------------------------------------------------------------------
(* One step.                                                               *)

(* A free mutex means that no thread is in a call; a thread in a call is   *)
(* alone in one.                                                           *)
LEMMA Exclusion ==
  ASSUME OwnerOnly
  PROVE  /\ owner = NoThread => \A t \in Threads : pc[t] = "idle"
         /\ \A t, u \in Threads : pc[t] # "idle" /\ pc[u] # "idle" => t = u
BY DEF OwnerOnly

(* The actions that touch neither a row, nor the snapshot, nor a call.     *)
LEMMA EnvironmentIInv ==
  ASSUME IInv,
         (\E k \in Counts : SetCount(k)) \/ Game
         \/ (\E t \in Threads : ApplyNotReady(t) \/ ApplyNoEnemyParam(t))
  PROVE  IInv'
<1> USE DEF IInv
<1>1. UNCHANGED <<hp, backup, owner, pc, multipliers, todo, lost>>
  BY DEF SetCount, Game, LoadMaster, IndexTable, ChangePage, ApplyNotReady,
         ApplyNoEnemyParam
<1>2. TypeOK'
  <2>1. n' \in CountValues /\ n' >= 1
    <3>1. CASE \E k \in Counts : SetCount(k)
      BY <3>1, CountValuesInt DEF SetCount, CountValues
    <3>2. CASE Game \/ \E t \in Threads : ApplyNotReady(t) \/ ApplyNoEnemyParam(t)
      <4>1. n' = n
        BY <3>2 DEF Game, LoadMaster, IndexTable, ChangePage, ApplyNotReady,
                    ApplyNoEnemyParam, gameVars
      <4> QED
        BY <4>1 DEF TypeOK
    <3> QED
      BY <3>1, <3>2
  <2>2. master' \in BOOLEAN /\ indexed' \subseteq Tables
        /\ page' \in [Rows \cup {Header} -> PageStates]
    <3> USE DEF TypeOK, gameVars
    <3>1. CASE Game
      <4>1. CASE LoadMaster \/ \E p \in Tables : IndexTable(p)
        BY <4>1 DEF LoadMaster, IndexTable
      <4>2. ASSUME NEW r \in Rows \cup {Header}, NEW s \in PageStates, ChangePage(r, s)
            PROVE  master' \in BOOLEAN /\ indexed' \subseteq Tables
                   /\ page' \in [Rows \cup {Header} -> PageStates]
        BY <4>2 DEF ChangePage
      <4> QED
        BY <3>1, <4>1, <4>2 DEF Game
    <3>2. CASE ~ Game
      BY <3>2 DEF SetCount, ApplyNotReady, ApplyNoEnemyParam
    <3> QED
      BY <3>1, <3>2
  <2>3. ret' \in [Threads -> {-1, 0}]
    BY DEF TypeOK, SetCount, Game, LoadMaster, IndexTable, ChangePage,
           ApplyNotReady, ApplyNoEnemyParam
  <2> QED
    BY <1>1, <2>1, <2>2, <2>3 DEF TypeOK, multipliers
<1>3. OwnerOnly' /\ RevertProgress' /\ RatesByCategory'
  BY <1>1 DEF OwnerOnly, RevertProgress, Reverting, RatesByCategory, multipliers
<1>4. SnapshotsAreVanilla' /\ ChangesAreRecorded' /\ NeverCompounds'
  BY <1>1 DEF SnapshotsAreVanilla, ChangesAreRecorded, NeverCompounds
<1> QED
  BY <1>2, <1>3, <1>4

(* The steps of a call that read, lock or unlock, but write no row.        *)
LEMMA ControlIInv ==
  ASSUME IInv, NEW t \in Threads,
         \/ ApplyBegin(t) \/ ApplyBossMul(t) \/ ApplyCollect(t)
         \/ (\E r \in Rows : ApplySkipRow(t, r))
         \/ ApplyReturn(t) \/ RestoreBegin(t)
  PROVE  IInv'
<1> USE DEF IInv
<1>1. UNCHANGED <<n, master, indexed, page, hp, backup, lost>>
  BY DEF ApplyBegin, ApplyBossMul, ApplyCollect, ApplySkipRow, ApplyReturn,
         RestoreBegin, gameVars
<1>2. SnapshotsAreVanilla' /\ ChangesAreRecorded' /\ NeverCompounds'
  BY <1>1 DEF SnapshotsAreVanilla, ChangesAreRecorded, NeverCompounds
<1>3. TypeOK'
  <2> USE DEF TypeOK
  <2>1. CASE ApplyBegin(t)
    <3>1. MulFrom(n, EnemyPct) \in Multipliers
      BY MulFromCount
    <3> QED
      BY <1>1, <2>1, <3>1 DEF ApplyBegin, Lock
  <2>2. CASE ApplyBossMul(t)
    <3>1. MulFrom(n, BossPct) \in Multipliers
      BY MulFromCount
    <3> QED
      BY <1>1, <2>2, <3>1 DEF ApplyBossMul, Return, multipliers
  <2>3. CASE ApplyCollect(t)
    BY <1>1, <2>3 DEF ApplyCollect
  <2>4. CASE \E r \in Rows : ApplySkipRow(t, r)
    BY <1>1, <2>4 DEF ApplySkipRow, AtRow, multipliers
  <2>5. CASE ApplyReturn(t)
    BY <1>1, <2>5 DEF ApplyReturn, Return
  <2>6. CASE RestoreBegin(t)
    BY <1>1, <2>6 DEF RestoreBegin, Lock, multipliers
  <2> QED
    BY <2>1, <2>2, <2>3, <2>4, <2>5, <2>6
<1>4. OwnerOnly'
  BY Exclusion DEF TypeOK, OwnerOnly, ApplyBegin, ApplyBossMul, ApplyCollect,
         ApplySkipRow, AtRow, ApplyReturn, RestoreBegin, Lock, Return
<1>5. RevertProgress'
  <2> SUFFICES ASSUME NEW u \in Threads, Reverting(u)'
               PROVE  /\ todo'[u] \subseteq DOMAIN backup
                      /\ \A r \in Rows \ (todo'[u] \cup lost) : hp[r] = Vanilla[r]
    BY <1>1 DEF RevertProgress
  <2>1. CASE Reverting(u) /\ u # t
    BY <2>1, Exclusion DEF TypeOK, Reverting, ApplyBegin, ApplyBossMul, ApplyCollect,
           ApplySkipRow, AtRow, ApplyReturn, RestoreBegin, Lock
  <2>2. CASE ~ (Reverting(u) /\ u # t)
    <3>1. u = t /\ todo'[u] = DOMAIN backup
      BY <2>2 DEF TypeOK, Reverting, ApplyBegin, ApplyBossMul, ApplyCollect,
             ApplySkipRow, AtRow, ApplyReturn, RestoreBegin, Return
    <3> QED
      BY <3>1 DEF ChangesAreRecorded
  <2> QED
    BY <2>1, <2>2
<1>6. RatesByCategory'
  <2>1. n \in CountValues
    BY DEF TypeOK
  <2>2. CASE ApplyBegin(t) \/ ApplyBossMul(t)
    BY <2>1, <2>2 DEF TypeOK, RatesByCategory, ApplyBegin, ApplyBossMul, Lock, Return, multipliers
  <2>3. CASE ApplyCollect(t) \/ (\E r \in Rows : ApplySkipRow(t, r))
    BY <2>3 DEF TypeOK, RatesByCategory, ApplyCollect, ApplySkipRow, AtRow, multipliers
  <2>4. CASE ApplyReturn(t) \/ RestoreBegin(t)
    BY <2>4 DEF TypeOK, RatesByCategory, ApplyReturn, RestoreBegin, Lock, Return, multipliers
  <2> QED
    BY <2>2, <2>3, <2>4
<1> QED
  BY <1>2, <1>3, <1>4, <1>5, <1>6

(* One iteration of apply's loop that reads a row.  A row read for the     *)
(* first time is vanilla, because every changed row is in the snapshot;    *)
(* after that its original comes from the snapshot.  Nothing is said of a  *)
(* row that an earlier revert lost.                                        *)
LEMMA RowIInv ==
  ASSUME IInv, NEW t \in Threads, NEW r \in Rows,
         ApplyPatchRow(t, r) \/ ApplyKeepRow(t, r)
  PROVE  IInv'
<1> USE DEF IInv
<1>1. /\ pc[t] = "rows" /\ UNCHANGED <<n, gameVars, owner, pc, multipliers, ret, lost>>
      /\ backup' = Snapshot(backup, r, hp[r])
      /\ todo' = [todo EXCEPT ![t] = @ \ {r}]
  BY DEF ApplyPatchRow, ApplyKeepRow, AtRow
<1>2. DOMAIN backup' = DOMAIN backup \cup {r}
  BY <1>1 DEF Snapshot
<1>3. backup' \in [DOMAIN backup' -> HpValues]
  BY <1>1, <1>2 DEF Snapshot, TypeOK
<1>4. SnapshotsAreVanilla'
  <2> SUFFICES ASSUME NEW q \in DOMAIN backup \cup {r}, q \notin lost
               PROVE  backup'[q] = Vanilla[q]
    BY <1>1, <1>2 DEF SnapshotsAreVanilla
  <2>1. CASE q \in DOMAIN backup
    BY <1>1, <2>1 DEF SnapshotsAreVanilla, Snapshot
  <2>2. CASE q \notin DOMAIN backup
    BY <1>1, <2>2 DEF ChangesAreRecorded, Snapshot
  <2> QED
    BY <2>1, <2>2
<1>5. RowMul(t, r) \in Int
  BY MultipliersInt DEF RowMul, TypeOK
<1>6. \A q \in Rows : q # r => hp'[q] = hp[q]
  BY DEF ApplyPatchRow, ApplyKeepRow, TypeOK
<1>7. hp' \in [Rows -> HpValues] /\ (r \notin lost => hp'[r] \in Allowed[r])
  <2>1. CASE ApplyKeepRow(t, r)
    BY <2>1 DEF ApplyKeepRow, TypeOK, NeverCompounds
  <2>2. CASE ApplyPatchRow(t, r)
    <3>1. PICK v \in Scaled(backup'[r], RowMul(t, r)) : hp' = [hp EXCEPT ![r] = v]
      BY <2>2 DEF ApplyPatchRow
    <3>2. backup'[r] \in Int
      BY <1>2, <1>3 DEF HpValues
    <3>3. v \in HpValues
      BY <1>5, <3>1, <3>2, ScaledBounds
    <3>4. \E k \in CountValues, p \in Rates(r) : RowMul(t, r) = MulFrom(k, p)
      BY <1>1 DEF RowMul, RatesByCategory, Rates, TypeOK
    <3>5. r \notin lost => backup'[r] = Vanilla[r]
      BY <1>1, <1>2, <1>4 DEF SnapshotsAreVanilla
    <3>6. r \notin lost => v \in Allowed[r]
      BY <3>1, <3>4, <3>5 DEF Allowed, ScaledValues
    <3> QED
      BY <3>1, <3>3, <3>6 DEF TypeOK
  <2> QED
    BY <2>1, <2>2
<1>8. TypeOK'
  BY <1>1, <1>2, <1>3, <1>7 DEF TypeOK, gameVars, multipliers
<1>9. OwnerOnly' /\ RatesByCategory'
  BY <1>1 DEF OwnerOnly, RatesByCategory, multipliers
<1>10. ChangesAreRecorded' /\ NeverCompounds'
  BY <1>1, <1>2, <1>6, <1>7 DEF ChangesAreRecorded, NeverCompounds
<1>11. RevertProgress'
  BY <1>1, Exclusion DEF RevertProgress, Reverting
<1> QED
  BY <1>4, <1>8, <1>9, <1>10, <1>11

(* One iteration of a revert.  Only the reverting thread is in a call, so  *)
(* no other revert's progress is disturbed.                                *)
LEMMA RevertRowIInv ==
  ASSUME IInv, NEW t \in Threads, NEW r \in Rows,
         RevertRow(t, r) \/ RevertMiss(t, r)
  PROVE  IInv'
<1> USE DEF IInv
<1>1. /\ Reverting(t) /\ r \in todo[t]
      /\ UNCHANGED <<n, gameVars, backup, owner, pc, multipliers, ret>>
      /\ todo' = [todo EXCEPT ![t] = @ \ {r}]
      /\ lost \subseteq lost' /\ lost' \subseteq lost \cup {r}
  BY DEF RevertRow, RevertMiss
<1>2. r \in DOMAIN backup
  BY <1>1 DEF RevertProgress
<1>3. \A q \in Rows : q # r => hp'[q] = hp[q]
  BY DEF RevertRow, RevertMiss, TypeOK
<1>4. hp' \in [Rows -> HpValues] /\ (r \notin lost' => hp'[r] = Vanilla[r])
  <2>1. CASE RevertRow(t, r)
    BY <1>2, <2>1 DEF RevertRow, TypeOK, SnapshotsAreVanilla
  <2>2. CASE RevertMiss(t, r)
    BY <2>2 DEF RevertMiss, TypeOK
  <2> QED
    BY <2>1, <2>2
<1>5. TypeOK'
  BY <1>1, <1>4 DEF TypeOK, gameVars, multipliers
<1>6. OwnerOnly' /\ RatesByCategory'
  BY <1>1 DEF OwnerOnly, RatesByCategory, multipliers
<1>7. SnapshotsAreVanilla'
  BY <1>1 DEF SnapshotsAreVanilla
<1>8. ChangesAreRecorded' /\ NeverCompounds'
  BY <1>1, <1>3, <1>4 DEF ChangesAreRecorded, NeverCompounds, Allowed
<1>9. RevertProgress'
  <2> SUFFICES ASSUME NEW u \in Threads, Reverting(u)
               PROVE  /\ todo'[u] \subseteq DOMAIN backup
                      /\ \A q \in Rows \ (todo'[u] \cup lost') : hp'[q] = Vanilla[q]
    BY <1>1 DEF RevertProgress, Reverting
  <2>1. u = t
    BY <1>1, Exclusion DEF Reverting
  <2>2. todo'[t] = todo[t] \ {r}
    BY <1>1 DEF TypeOK
  <2> QED
    BY <1>1, <1>3, <1>4, <2>1, <2>2 DEF RevertProgress
<1> QED
  BY <1>5, <1>6, <1>7, <1>8, <1>9

(* The end of a revert: the snapshot may go, for there is no row left that *)
(* differs from vanilla.                                                   *)
LEMMA RevertReturnIInv ==
  ASSUME IInv, NEW t \in Threads, RevertReturn(t)
  PROVE  IInv'
<1> USE DEF IInv
<1>1. /\ Reverting(t) /\ todo[t] = {} /\ DOMAIN backup' = {} /\ backup' \in [{} -> HpValues]
      /\ UNCHANGED <<n, gameVars, hp, ret, lost>> /\ Return(t)
  BY DEF RevertReturn, Cleared, NoBackup
<1>2. \A r \in Rows \ lost : hp[r] = Vanilla[r]
  BY <1>1 DEF RevertProgress
<1>3. TypeOK'
  BY <1>1 DEF TypeOK, Return, gameVars
<1>4. OwnerOnly' /\ RevertProgress' /\ RatesByCategory'
  BY <1>1, Exclusion DEF TypeOK, OwnerOnly, RevertProgress, RatesByCategory, Reverting, Return
<1>5. SnapshotsAreVanilla' /\ ChangesAreRecorded'
  BY <1>1, <1>2 DEF SnapshotsAreVanilla, ChangesAreRecorded
<1>6. NeverCompounds'
  BY <1>1 DEF NeverCompounds
<1> QED
  BY <1>3, <1>4, <1>5, <1>6

-----------------------------------------------------------------------------
(* Theorems.                                                               *)

(* Every step keeps the inductive invariant.                               *)
LEMMA StepIInv == IInv /\ [Next]_vars => IInv'
<1> SUFFICES ASSUME IInv, [Next]_vars PROVE IInv'
  OBVIOUS
<1>1. CASE UNCHANGED vars
  <2>1. UNCHANGED <<n, master, indexed, page, hp, backup, owner, pc, enemyMul,
                    bossMul, bossIds, todo, ret, lost>>
    BY <1>1 DEF vars, gameVars, multipliers
  <2> QED
    BY <2>1 DEF IInv, TypeOK, OwnerOnly, SnapshotsAreVanilla, ChangesAreRecorded,
                NeverCompounds, RatesByCategory, RevertProgress, Reverting
<1>2. CASE Next
  <2>1. CASE (\E k \in Counts : SetCount(k)) \/ Game
    BY <2>1, EnvironmentIInv
  <2>2. ASSUME NEW t \in Threads,
               CallApply(t) \/ RestoreBegin(t) \/ ApplyStep(t) \/ RevertStep(t)
        PROVE  IInv'
    BY <2>2, EnvironmentIInv, ControlIInv, RowIInv, RevertRowIInv, RevertReturnIInv
       DEF CallApply, ApplyStep, RevertStep
  <2> QED
    BY <1>2, <2>1, <2>2 DEF Next
<1> QED
  BY <1>1, <1>2

(* The invariant holds throughout, for every instance of the constants.    *)
THEOREM Invariance == Spec => []IInv
BY InitIInv, StepIInv, PTL DEF Spec

(* Types: the player count never drops below one, HP stays a uint32_t.     *)
THEOREM TypeCorrect == Spec => []TypeOK
BY Invariance, PTL DEF IInv

(* Re-apply never compounds: after any interleaving of apply, restore and  *)
(* player-count changes a row holds its vanilla HP or one scaling of it.   *)
THEOREM NeverCompoundsAlways == Spec => []NeverCompounds
BY Invariance, PTL DEF IInv

(* The HP in the game's memory, against the exact product: each row is at  *)
(* its own category's rate for some player count, to the nearest unit.     *)
THEOREM RowsAreAtTheirRateAlways == Spec => []RowsAreAtTheirRate
<1>1. IInv => RowsAreAtTheirRate
  <2> SUFFICES ASSUME IInv, NEW r \in Rows \ lost, hp[r] # Vanilla[r]
               PROVE  \E k \in CountValues, p \in Rates(r) :
                        Nearest(hp[r], Vanilla[r] * (One + (k - 1) * p))
    BY DEF RowsAreAtTheirRate
  <2>1. PICK k \in CountValues, p \in Rates(r) : hp[r] \in Scaled(Vanilla[r], MulFrom(k, p))
    BY DEF IInv, NeverCompounds, Allowed, ScaledValues
  <2>2. k \in Nat \ {0} /\ p \in Int /\ Vanilla[r] \in Int
    BY CountValuesInt, RatesInt DEF HpValues
  <2>3. MulFrom(k, p) \in Int /\ MulFrom(k, p) = One + (k - 1) * p
    BY <2>2, MulFromIsLinear
  <2>4. Nearest(hp[r], Vanilla[r] * MulFrom(k, p))
    BY <2>1, <2>2, <2>3, ScaledIsNearest
  <2> QED
    BY <2>3, <2>4
<1> QED
  BY <1>1, Invariance, PTL

(* Every change stays known to the snapshot until it has been undone.      *)
THEOREM ChangesAreRecordedAlways == Spec => []ChangesAreRecorded
BY Invariance, PTL DEF IInv

-----------------------------------------------------------------------------
(* What an apply leaves behind.                                            *)

(* Pages stay, and let themselves be written.                              *)
WritesSucceed == "gone" \notin PageStates /\ ~ ProtectFails

(* Every row that a loop has passed is scaled, if it is to be.             *)
RowsMatch ==
  /\ lost = {}
  /\ \A t \in Threads : pc[t] = "rows" =>
       \A r \in Rows \ todo[t] :
         RowMul(t, r) # One => hp[r] \in Scaled(Vanilla[r], RowMul(t, r))

(* The row that the loop is at is scaled from its vanilla HP.              *)
LEMMA RowMatches ==
  ASSUME IInv, RowsMatch, WritesSucceed, NEW t \in Threads, NEW r \in Rows,
         ApplySkipRow(t, r) \/ ApplyPatchRow(t, r) \/ ApplyKeepRow(t, r),
         RowMul(t, r) # One
  PROVE  hp'[r] \in Scaled(Vanilla[r], RowMul(t, r))
<1> USE DEF IInv
<1>1. page[r] = "rw" \/ page[r] = "ro"
  BY DEF WritesSucceed, TypeOK
<1>2. Readable(r) /\ ~ WriteMayFail(r)
  BY <1>1 DEF Readable, WriteMayFail, WritesSucceed
<1>3. ~ ApplySkipRow(t, r)
  BY <1>2 DEF ApplySkipRow
<1>4. backup' = Snapshot(backup, r, hp[r])
  BY <1>3 DEF ApplyPatchRow, ApplyKeepRow
<1>5. backup'[r] = Vanilla[r]
  BY <1>4 DEF Snapshot, RowsMatch, SnapshotsAreVanilla, ChangesAreRecorded
<1>6. CASE ApplyPatchRow(t, r)
  BY <1>5, <1>6 DEF ApplyPatchRow, TypeOK
<1>7. CASE ApplyKeepRow(t, r)
  <2>1. hp' = hp /\ Vanilla[r] = 0
    BY <1>2, <1>5, <1>7 DEF ApplyKeepRow
  <2>2. hp[r] \in {0} \cup UNION {Scaled(0, MulFrom(k, p)) : k \in CountValues, p \in Rates(r)}
    BY <2>1 DEF RowsMatch, NeverCompounds, Allowed, ScaledValues
  <2>3. \A k \in CountValues, p \in Rates(r) : Scaled(0, MulFrom(k, p)) = {0}
    BY CountValuesInt, RatesInt, MulFromInt, ScaledZero
  <2>4. RowMul(t, r) \in Int
    BY MultipliersInt DEF RowMul, TypeOK
  <2> QED
    BY <2>1, <2>2, <2>3, <2>4, ScaledZero
<1> QED
  BY <1>3, <1>6, <1>7

LEMMA RowsMatchStep ==
  ASSUME IInv, RowsMatch, WritesSucceed, [Next]_vars
  PROVE  RowsMatch'
<1> USE DEF IInv
(* Steps after which no loop over the rows is anywhere else than before.   *)
<1>1. ASSUME UNCHANGED <<hp, lost>>,
             \A u \in Threads : pc'[u] = "rows" =>
               /\ pc[u] = "rows" /\ todo'[u] = todo[u] /\ bossIds'[u] = bossIds[u]
               /\ enemyMul'[u] = enemyMul[u] /\ bossMul'[u] = bossMul[u]
      PROVE  RowsMatch'
  BY <1>1 DEF RowsMatch, RowMul
<1>2. CASE UNCHANGED vars \/ (\E k \in Counts : SetCount(k)) \/ Game
           \/ \E t \in Threads : ApplyNotReady(t) \/ ApplyNoEnemyParam(t)
  <2>1. UNCHANGED <<hp, lost, pc, todo, enemyMul, bossMul, bossIds>>
    BY <1>2 DEF vars, multipliers, SetCount, Game, LoadMaster, IndexTable, ChangePage,
                ApplyNotReady, ApplyNoEnemyParam
  <2> QED
    BY <1>1, <2>1
<1>3. ASSUME NEW t \in Threads,
             ApplyBegin(t) \/ ApplyBossMul(t) \/ ApplyReturn(t)
             \/ RestoreBegin(t) \/ RevertReturn(t)
      PROVE  RowsMatch'
  <2>1. pc[t] # "rows" \/ pc'[t] # "rows"
    BY <1>3 DEF TypeOK, ApplyBegin, ApplyBossMul, ApplyReturn, Return, RestoreBegin,
                RevertReturn, Reverting
  <2>2. UNCHANGED <<hp, lost>> /\ pc'[t] # "rows"
    BY <1>3 DEF TypeOK, ApplyBegin, ApplyBossMul, ApplyReturn, Return, RestoreBegin,
                RevertReturn, Reverting
  <2>3. ASSUME NEW u \in Threads, u # t
        PROVE  /\ pc'[u] = pc[u] /\ todo'[u] = todo[u] /\ bossIds'[u] = bossIds[u]
               /\ enemyMul'[u] = enemyMul[u] /\ bossMul'[u] = bossMul[u]
    BY <1>3, <2>3 DEF TypeOK, multipliers, ApplyBegin, ApplyBossMul, ApplyReturn, Return,
                      RestoreBegin, RevertReturn
  <2> QED
    BY <1>1, <2>2, <2>3
<1>4. ASSUME NEW t \in Threads, ApplyCollect(t)
      PROVE  RowsMatch'
  <2>1. page[Header] # "gone"
    BY DEF WritesSucceed, TypeOK
  <2>2. todo'[t] = Rows /\ UNCHANGED <<hp, lost>>
    BY <1>4, <2>1 DEF ApplyCollect, Readable, TypeOK
  <2>3. \A u \in Threads : pc'[u] = "rows" => u = t
    BY <1>4, Exclusion DEF ApplyCollect, TypeOK
  <2> QED
    BY <2>2, <2>3 DEF RowsMatch
<1>5. ASSUME NEW t \in Threads, NEW r \in Rows,
             ApplySkipRow(t, r) \/ ApplyPatchRow(t, r) \/ ApplyKeepRow(t, r)
      PROVE  RowsMatch'
  <2>1. /\ pc[t] = "rows" /\ UNCHANGED <<pc, enemyMul, bossMul, bossIds, lost>>
        /\ todo'[t] = todo[t] \ {r}
    BY <1>5 DEF ApplySkipRow, ApplyPatchRow, ApplyKeepRow, AtRow, multipliers, TypeOK
  <2>2. \A q \in Rows : q # r => hp'[q] = hp[q]
    BY <1>5 DEF ApplySkipRow, ApplyPatchRow, ApplyKeepRow, TypeOK
  <2>3. RowMul(t, r) # One => hp'[r] \in Scaled(Vanilla[r], RowMul(t, r))
    BY <1>5, RowMatches
  <2>4. \A u \in Threads : pc'[u] = "rows" => u = t
    BY <2>1, Exclusion
  <2> QED
    BY <2>1, <2>2, <2>3, <2>4 DEF RowsMatch, RowMul
<1>6. ASSUME NEW t \in Threads, NEW r \in Rows, RevertRow(t, r) \/ RevertMiss(t, r)
      PROVE  RowsMatch'
  <2>1. ~ RevertMiss(t, r)
    BY DEF RevertMiss, WriteMayFail, WritesSucceed, TypeOK
  <2>2. Reverting(t) /\ UNCHANGED <<pc, lost>>
    BY <1>6, <2>1 DEF RevertRow
  <2>3. \A u \in Threads : pc'[u] # "rows"
    BY <2>2, Exclusion DEF Reverting
  <2> QED
    BY <2>2, <2>3 DEF RowsMatch
<1> QED
  BY <1>2, <1>3, <1>4, <1>5, <1>6 DEF Next, CallApply, ApplyStep, RevertStep

LEMMA RowsMatchAlways ==
  ASSUME WritesSucceed
  PROVE  Spec => []RowsMatch
<1>1. Init => RowsMatch
  BY DEF Init, RowsMatch
<1>2. IInv /\ RowsMatch /\ [Next]_vars => RowsMatch'
  BY RowsMatchStep
<1> QED
  BY <1>1, <1>2, Invariance, PTL DEF Spec

(* Where pages stay and can be written, an apply that ends leaves every    *)
(* row of a category being scaled at one scaling of its vanilla HP by the  *)
(* multiplier of this apply, whatever earlier calls have made of it.       *)
THEOREM AppliedRowsMatchAlways ==
  ASSUME WritesSucceed
  PROVE  Spec => AppliedRowsMatch
<1>1. Spec => []IInv /\ []RowsMatch
  BY Invariance, RowsMatchAlways
<1> DEFINE Ends ==
  \A t \in Threads : pc[t] = "rows" /\ pc'[t] = "idle" =>
    \A r \in Rows \ lost :
      RowMul(t, r) # One => hp[r] \in Scaled(Vanilla[r], RowMul(t, r))
<1>2. IInv /\ RowsMatch /\ [Next]_vars => [Ends]_vars
  <2> SUFFICES ASSUME IInv, RowsMatch, Next, NEW t \in Threads,
                      pc[t] = "rows", pc'[t] = "idle"
               PROVE  todo[t] = {}
    BY DEF RowsMatch
  <2> QED
    BY DEF IInv, TypeOK, Next, CallApply, ApplyStep, RevertStep, Return, Lock, AtRow,
           Reverting, SetCount, Game, LoadMaster, IndexTable, ChangePage, ApplyNotReady,
           ApplyNoEnemyParam, ApplyBegin, ApplyBossMul, ApplyCollect, ApplySkipRow,
           ApplyPatchRow, ApplyKeepRow, ApplyReturn, RestoreBegin, RevertRow, RevertMiss,
           RevertReturn
<1> QED
  BY <1>1, <1>2, PTL DEF Spec, AppliedRowsMatch

(* restore() is exact as long as every write succeeds: the run that        *)
(* violates RestoreIsExact needs the failed write it has.                  *)
THEOREM RestoreIsExactAlways ==
  ASSUME WritesSucceed
  PROVE  Spec => []RestoreIsExact
<1>1. IInv /\ RowsMatch => RestoreIsExact
  BY ScalingAssumption DEF IInv, TypeOK, ChangesAreRecorded, RowsMatch, RestoreIsExact
<1> QED
  BY <1>1, Invariance, RowsMatchAlways, PTL

-----------------------------------------------------------------------------
(* The engine implements the ledger.                                       *)

LEMMA LedgerStep == IInv /\ IInv' /\ [Next]_vars => [Ledger!Next]_(Ledger!vars)
<1> SUFFICES ASSUME IInv, IInv', [Next]_vars
             PROVE  Ledger!Next \/ UNCHANGED Ledger!vars
  OBVIOUS
<1> DEFINE AnyReverting == \E t \in Threads : Reverting(t)
<1> USE DEF IInv, Ledger!vars
(* Steps that leave the rows and every revert as they are.                 *)
<1>1. ASSUME UNCHANGED <<hp, lost>>, AnyReverting' <=> AnyReverting
      PROVE  UNCHANGED Ledger!vars
  BY <1>1
<1>2. CASE UNCHANGED vars
  BY <1>1, <1>2 DEF vars, Reverting
<1>3. CASE (\E k \in Counts : SetCount(k)) \/ Game
           \/ \E t \in Threads : ApplyNotReady(t) \/ ApplyNoEnemyParam(t)
  <2>1. UNCHANGED <<hp, lost, pc>>
    BY <1>3 DEF SetCount, Game, LoadMaster, IndexTable, ChangePage, ApplyNotReady,
                ApplyNoEnemyParam
  <2> QED
    BY <1>1, <2>1 DEF Reverting
<1>4. ASSUME NEW t \in Threads,
             ApplyBegin(t) \/ ApplyCollect(t) \/ ApplyReturn(t)
             \/ \E r \in Rows : ApplySkipRow(t, r) \/ ApplyKeepRow(t, r)
      PROVE  UNCHANGED Ledger!vars
  <2>1. UNCHANGED <<hp, lost>>
    BY <1>4 DEF ApplyBegin, ApplyCollect, ApplyReturn, ApplySkipRow, ApplyKeepRow
  <2>2. \A u \in Threads : Reverting(u)' <=> Reverting(u)
    BY <1>4 DEF TypeOK, Reverting, ApplyBegin, ApplyCollect, ApplyReturn, Return,
                ApplySkipRow, ApplyKeepRow, AtRow
  <2> QED
    BY <1>1, <2>1, <2>2
<1>5. ASSUME NEW t \in Threads, ApplyBossMul(t) \/ RestoreBegin(t)
      PROVE  Ledger!BeginRevert \/ UNCHANGED Ledger!vars
  <2>1. UNCHANGED <<hp, lost>>
    BY <1>5 DEF ApplyBossMul, RestoreBegin
  <2>2. ~ AnyReverting
    BY <1>5, Exclusion DEF Reverting, ApplyBossMul, RestoreBegin, Lock
  <2> QED
    BY <1>1, <2>1, <2>2 DEF Ledger!BeginRevert
<1>6. ASSUME NEW t \in Threads, NEW r \in Rows, ApplyPatchRow(t, r)
      PROVE  Ledger!Scale(r)
  <2>1. ~ AnyReverting /\ ~ AnyReverting' /\ lost' = lost
    BY <1>6, Exclusion DEF Reverting, ApplyPatchRow, AtRow
  <2>2. hp'[r] \in HpValues /\ (r \notin lost => hp'[r] \in Allowed[r])
    BY <2>1 DEF TypeOK, NeverCompounds
  <2>3. hp' = [hp EXCEPT ![r] = hp'[r]]
    BY <1>6 DEF ApplyPatchRow, TypeOK
  <2> QED
    BY <2>1, <2>2, <2>3 DEF Ledger!Scale, Ledger!Put
<1>7. ASSUME NEW t \in Threads, NEW r \in Rows, RevertRow(t, r)
      PROVE  Ledger!RevertRow(r)
  <2>1. AnyReverting /\ AnyReverting' /\ lost' = lost
    BY <1>7 DEF Reverting, RevertRow
  <2>2. r \in DOMAIN backup
    BY <1>7 DEF RevertRow, RevertProgress
  <2>3. backup[r] \in HpValues /\ (r \notin lost => backup[r] = Vanilla[r])
    BY <2>2 DEF TypeOK, SnapshotsAreVanilla
  <2> QED
    BY <1>7, <2>1, <2>3 DEF RevertRow, Ledger!RevertRow, Ledger!Put
<1>8. ASSUME NEW t \in Threads, NEW r \in Rows, RevertMiss(t, r)
      PROVE  Ledger!MissRow(r)
  <2>1. AnyReverting /\ AnyReverting'
    BY <1>8 DEF Reverting, RevertMiss
  <2> QED
    BY <1>8, <2>1 DEF RevertMiss, Ledger!MissRow
<1>9. ASSUME NEW t \in Threads, RevertReturn(t)
      PROVE  Ledger!EndRevert
  <2>1. AnyReverting
    BY <1>9 DEF RevertReturn
  <2>2. ~ AnyReverting'
    BY <1>9, Exclusion DEF TypeOK, Reverting, RevertReturn, Return
  <2>3. \A r \in Rows \ lost : hp[r] = Vanilla[r]
    BY <1>9 DEF RevertReturn, RevertProgress
  <2> QED
    BY <1>9, <2>1, <2>2, <2>3 DEF RevertReturn, Ledger!EndRevert
<1>10. ASSUME NEW t \in Threads,
              CallApply(t) \/ RestoreBegin(t) \/ ApplyStep(t) \/ RevertStep(t)
       PROVE  Ledger!Next \/ UNCHANGED Ledger!vars
  BY <1>3, <1>4, <1>5, <1>6, <1>7, <1>8, <1>9, <1>10
     DEF CallApply, ApplyStep, RevertStep, Ledger!Next
<1> QED
  BY <1>2, <1>3, <1>10 DEF Next

(* scaling.cpp implements the ledger of scaling.h: rows scale from vanilla *)
(* only, never during a revert, and a revert ends with all it did not lose *)
(* exactly as the game loaded it.                                          *)
THEOREM Refinement == Spec => LedgerSpec
<1>1. Init => Ledger!Init
  BY DEF Init, Ledger!Init, Reverting
<1> QED
  BY <1>1, LedgerStep, Invariance, PTL DEF Spec, LedgerSpec, Ledger!Spec
=============================================================================

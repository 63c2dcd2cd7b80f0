------------------------------ MODULE Scaling ------------------------------
(***************************************************************************)
(* The HP scaling engine: dll/scaling.cpp with dll/player_count.cpp.       *)
(*                                                                         *)
(* Threads call apply() and restore() on the game's EnemyParam rows while  *)
(* another party changes the player count and the game loads its tables.   *)
(* A row is named by its index; its HP field, at the address that keys     *)
(* g_backup in the code, is hp[r].  One step of a thread is one iteration  *)
(* of the loop it is in, or one read of the shared player count: between   *)
(* two steps anything else may happen.  g_mtx is owner.                    *)
(***************************************************************************)
EXTENDS ScaleArith

CONSTANTS
  RowCount,      \* rows of the EnemyParam table
  Vanilla,       \* the HP each row has when the game loads the table
  BossRows,      \* rows whose id BossBattleParam names
  EnemyPct,      \* g_enemy_pct, set once by init() before any call
  BossPct,       \* g_boss_pct
  Counts,        \* arguments player_count::set may be called with
  Threads,       \* callers of apply() and restore()
  NoThread,      \* g_mtx is free
  PageStates,    \* what VirtualQuery may say of a page of the table
  ProtectFails   \* whether VirtualProtect may refuse a read-only page

Rows == 1 .. RowCount

(* The page of the table's header, which holds the row count.              *)
Header == 0

Tables == {"EnemyParam", "BossBattleParam"}

ASSUME ScalingAssumption ==
  /\ RowCount \in Nat
  /\ Vanilla \in [Rows -> HpValues]
  /\ BossRows \subseteq Rows
  /\ EnemyPct \in Int
  /\ BossPct \in Int
  /\ Counts \subseteq Int
  /\ NoThread \notin Threads
  /\ PageStates \subseteq {"rw", "ro", "gone"}
  /\ "rw" \in PageStates
  /\ ProtectFails \in BOOLEAN

VARIABLES
  n,         \* player_count's g_n
  master,    \* the pointer chain to the master param table resolves
  indexed,   \* the tables find_param can find in the param index
  page,      \* the protection of the page of each row, and of the header
  hp,        \* the HP field of each row, in the game's memory
  backup,    \* g_backup, a map from rows to the HP snapshotted there
  owner,     \* the holder of g_mtx
  pc,        \* where each thread is in apply() or restore()
  enemyMul,  \* apply's local enemy_mul
  bossMul,   \* apply's local boss_mul
  bossIds,   \* apply's local boss_ids, as the rows it names
  todo,      \* rows the loop a thread is in has still to visit
  ret,       \* the sign of what the last apply returned: -1, or 0 for >= 0
  lost       \* history: rows that some write-back of an original missed

gameVars == <<master, indexed, page>>
multipliers == <<enemyMul, bossMul, bossIds>>
vars == <<n, gameVars, hp, backup, owner, pc, multipliers, todo, ret, lost>>

NoBackup == [r \in {} |-> 0]

Init ==
  /\ n = 1
  /\ master = FALSE
  /\ indexed = {}
  /\ page = [r \in Rows \cup {Header} |-> "rw"]
  /\ hp = Vanilla
  /\ backup = NoBackup
  /\ owner = NoThread
  /\ pc = [t \in Threads |-> "idle"]
  /\ enemyMul = [t \in Threads |-> One]
  /\ bossMul = [t \in Threads |-> One]
  /\ bossIds = [t \in Threads |-> {}]
  /\ todo = [t \in Threads |-> {}]
  /\ ret = [t \in Threads |-> 0]
  /\ lost = {}

-----------------------------------------------------------------------------
(* The mutex, and the helpers the loops share.                             *)

MutLockIgnored(t) == owner' = t

Lock(t) == owner = NoThread /\ owner' = t

MutReturnLocked(t) ==
  /\ owner' = owner
  /\ pc' = [pc EXCEPT ![t] = "idle"]
  /\ enemyMul' = [enemyMul EXCEPT ![t] = One]
  /\ bossMul' = [bossMul EXCEPT ![t] = One]
  /\ bossIds' = [bossIds EXCEPT ![t] = {}]
  /\ todo' = [todo EXCEPT ![t] = {}]

(* Leaving apply() or restore(): locals die and the lock_guard unlocks.    *)
Return(t) ==
  /\ owner' = NoThread
  /\ pc' = [pc EXCEPT ![t] = "idle"]
  /\ enemyMul' = [enemyMul EXCEPT ![t] = One]
  /\ bossMul' = [bossMul EXCEPT ![t] = One]
  /\ bossIds' = [bossIds EXCEPT ![t] = {}]
  /\ todo' = [todo EXCEPT ![t] = {}]

MutSnapshotLatest(b, r, v) ==
  [x \in DOMAIN b \cup {r} |-> IF x = r THEN v ELSE b[x]]

(* g_backup.find / emplace: the first value seen at an address is kept.    *)
Snapshot(b, r, v) ==
  [x \in DOMAIN b \cup {r} |-> IF x \in DOMAIN b THEN b[x] ELSE v]

(* safe_read succeeds exactly when the page is committed and readable.     *)
Readable(r) == page[r] # "gone"

(* safe_write_u32 writes in place, or flips a read-only page around the    *)
(* write; it may return false where the page is gone or the flip fails.    *)
WriteMayFail(r) == page[r] = "gone" \/ (page[r] = "ro" /\ ProtectFails)

-----------------------------------------------------------------------------
(* player_count::set(k), from any thread: an atomic exchange.              *)

Clamped(k) == IF k < 1 THEN 1 ELSE k

SetCount(k) ==
  /\ n' = Clamped(k)
  /\ UNCHANGED <<gameVars, hp, backup, owner, pc, multipliers, todo, ret, lost>>

-----------------------------------------------------------------------------
(* apply().                                                                *)

(* The pointer chain does not resolve: return -1.                          *)
ApplyNotReady(t) ==
  /\ pc[t] = "idle"
  /\ owner = NoThread
  /\ ~ master
  /\ ret' = [ret EXCEPT ![t] = -1]
  /\ UNCHANGED <<n, gameVars, hp, backup, owner, pc, multipliers, todo, lost>>

(* find_param("EnemyParam.") finds nothing: warn, and return 0.            *)
ApplyNoEnemyParam(t) ==
  /\ pc[t] = "idle"
  /\ owner = NoThread
  /\ master
  /\ "EnemyParam" \notin indexed
  /\ ret' = [ret EXCEPT ![t] = 0]
  /\ UNCHANGED <<n, gameVars, hp, backup, owner, pc, multipliers, todo, lost>>

(* Both tables are there; enemy_mul = mul_from(g_enemy_pct) comes first.   *)
ApplyBegin(t) ==
  /\ pc[t] = "idle"
  /\ Lock(t)
  /\ master
  /\ "EnemyParam" \in indexed
  /\ pc' = [pc EXCEPT ![t] = "bossMul"]
  /\ enemyMul' = [enemyMul EXCEPT ![t] = MulFrom(n, EnemyPct)]
  /\ ret' = [ret EXCEPT ![t] = 0]
  /\ UNCHANGED <<n, gameVars, hp, backup, bossMul, bossIds, todo, lost>>

(* boss_mul = mul_from(g_boss_pct): a second read of the player count.     *)
(* Both multipliers 1.0 means going back to vanilla, if anything is saved. *)
ApplyBossMul(t) ==
  /\ pc[t] = "bossMul"
  /\ LET mul == MulFrom(n, BossPct)
         vanillaWanted == enemyMul[t] = One /\ mul = One
     IN  \/ /\ ~ vanillaWanted
            /\ bossMul' = [bossMul EXCEPT ![t] = mul]
            /\ pc' = [pc EXCEPT ![t] = "collect"]
            /\ UNCHANGED <<owner, enemyMul, bossIds, todo>>
         \/ /\ vanillaWanted
            /\ DOMAIN backup # {}
            /\ pc' = [pc EXCEPT ![t] = "revert"]
            /\ todo' = [todo EXCEPT ![t] = DOMAIN backup]
            /\ UNCHANGED <<owner, multipliers>>
         \/ /\ vanillaWanted
            /\ DOMAIN backup = {}
            /\ Return(t)
  /\ UNCHANGED <<n, gameVars, hp, backup, ret, lost>>

(* collect_boss_ids: no BossBattleParam table means no boss ids, and a row *)
(* of it that cannot be read is skipped.  Then the row count is read.      *)
ApplyCollect(t) ==
  /\ pc[t] = "collect"
  /\ \E ids \in SUBSET BossRows :
       /\ "BossBattleParam" \notin indexed => ids = {}
       /\ "BossBattleParam" \in indexed /\ "gone" \notin PageStates => ids = BossRows
       /\ bossIds' = [bossIds EXCEPT ![t] = ids]
  /\ todo' = [todo EXCEPT ![t] = IF Readable(Header) THEN Rows ELSE {}]
  /\ pc' = [pc EXCEPT ![t] = "rows"]
  /\ UNCHANGED <<n, gameVars, hp, backup, owner, enemyMul, bossMul, ret, lost>>

MutRowMulSwapped(t, r) == IF r \in bossIds[t] THEN enemyMul[t] ELSE bossMul[t]

(* The multiplier for row r: bosses join by row id.                        *)
RowMul(t, r) == IF r \in bossIds[t] THEN bossMul[t] ELSE enemyMul[t]

(* Thread t's loop over the rows is at row r; the rows come in order.      *)
AtRow(t, r) ==
  /\ pc[t] = "rows"
  /\ r \in todo[t]
  /\ \A q \in todo[t] : r <= q
  /\ todo' = [todo EXCEPT ![t] = @ \ {r}]

MutSkipSnapshotted(t, r) ==
  /\ AtRow(t, r)
  /\ RowMul(t, r) = One \/ ~ Readable(r) \/ r \in DOMAIN backup
  /\ UNCHANGED <<n, gameVars, hp, backup, owner, pc, multipliers, ret, lost>>

(* A row that is not scaled, or cannot be read, is passed over.            *)
ApplySkipRow(t, r) ==
  /\ AtRow(t, r)
  /\ RowMul(t, r) = One \/ ~ Readable(r)
  /\ UNCHANGED <<n, gameVars, hp, backup, owner, pc, multipliers, ret, lost>>

(* The original is snapshotted, or looked up, and the row rewritten.       *)
ApplyPatchRow(t, r) ==
  /\ AtRow(t, r)
  /\ RowMul(t, r) # One
  /\ Readable(r)
  /\ backup' = Snapshot(backup, r, hp[r])
  /\ backup'[r] # 0
  /\ \E v \in Scaled(backup'[r], RowMul(t, r)) : hp' = [hp EXCEPT ![r] = v]
  /\ UNCHANGED <<n, gameVars, owner, pc, multipliers, ret, lost>>

(* Snapshotted, but not written: an original of 0, or a failed write.      *)
ApplyKeepRow(t, r) ==
  /\ AtRow(t, r)
  /\ RowMul(t, r) # One
  /\ Readable(r)
  /\ backup' = Snapshot(backup, r, hp[r])
  /\ backup'[r] = 0 \/ WriteMayFail(r)
  /\ UNCHANGED <<n, gameVars, hp, owner, pc, multipliers, ret, lost>>

(* The end of the loop: unlock, and return the number of rows patched, of  *)
(* which the caller only looks at the sign.                                *)
ApplyReturn(t) ==
  /\ pc[t] = "rows"
  /\ todo[t] = {}
  /\ Return(t)
  /\ UNCHANGED <<n, gameVars, hp, backup, ret, lost>>

-----------------------------------------------------------------------------
(* restore(), and the branch of apply() that reverts to vanilla.           *)

RestoreBegin(t) ==
  /\ pc[t] = "idle"
  /\ Lock(t)
  /\ DOMAIN backup # {}
  /\ pc' = [pc EXCEPT ![t] = "restore"]
  /\ todo' = [todo EXCEPT ![t] = DOMAIN backup]
  /\ UNCHANGED <<n, gameVars, hp, backup, multipliers, ret, lost>>

Reverting(t) == pc[t] \in {"revert", "restore"}

(* One entry of the map is written back; the map has no order.             *)
RevertRow(t, r) ==
  /\ Reverting(t)
  /\ r \in todo[t]
  /\ Readable(r)
  /\ todo' = [todo EXCEPT ![t] = @ \ {r}]
  /\ hp' = [hp EXCEPT ![r] = backup[r]]
  /\ UNCHANGED <<n, gameVars, backup, owner, pc, multipliers, ret, lost>>

(* The write fails; neither caller looks at the result.                    *)
RevertMiss(t, r) ==
  /\ Reverting(t)
  /\ r \in todo[t]
  /\ WriteMayFail(r)
  /\ todo' = [todo EXCEPT ![t] = @ \ {r}]
  /\ lost' = lost \cup {r}
  /\ UNCHANGED <<n, gameVars, hp, backup, owner, pc, multipliers, ret>>

(* g_backup.clear(), whether or not every write succeeded.                 *)
Cleared == NoBackup

RevertReturn(t) ==
  /\ Reverting(t)
  /\ todo[t] = {}
  /\ backup' = Cleared
  /\ Return(t)
  /\ UNCHANGED <<n, gameVars, hp, ret, lost>>

-----------------------------------------------------------------------------
(* The game: it publishes its tables, and its pages may change state.      *)

LoadMaster ==
  /\ ~ master
  /\ master' = TRUE
  /\ UNCHANGED <<n, indexed, page, hp, backup, owner, pc, multipliers, todo, ret, lost>>

IndexTable(p) ==
  /\ p \notin indexed
  /\ indexed' = indexed \cup {p}
  /\ UNCHANGED <<n, master, page, hp, backup, owner, pc, multipliers, todo, ret, lost>>

ChangePage(r, s) ==
  /\ page[r] # s
  /\ page' = [page EXCEPT ![r] = s]
  /\ UNCHANGED <<n, master, indexed, hp, backup, owner, pc, multipliers, todo, ret, lost>>

-----------------------------------------------------------------------------
(* A call in progress takes its next step.                                 *)
ApplyStep(t) ==
  \/ ApplyBossMul(t)
  \/ ApplyCollect(t)
  \/ \E r \in Rows : ApplySkipRow(t, r) \/ ApplyPatchRow(t, r) \/ ApplyKeepRow(t, r)
  \/ ApplyReturn(t)

RevertStep(t) ==
  \/ \E r \in Rows : RevertRow(t, r) \/ RevertMiss(t, r)
  \/ RevertReturn(t)

CallApply(t) == ApplyNotReady(t) \/ ApplyNoEnemyParam(t) \/ ApplyBegin(t)

Game ==
  \/ LoadMaster
  \/ \E p \in Tables : IndexTable(p)
  \/ \E r \in Rows \cup {Header}, s \in PageStates : ChangePage(r, s)

Next ==
  \/ \E k \in Counts : SetCount(k)
  \/ \E t \in Threads :
       CallApply(t) \/ RestoreBegin(t) \/ ApplyStep(t) \/ RevertStep(t)
  \/ Game

Spec == Init /\ [][Next]_vars

(* A thread inside a call is not suspended for ever by the OS scheduler.   *)
Fairness == \A t \in Threads : WF_vars(ApplyStep(t) \/ RevertStep(t))

FairSpec == Spec /\ Fairness
-----------------------------------------------------------------------------
(* The counts player_count can hold, and the multipliers they give.        *)
CountValues == {1} \cup {Clamped(k) : k \in Counts}

Multipliers == {MulFrom(k, p) : k \in CountValues, p \in {EnemyPct, BossPct}}

(* The percentages row r may be scaled by.  BossBattleParam may not name a *)
(* boss in time; an enemy that is none it never names.                     *)
Rates(r) == IF r \in BossRows THEN {EnemyPct, BossPct} ELSE {EnemyPct}

(* The values row r may ever hold: its HP as loaded, or that HP scaled.    *)
ScaledValues(r) ==
  UNION {Scaled(Vanilla[r], MulFrom(k, p)) : k \in CountValues, p \in Rates(r)}

Allowed == [r \in Rows |-> {Vanilla[r]} \cup ScaledValues(r)]

(* Every variable keeps its type; the player count is never below one.     *)
TypeOK ==
  /\ n \in CountValues /\ n >= 1
  /\ master \in BOOLEAN
  /\ indexed \subseteq Tables
  /\ page \in [Rows \cup {Header} -> PageStates]
  /\ hp \in [Rows -> HpValues]
  /\ DOMAIN backup \subseteq Rows
  /\ backup \in [DOMAIN backup -> HpValues]
  /\ owner \in Threads \cup {NoThread}
  /\ pc \in [Threads -> {"idle", "bossMul", "collect", "rows", "revert", "restore"}]
  /\ enemyMul \in [Threads -> Multipliers \cup {One}]
  /\ bossMul \in [Threads -> Multipliers \cup {One}]
  /\ bossIds \in [Threads -> SUBSET BossRows]
  /\ todo \in [Threads -> SUBSET Rows]
  /\ ret \in [Threads -> {-1, 0}]
  /\ lost \subseteq Rows

(* Mutual exclusion: the holder of g_mtx, and nobody else, is inside apply *)
(* or restore; no way out of either keeps the mutex.                       *)
OwnerOnly == \A t \in Threads : pc[t] # "idle" <=> owner = t

(* "Snapshots each row's original HP on first touch": whatever apply and   *)
(* restore calls have come before, a snapshot is the value the game        *)
(* loaded, and never an HP that an earlier apply had already scaled.       *)
SnapshotsAreVanilla ==
  \A r \in DOMAIN backup \ lost : backup[r] = Vanilla[r]

(* A row that differs from vanilla is in g_backup, so a later restore, or  *)
(* an apply at player count 1, knows of it: no change is ever orphaned,    *)
(* not even by a restore that ran while another thread wanted to apply.    *)
ChangesAreRecorded ==
  \A r \in Rows \ lost : hp[r] # Vanilla[r] => r \in DOMAIN backup

(* "re-apply never compounds": a row's HP is one scaling of its vanilla    *)
(* HP, by its category's multiplier for some player count, after any       *)
(* number of calls.                                                        *)
NeverCompounds == \A r \in Rows \ lost : hp[r] \in Allowed[r]

(* The two multipliers of an apply under way are each of its own category, *)
(* though perhaps of two player counts.                                    *)
RatesByCategory ==
  \A t \in Threads :
    /\ pc[t] \in {"bossMul", "collect", "rows"} =>
         \E k \in CountValues : enemyMul[t] = MulFrom(k, EnemyPct)
    /\ pc[t] \in {"collect", "rows"} =>
         \E k \in CountValues : bossMul[t] = MulFrom(k, BossPct)

(* While a revert is under way every row it has visited is vanilla again,  *)
(* and the rows it has still to visit are all in the snapshot.             *)
RevertProgress ==
  \A t \in Threads : Reverting(t) =>
    /\ todo[t] \subseteq DOMAIN backup
    /\ \A r \in Rows \ (todo[t] \cup lost) : hp[r] = Vanilla[r]

(* The inductive invariant behind the properties above.                    *)
IInv ==
  /\ TypeOK
  /\ OwnerOnly
  /\ SnapshotsAreVanilla
  /\ ChangesAreRecorded
  /\ NeverCompounds
  /\ RatesByCategory
  /\ RevertProgress

(* "Each extra player adds" its category's percentage: a row that is not   *)
(* vanilla has the exact HP for some player count, to the nearest unit, or *)
(* as near as a uint32_t comes to it.  No enemy ever has the bosses' rate, *)
(* whatever applies at other counts, restores and reads of a changing      *)
(* player count came before.                                               *)
RowsAreAtTheirRate ==
  \A r \in Rows \ lost :
    \/ hp[r] = Vanilla[r]
    \/ \E k \in CountValues, p \in Rates(r) :
         Nearest(hp[r], Vanilla[r] * (One + (k - 1) * p))

(* The engine implements the ledger of scaling.h: a row scales from its    *)
(* vanilla HP only, never while a restore is writing originals back, and a *)
(* restore ends with every row it did not lose exactly as the game loaded  *)
(* it.                                                                     *)
Ledger == INSTANCE HpLedger WITH
  Values <- HpValues,
  Original <- Vanilla,
  mode <- IF \E t \in Threads : Reverting(t) THEN "reverting" ELSE "open",
  void <- lost

LedgerSpec == Ledger!Spec

(* Where every write succeeds, an apply that runs to its end leaves no row *)
(* behind: each row of a category being scaled holds its vanilla HP times  *)
(* the multiplier of the category, whatever an earlier apply gave it.      *)
AppliedRowsMatch ==
  [][\A t \in Threads : pc[t] = "rows" /\ pc'[t] = "idle" =>
       \A r \in Rows \ lost :
         RowMul(t, r) # One => hp[r] \in Scaled(Vanilla[r], RowMul(t, r))]_vars

(* "Single source of truth for the co-op player count": the two            *)
(* multipliers one apply uses come from one player count.                  *)
OneCountPerApply ==
  \A t \in Threads : pc[t] \in {"collect", "rows"} =>
    \E k \in CountValues :
      enemyMul[t] = MulFrom(k, EnemyPct) /\ bossMul[t] = MulFrom(k, BossPct)

(* "restore() is exact": with no snapshot left, every row is vanilla, also *)
(* when a write-back failed on the way.                                    *)
RestoreIsExact == DOMAIN backup = {} => hp = Vanilla
=============================================================================

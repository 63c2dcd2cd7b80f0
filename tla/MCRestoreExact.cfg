SPECIFICATION Spec
CONSTANTS
  t1 = t1
  t2 = t2
  NoThread = NoThread
  Threads <- MCThreads
  RowCount = 2
  Vanilla <- MCVanilla
  BossRows <- MCBossRows
  U32Max = 25
  LLMax = 127
  EnemyPct = 35
  BossPct = 100
  Counts = {3}
  PageStates = {"rw", "ro"}
  ProtectFails = TRUE
INVARIANT RestoreIsExact

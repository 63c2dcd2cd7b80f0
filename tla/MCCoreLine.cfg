SPECIFICATION CoreSpec
CONSTANTS
  Worker = Worker
  Teardown = Teardown
  Bootstrap = Bootstrap
  Game1 = Game1
  NoThread = NoThread
  Threads <- MCThreads
  Counts <- MCCounts
  DebugCount = 3
  MaxAttempts = 2
  MayUnload = FALSE
  RowCount = 2
  Vanilla <- MCVanilla
  BossRows <- MCBossRows
  U32Max = 25
  LLMax = 127
  EnemyPct = 35
  BossPct = 100
  PageStates = {"rw"}
  ProtectFails = FALSE
  Exes <- MCExes
  Expected <- MCExpected
  Chunk = 1
INVARIANT CleanTeardownLine
CHECK_DEADLOCK FALSE

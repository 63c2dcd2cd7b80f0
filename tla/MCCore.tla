------------------------------- MODULE MCCore -------------------------------
(* Small instances of Core: a mob and a boss row, two attempts.            *)
EXTENDS Core

MCThreads == {Worker, Teardown}

MCVanilla == <<10, 4>>

MCBossRows == {2}

(* The known build, a longer file, and one with a chunk too many inside.   *)
MCExpected == <<1, 2>>

MCExes == {<<1, 2>>, <<1, 2, 3>>, <<1, 3, 2>>}

MCCounts == {DebugCount}
=============================================================================

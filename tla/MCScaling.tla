----------------------------- MODULE MCScaling ------------------------------
(* Small instances of Scaling: a mob and a boss row, two callers.          *)
EXTENDS Scaling, TLC

CONSTANTS t1, t2

MCThreads == {t1, t2}

MCVanilla == <<4, 10>>

MCBossRows == {2}

Symmetry == Permutations(MCThreads)
=============================================================================

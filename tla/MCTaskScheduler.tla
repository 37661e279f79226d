-------------------------- MODULE MCTaskScheduler ---------------------------
EXTENDS TaskScheduler, TLC
MCSymmetry == Permutations(Tasks)
MCOneOrForever == {-1, 1}
MCTwo == {2}
MCForever == {-1}
=============================================================================

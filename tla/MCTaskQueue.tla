---------------------------- MODULE MCTaskQueue ----------------------------
\* Small instances of TaskQueue.
EXTENDS TaskQueue, TLC

Symmetry == Permutations(Procs) \cup Permutations(TaskIds)
=============================================================================

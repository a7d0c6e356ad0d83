---------------------------- MODULE MCTaskManager ----------------------------
(* TaskManager on two task objects and two requests at a time.             *)
EXTENDS TaskManager, TLC

Symmetry ==
    Permutations(Ids) \cup Permutations(Tasks)
    \cup Permutations(Pids) \cup Permutations(Threads)
=============================================================================

---------------------------- MODULE MCTaskQueue ----------------------------
(* TaskQueue on small instances.  The jobs are interchangeable, and so are *)
(* the callers; the runs with a liveness property use no symmetry.         *)
EXTENDS TaskQueueLedger, TaskQueueInv, TLC

Symmetry == Permutations(Jobs) \cup Permutations(Callers)
=============================================================================

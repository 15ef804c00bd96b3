--------------------------- MODULE MCLeaseTiming ---------------------------
(* LeaseTiming on small instances: the jobs are interchangeable. *)
EXTENDS LeaseTiming, TLC

Symmetry == Permutations(Jobs)
=============================================================================

----------------------------- MODULE MCTaskSched -----------------------------
(* Instances of TaskSched for TLC. *)
EXTENDS TaskSched, TLC

Symmetry == Permutations(Tasks) \cup Permutations(Cpus)

=============================================================================

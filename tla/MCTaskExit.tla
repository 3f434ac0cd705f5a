----------------------------- MODULE MCTaskExit -----------------------------
(* Instances of TaskExit: a process with two threads, a third that may be  *)
(* cloned, and another process that kills, stops and continues it.         *)
EXTENDS TaskExit, TLC

CONSTANTS a1, a2, a3, b1, ga, gb

MCTasks == {a1, a2, a3, b1}
MCGroups == {ga, gb}
MCGroupOf == a1 :> ga @@ a2 :> ga @@ a3 :> ga @@ b1 :> gb
MCFirstTasks == {a1, a2, b1}

Symmetry == Permutations(Cpus)

=============================================================================

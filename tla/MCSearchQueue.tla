--------------------------- MODULE MCSearchQueue ---------------------------
(* Instances of SearchQueue for TLC. *)
EXTENDS SearchQueue, TLC

NoLocks == {{}}
AnyLocks == SUBSET Target

WorkerSymmetry == Permutations(Worker)

=============================================================================

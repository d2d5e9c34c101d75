-------------------------- MODULE MCTransferQueue --------------------------
(* Instances of TransferQueue for TLC. *)
EXTENDS TransferQueue, TLC

(* No other statement holds a row, or one other statement holds one row. *)
NoLocks == {{}}
OneLock == {{}} \cup {{t} : t \in Task}

WorkerSymmetry == Permutations(Worker)

=============================================================================

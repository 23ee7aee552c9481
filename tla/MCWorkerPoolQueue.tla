--------------------------- MODULE MCWorkerPoolQueue ---------------------------
(* Small instances of WorkerPoolQueue.                                     *)
EXTENDS WorkerPoolQueue, TLC

(* Healthy items are interchangeable, and so are worker goroutines.        *)
Symmetric == Permutations(Item \ Corrupted) \cup Permutations(Worker)
=============================================================================

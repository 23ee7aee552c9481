----------------------------- MODULE MCActionsTask -----------------------------
(* Small instances of ActionsTask.                                         *)
EXTENDS ActionsTask, TLC

(* Jobs, task ids and stoppers are interchangeable.                        *)
Symmetric == Permutations(Job) \cup Permutations(Task) \cup Permutations(Stopper)
=============================================================================

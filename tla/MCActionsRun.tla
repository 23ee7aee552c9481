----------------------------- MODULE MCActionsRun -----------------------------
EXTENDS ActionsRun, TLC

CONSTANTS r1, r2, a, b, c, g, h

None3 == [j \in {a, b, c} |-> {}]
Fork == [j \in {a, b, c} |-> IF j = a THEN {} ELSE {a}]

(* A run to be approved of one job, in a group as a whole; one job of the  *)
(* group; two jobs of the group that need a third; and one job of a group  *)
(* with cancel-in-progress.                                                *)
Whole ==
  [jobs |-> {a}, needs |-> None3, group |-> g, whole |-> TRUE, grouped |-> {},
   approval |-> TRUE, graceful |-> TRUE]
OneJob ==
  [jobs |-> {a}, needs |-> None3, group |-> g, whole |-> FALSE, grouped |-> {a},
   approval |-> FALSE, graceful |-> TRUE]
Forked ==
  [jobs |-> {a, b, c}, needs |-> Fork, group |-> g, whole |-> FALSE, grouped |-> {b, c},
   approval |-> FALSE, graceful |-> FALSE]
Cancels == [OneJob EXCEPT !.group = h]
MCWorkflow == {Whole, OneJob, Forked, Cancels}

(* Bounds: the runs share a group, at most one has three jobs, and there   *)
(* is one kind of trouble.  Two runs see one request, unless each has a    *)
(* job of a group; of two runs no runner reports that it skipped a job.    *)
OneGroup == \A r, q \in Run : None \in {GroupOf(<<r, 1>>), GroupOf(<<q, 1>>)} \/ wf[r].group = wf[q].group
OneForked == Cardinality({r \in Run : wf[r] = Forked}) <= 1
OneTrouble == Cardinality(cut) <= 1
Both == \A r \in Run : wf[r] # None
OneRequest ==
  Both /\ (\E r, q \in Run : wf[r] # wf[q] \/ wf[r] = Whole) => asked <= 1
NoneSkips ==
  Both => \A x \in Attempt, j \in Name : row[x][j].st = "skipped" => row[x][j].task = "none"

Symmetry == Permutations({r1, r2}) \cup Permutations({b, c})
===============================================================================

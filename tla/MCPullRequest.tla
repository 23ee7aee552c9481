----------------------------- MODULE MCPullRequest -----------------------------
EXTENDS PullRequest

CONSTANTS m1, m2

(* Approvals are required in a repository without commit statuses.         *)
MCSettings ==
  {[delays |-> TRUE, statuses |-> TRUE, approvals |-> FALSE],
   [delays |-> FALSE, statuses |-> FALSE, approvals |-> TRUE]}

(* The first head commit conflicts with what is pushed to the base branch. *)
MCConflicts == {<<1, 2>>}
===============================================================================

----------------------------- MODULE QueueContract -----------------------------
(***************************************************************************)
(* What modules/queue promises to the code that pushes items and to the    *)
(* handler (package comment of queue.go, comments of workergroup.go and    *)
(* manager.go), without saying how: an accepted item waits until it is     *)
(* delivered to one handler call; the call finishes it, hands it back or   *)
(* gives it up; an item that is finished or given up stays so.  Every      *)
(* reason for giving an item up is tied to the mode in which it may occur, *)
(* and nothing is delivered any more once the queue is stopping.           *)
(***************************************************************************)
CONSTANT Item

VARIABLES
  status,  \* of each item
  mode     \* of the queue

Reason == {"panic", "flush", "full", "discard", "removed", "corrupt"}
Mode == {"running", "flushing", "stopping", "stopped"}

cvars == <<status, mode>>

Init ==
  /\ status = [i \in Item |-> "new"]
  /\ mode = "running"

Within(S, s) == \A i \in S : status[i] = s
Becomes(S, s) == status' = [i \in Item |-> IF i \in S THEN s ELSE status[i]]

Accept(i) == Within({i}, "new") /\ Becomes({i}, "waiting")

Deliver(S) ==
  /\ mode \in {"running", "flushing"}
  /\ Within(S, "waiting") /\ Becomes(S, "handling")

(* A handler call ends: Done was handled, the rest of S waits again.       *)
Return(S, Done) ==
  /\ Within(S, "handling") /\ Done \subseteq S
  /\ status' = [i \in Item |-> IF i \in Done THEN "done"
                               ELSE IF i \in S THEN "waiting" ELSE status[i]]

(* A handler call ends and nothing of its batch was handled: the handler   *)
(* panicked, or the batch failed as a whole during a flush.                *)
ReturnNothing(S, why) ==
  /\ Within(S, "handling")
  /\ why = "panic" \/ (why = "flush" /\ mode = "flushing")
  /\ Becomes(S, why)

(* Waiting items are given up: only a flush discards, and only a queue     *)
(* that still reads its storage meets corrupted items.                     *)
GiveUp(S, why) ==
  /\ Within(S, "waiting")
  /\ \/ why \in {"full", "removed"}
     \/ why = "corrupt" /\ mode # "stopped"
     \/ why = "discard" /\ mode = "flushing"
  /\ Becomes(S, why)

ItemStep ==
  \/ UNCHANGED status
  \/ \E i \in Item : Accept(i)
  \/ \E S \in SUBSET Item :
       \/ Deliver(S)
       \/ \E Done \in SUBSET S : Return(S, Done)
       \/ \E why \in Reason : ReturnNothing(S, why) \/ GiveUp(S, why)

(* Flushes come and go; stopping is final.                                 *)
ModeStep ==
  \/ UNCHANGED mode
  \/ mode = "running" /\ mode' \in {"flushing", "stopping"}
  \/ mode = "flushing" /\ mode' = "running"
  \/ mode = "stopping" /\ mode' = "stopped"

Next == ItemStep /\ ModeStep

Spec == Init /\ [][Next]_cvars
=============================================================================

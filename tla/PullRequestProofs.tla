--------------------------- MODULE PullRequestProofs ---------------------------
(***************************************************************************)
(* Proofs about PullRequest: for any branches, settings, numbers of        *)
(* workers, merge requests and tasks.                                      *)
(***************************************************************************)
EXTENDS PullRequest, TLAPS

(* The working lock: who has it, and that a check goes on only for a pull  *)
(* request that is not merged.                                             *)
Locked ==
  /\ check.pc # "idle" <=> lock = "check"
  /\ \A m \in Mergers : req[m].pc \in {"fetch", "push", "hook"} <=> lock = m
  /\ check.pc # "idle" => merged = 0

(* A check is still to begin: it is queued, waits for the lock, or a task  *)
(* on its way to the queue is at work or is about to be started.           *)
CheckTasks ==
  ({"head", "base"} \X {"list", "mark", "reread", "push"})
    \cup ({"reopen"} \X {"mark", "reread", "push"}) \cup {<<"head", "hook">>}
AtWork == \E t \in CheckTasks : tasks[t] > 0
AtHook == \E m \in Mergers : req[m].pc = "hook"
Pending == queued \/ popped > 0 \/ AtWork \/ AtHook

(* A check whose branches have moved on since it read them is followed by  *)
(* another one: this is what allows it to store its result.                *)
Stale ==
  \/ check.pc = "base" /\ check.head # head
  \/ check.pc \in {"queue", "store"} /\ <<check.head, check.base>> # Now
StaleCovered == merged = 0 /\ ChecksGivenUp = {} /\ Stale => Pending

(* The check at work is about the present branches, or will be.            *)
CheckComing ==
  \/ check.pc \in {"detect", "head"}
  \/ check.pc = "base" /\ check.head = head
  \/ check.pc \in {"queue", "store"} /\ <<check.head, check.base>> = Now

(* What holds of the check at work and of the row when nothing is pending. *)
Fresh ==
  ~Stale /\ (status = "checking" \/ tested # Now => status = "error" \/ CheckComing)

(* A merge has read a base commit, which is followed by its own once it is *)
(* pushed, and pushes the head commit it was asked for.                    *)
MergeReads ==
  \A m \in Mergers :
    /\ req[m].pc \in {"fetch", "push"} => req[m].base <= Len(base)
    /\ req[m].pc = "hook" => req[m].base < Len(base)
    /\ req[m].pc = "push" => req[m].asked \in {0, req[m].head}

(* While a check wakes the automerge, the status is the result it stored,  *)
(* or something that is not "mergeable".                                   *)
WakeAgrees == check.pc = "wake" /\ status = "mergeable" => check.result = "mergeable"

(* Who sees to a due automerge.  A task does only before it has marked the *)
(* pull request, which makes it due no more: one that goes on afterwards   *)
(* may find the status overwritten by a check and end.  A handler does if  *)
(* it is about the present head and has read a status that allows a merge. *)
SettlesAt == ({"head", "base"} \X {"list", "mark"}) \cup {<<"head", "hook">>}
Settling == \E t \in SettlesAt : tasks[t] > 0
OnItsWay(m) ==
  \/ req[m].pc \in {"wake", "merge", "fetch", "push", "hook"}
  \/ req[m].pc = "auto" /\ req[m].ready /\ req[m].asked = head
Backed ==
  \/ head \in mergeQueue \cup announcing
  \/ check.pc # "idle" \/ queued \/ popped > 0
  \/ \E m \in Mergers : OnItsWay(m)
  \/ Settling
DueBacked == Due => Backed

(* A check that could not mark the pull request as merged wakes nobody: it *)
(* found the issue closed, and if this was reopened since, the last check  *)
(* queued is not the one at work.                                          *)
RefusedSeen ==
  /\ check.pc \in {"idle", "detect"} => ~check.refused
  /\ check.refused => closed \/ "reopened" \in missed \/ queued \/ popped > 0

IInv ==
  /\ TypeOK /\ Locked /\ MergeReads /\ ExpectedHead /\ StaleCovered /\ RecheckComing
  /\ WakeAgrees /\ DueBacked /\ RefusedSeen
-----------------------------------------------------------------------------
(* The records of a handler and of a request that are not at work.         *)
LEMMA Idle == NoCheck \in Check /\ NoRequest \in Request
BY PullRequestAssumption
   DEF NoCheck, Check, NoRequest, Request, HeadCommit, BaseTip, Outcome

(* A task that starts or ends leaves a number at every place.              *)
LEMMA TaskEnds ==
  ASSUME tasks \in [TaskAt -> Nat], NEW t \in TaskAt
  PROVE  /\ Spawn(t) => tasks' \in [TaskAt -> Nat]
         /\ tasks[t] > 0 /\ Ended(t) => tasks' \in [TaskAt -> Nat]
<1>1. Spawn(t) => tasks' \in [TaskAt -> Nat]
  BY DEF Spawn
<1>2. tasks[t] > 0 /\ Ended(t) => tasks' \in [TaskAt -> Nat]
  BY DEF Ended
<1> QED
  BY <1>1, <1>2

(* So does a task that goes on to another place.                           *)
LEMMA TaskMoves ==
  ASSUME tasks \in [TaskAt -> Nat], NEW t \in TaskAt, NEW u \in TaskAt, t # u,
         tasks[t] > 0, Moved(t, u)
  PROVE  tasks' \in [TaskAt -> Nat]
<1>1. \A v \in TaskAt : tasks'[v] = IF v = u THEN tasks[v] + 1
                                   ELSE IF v = t THEN tasks[v] - 1 ELSE tasks[v]
  BY DEF Moved
<1>2. tasks' = [v \in TaskAt |-> tasks'[v]]
  BY DEF Moved
<1>3. \A v \in TaskAt : tasks'[v] \in Nat
  BY <1>1
<1> QED
  BY <1>2, <1>3

(* A request goes on to another place, or ends.                            *)
LEMMA RequestMoves ==
  ASSUME req \in [Mergers -> Request], NEW m \in Mergers, NEW r \in Request
  PROVE  /\ req' = [req EXCEPT ![m] = r] => req' \in [Mergers -> Request]
         /\ Leave(m) => req' \in [Mergers -> Request]
BY Idle DEF Leave

(* What SetMerged leaves in the row has the type of the row.               *)
LEMMA SetMergedType ==
  ASSUME TypeOK, NEW c \in 1..MaxBase, NEW st \in Status, SetMerged(c, st)
  PROVE  /\ merged' \in 0..MaxBase /\ status' \in Status
         /\ closed' \in BOOLEAN /\ scheduled' \in BOOLEAN
<1>1. CASE CanSetMerged
  <2>1. merged' = c /\ closed' = TRUE /\ scheduled' = FALSE /\ status' = st
    BY <1>1 DEF SetMerged
  <2>2. c \in 0..MaxBase
    BY PullRequestAssumption
  <2> QED
    BY <2>1, <2>2
<1>2. CASE ~CanSetMerged
  BY <1>2 DEF TypeOK, SetMerged
<1> QED
  BY <1>1, <1>2

(* The places of the base branch are below the bound.                      *)
LEMMA BaseDomain == ASSUME TypeOK PROVE DOMAIN base = 1..Len(base) /\ DOMAIN base \subseteq 1..MaxBase
BY PullRequestAssumption DEF TypeOK, BaseTip

(* Every action keeps the variables in their types.                        *)
LEMMA TypeStep == IInv /\ [Next]_vars => TypeOK'
<1> SUFFICES ASSUME IInv, [Next]_vars PROVE TypeOK'
  OBVIOUS
<1> USE DEF IInv
<1>1. CASE PushHead
  <2>1. head' \in HeadCommit
    BY <1>1, PullRequestAssumption DEF PushHead, HeadCommit, TypeOK
  <2>2. tasks' \in [TaskAt -> Nat]
    <3>1. <<"head", "hook">> \in TaskAt
      BY DEF TaskAt
    <3> QED
      BY <3>1, <1>1, TaskEnds, TaskMoves DEF PushHead, TypeOK
  <2>3. events' \in 0..MaxEvents
    BY <1>1, PullRequestAssumption DEF PushHead, Event, TypeOK
  <2> QED
    BY <1>1, <2>1, <2>2, <2>3 DEF PushHead, TypeOK, git, row, queues, procs, counters
<1>2. CASE PushBase
  <2>1. base' \in Seq(BaseCommit) /\ Len(base') \in BaseTip
    <3>1. base[Len(base)] \in BaseCommit
      BY PullRequestAssumption DEF TypeOK, BaseTip
    <3>2. PICK h \in {Contained, head} : base' = Append(base, [has |-> h, asked |-> 0])
      BY <1>2 DEF PushBase
    <3>3. [has |-> h, asked |-> 0] \in BaseCommit
      BY <3>1, PullRequestAssumption DEF Contained, BaseCommit, HeadCommit, TypeOK
    <3> QED
      BY <3>2, <3>3, <1>2, PullRequestAssumption DEF PushBase, BaseTip, TypeOK
  <2>2. tasks' \in [TaskAt -> Nat]
    <3>1. <<"base", "list">> \in TaskAt
      BY DEF TaskAt
    <3> QED
      BY <3>1, <1>2, TaskEnds, TaskMoves DEF PushBase, TypeOK
  <2>3. events' \in 0..MaxEvents
    BY <1>2, PullRequestAssumption DEF PushBase, Event, TypeOK
  <2> QED
    BY <1>2, <2>1, <2>2, <2>3 DEF PushBase, TypeOK, git, row, queues, procs, counters
<1>3. ASSUME NEW h \in HeadCommit, CreateCommitStatus(h) PROVE TypeOK'
  <2>1. passed' \subseteq HeadCommit
    BY <1>3 DEF CreateCommitStatus, Succeeds, IsSkipped, FailsAgain, TypeOK
  <2>2. events' \in 0..MaxEvents
    BY <1>3, PullRequestAssumption DEF CreateCommitStatus, Event, TypeOK
  <2> QED
    BY <1>3, <2>1, <2>2
       DEF CreateCommitStatus, Succeeds, IsSkipped, FailsAgain, TypeOK, git, row, queues, procs, counters
<1>4. CASE StartPullRequestCheckOnView
  <2>1. tasks' \in [TaskAt -> Nat]
    <3>1. <<"view", "push">> \in TaskAt
      BY DEF TaskAt
    <3> QED
      BY <3>1, <1>4, TaskEnds, TaskMoves DEF StartPullRequestCheckOnView, TypeOK
  <2>2. events' \in 0..MaxEvents
    BY <1>4, PullRequestAssumption DEF StartPullRequestCheckOnView, Event, TypeOK
  <2> QED
    BY <1>4, <2>1, <2>2 DEF StartPullRequestCheckOnView, TypeOK, git, row, queues, procs, counters
<1>5. CASE CloseIssue
  <2>1. events' \in 0..MaxEvents
    BY <1>5, PullRequestAssumption DEF CloseIssue, Event, TypeOK
  <2> QED
    BY <1>5, <2>1 DEF CloseIssue, TypeOK, git, row, queues, procs, counters
<1>6. CASE NewComment
  <2>1. tasks' \in [TaskAt -> Nat]
    <3>1. <<"reopen", "mark">> \in TaskAt
      BY DEF TaskAt
    <3> QED
      BY <3>1, <1>6, TaskEnds, TaskMoves DEF NewComment, TypeOK
  <2>2. events' \in 0..MaxEvents
    BY <1>6, PullRequestAssumption DEF NewComment, Event, TypeOK
  <2> QED
    BY <1>6, <2>1, <2>2 DEF NewComment, TypeOK, git, row, queues, procs, counters
<1>7. CASE RemoveScheduledAutoMerge
  <2>1. events' \in 0..MaxEvents
    BY <1>7, PullRequestAssumption DEF RemoveScheduledAutoMerge, Event, TypeOK
  <2> QED
    BY <1>7, <2>1 DEF RemoveScheduledAutoMerge, TypeOK, git, row, queues, procs, counters
<1>8. ASSUME NEW m \in Mergers, MergePullRequest(m) PROVE TypeOK'
  <2>1. req' \in [Mergers -> Request]
    <3>1. PICK how \in {"merge", "manual", "unschedule"}, asked \in {0, head} :
            req' = [req EXCEPT ![m] = [NoRequest EXCEPT !.pc = how, !.asked = asked,
                                                  !.ready = (status = "mergeable")]]
      BY <1>8 DEF MergePullRequest
    <3>2. asked \in 0..MaxHead
      BY PullRequestAssumption DEF TypeOK, HeadCommit
    <3>3. [NoRequest EXCEPT !.pc = how, !.asked = asked,
                                                  !.ready = (status = "mergeable")] \in Request
      BY <3>2, Idle DEF Request
    <3> QED
      BY <3>1, <3>3, RequestMoves DEF TypeOK
  <2>2. events' \in 0..MaxEvents
    BY <1>8, PullRequestAssumption DEF MergePullRequest, Event, TypeOK
  <2> QED
    BY <1>8, <2>1, <2>2 DEF MergePullRequest, TypeOK, git, row, queues, procs, counters
<1>9. ASSUME NEW k \in {"head", "base"}, List(k) PROVE TypeOK'
  <2>1. tasks' \in [TaskAt -> Nat]
    <3>1. <<k, "list">> \in TaskAt /\ <<k, "mark">> \in TaskAt
      BY DEF TaskAt
    <3> QED
      BY <3>1, <1>9, TaskEnds, TaskMoves DEF List, TypeOK
  <2> QED
    BY <1>9, <2>1 DEF List, HeadCommit, TypeOK, git, row, queues, procs, counters
<1>10. ASSUME NEW k \in {"head", "base", "reopen"}, Mark(k) PROVE TypeOK'
  <2>1. tasks' \in [TaskAt -> Nat]
    <3>1. <<k, "mark">> \in TaskAt /\ <<k, "reread">> \in TaskAt
      BY DEF TaskAt
    <3> QED
      BY <3>1, <1>10, TaskEnds, TaskMoves DEF Mark, TypeOK
  <2>2. status' \in Status
    BY <1>10 DEF Mark, SetStatusIfNotMerged, Status, TypeOK
  <2> QED
    BY <1>10, <2>1, <2>2 DEF Mark, TypeOK, git, row, queues, procs, counters
<1>11. ASSUME NEW k \in {"head", "base", "reopen"}, Reread(k) PROVE TypeOK'
  <2>1. tasks' \in [TaskAt -> Nat]
    <3>1. <<k, "reread">> \in TaskAt /\ <<k, "push">> \in TaskAt
      BY DEF TaskAt
    <3>2. (k = "reopen" => <<k, "open">> \in TaskAt) /\ (k = "head" => <<k, "reviews">> \in TaskAt)
      BY DEF TaskAt
    <3> QED
      BY <3>1, <3>2, <1>11, TaskEnds, TaskMoves DEF Reread, Leaves, TypeOK
  <2> QED
    BY <1>11, <2>1 DEF Reread, TypeOK, git, row, queues, procs, counters
<1>12. ASSUME NEW k \in {"head", "base", "reopen", "view"}, QueueCheck(k) PROVE TypeOK'
  <2>1. tasks' \in [TaskAt -> Nat]
    <3>1. <<k, "push">> \in TaskAt
      BY DEF TaskAt
    <3>2. (k = "reopen" => <<k, "open">> \in TaskAt) /\ (k = "head" => <<k, "reviews">> \in TaskAt)
      BY DEF TaskAt
    <3> QED
      BY <3>1, <3>2, <1>12, TaskEnds, TaskMoves DEF QueueCheck, Leaves, TypeOK
  <2>2. queued' \in BOOLEAN
    BY <1>12 DEF QueueCheck, AddPullRequestToCheckQueue, AlreadyQueued, TypeOK
  <2> QED
    BY <1>12, <2>1, <2>2 DEF QueueCheck, AddPullRequestToCheckQueue, TypeOK, git, row, queues, procs, counters
<1>13. CASE Postpone
  <2>1. tasks' \in [TaskAt -> Nat]
    <3>1. <<"base", "push">> \in TaskAt
      BY DEF TaskAt
    <3> QED
      BY <3>1, <1>13, TaskEnds, TaskMoves DEF Postpone, TypeOK
  <2> QED
    BY <1>13, <2>1 DEF Postpone, TypeOK, git, row, queues, procs, counters
<1>14. CASE ViewInVain
  <2>1. tasks' \in [TaskAt -> Nat]
    <3>1. <<"view", "push">> \in TaskAt
      BY DEF TaskAt
    <3> QED
      BY <3>1, <1>14, TaskEnds, TaskMoves DEF ViewInVain, TypeOK
  <2> QED
    BY <1>14, <2>1 DEF ViewInVain, TypeOK, git, row, queues, procs, counters
<1>15. CASE ReopenIssue
  <2>1. tasks' \in [TaskAt -> Nat]
    <3>1. <<"reopen", "open">> \in TaskAt
      BY DEF TaskAt
    <3> QED
      BY <3>1, <1>15, TaskEnds, TaskMoves DEF ReopenIssue, TypeOK
  <2> QED
    BY <1>15, <2>1 DEF ReopenIssue, TypeOK, git, row, queues, procs, counters
<1>16. CASE CheckPop
  <2>1. popped' \in 0..Workers
    BY <1>16, PullRequestAssumption DEF CheckPop, Running, TypeOK
  <2> QED
    BY <1>16, <2>1 DEF CheckPop, TypeOK, git, row, queues, procs, counters
<1>17. CASE CheckStart
  <2>1. check' \in Check
    BY <1>17, Idle DEF CheckStart, CheckAt, CheckTo, CheckDone, Check, TypeOK
  <2>2. lock' \in {"free", "check"} \cup Mergers
    BY <1>17 DEF CheckStart, CheckTo, CheckDone, MergeEnds, TypeOK
  <2>3. popped' \in 0..Workers
    BY <1>17, PullRequestAssumption DEF CheckStart, Running, TypeOK
  <2> QED
    BY <1>17, <2>1, <2>2, <2>3 DEF CheckStart, TypeOK, git, row, queues, procs, counters
<1>18. CASE ManuallyMerged
  <2>1. check' \in Check
    BY <1>18, Idle DEF ManuallyMerged, CheckAt, CheckTo, CheckDone, Check, TypeOK
  <2>2. lock' \in {"free", "check"} \cup Mergers
    BY <1>18 DEF ManuallyMerged, CheckTo, CheckDone, MergeEnds, TypeOK
  <2>3. /\ merged' \in 0..MaxBase /\ status' \in Status
         /\ closed' \in BOOLEAN /\ scheduled' \in BOOLEAN
    <3>1. "manual" \in Status
      BY DEF Status
    <3> QED
      BY <3>1, <1>18, BaseDomain, SetMergedType DEF ManuallyMerged
  <2> QED
    BY <1>18, <2>1, <2>2, <2>3 DEF ManuallyMerged, TypeOK, git, row, queues, procs, counters
<1>19. CASE NotManuallyMerged
  <2>1. check' \in Check
    <3>1. PICK refused \in BOOLEAN : check' = [check EXCEPT !.pc = "head", !.refused = refused]
      BY <1>19 DEF NotManuallyMerged
    <3> QED
      BY <3>1 DEF Check, TypeOK
  <2>2. lock' \in {"free", "check"} \cup Mergers
    BY <1>19 DEF NotManuallyMerged, TypeOK
  <2> QED
    BY <1>19, <2>1, <2>2 DEF NotManuallyMerged, TypeOK, git, row, queues, procs, counters
<1>20. CASE CheckHead
  <2>1. check' \in Check
    BY <1>20, Idle DEF CheckHead, CheckAt, CheckTo, CheckDone, Check, TypeOK
  <2> QED
    BY <1>20, <2>1 DEF CheckHead, TypeOK, git, row, queues, procs, counters
<1>21. CASE CheckBase
  <2>1. check' \in Check
    <3>1. PICK res \in Outcomes(check.head, Len(base)) :
            check' = [check EXCEPT !.pc = "queue", !.base = Len(base), !.result = res]
      BY <1>21 DEF CheckBase
    <3>2. res \in Outcome
      BY <3>1 DEF Outcomes, Outcome
    <3> QED
      BY <3>1, <3>2 DEF Check, TypeOK
  <2> QED
    BY <1>21, <2>1 DEF CheckBase, TypeOK, git, row, queues, procs, counters
<1>22. CASE CheckFails
  <2>1. check' \in Check
    BY <1>22, Idle DEF CheckFails, CheckAt, CheckTo, CheckDone, Check, TypeOK
  <2>2. lock' \in {"free", "check"} \cup Mergers
    BY <1>22 DEF CheckFails, CheckTo, CheckDone, MergeEnds, TypeOK
  <2>3. status' \in Status
    BY <1>22 DEF CheckFails, SetStatusIfNotMerged, Status, TypeOK
  <2> QED
    BY <1>22, <2>1, <2>2, <2>3 DEF CheckFails, TypeOK, git, row, queues, procs, counters
<1>23. CASE CheckQueue
  <2>1. check' \in Check
    BY <1>23, Idle DEF CheckQueue, CheckAt, CheckTo, CheckDone, Check, TypeOK
  <2>2. lock' \in {"free", "check"} \cup Mergers
    BY <1>23 DEF CheckQueue, CheckTo, CheckDone, MergeEnds, TypeOK
  <2> QED
    BY <1>23, <2>1, <2>2 DEF CheckQueue, TypeOK, git, row, queues, procs, counters
<1>24. CASE CheckStore
  <2>1. check' \in Check
    BY <1>24, Idle DEF CheckStore, CheckAt, CheckTo, CheckDone, Check, TypeOK
  <2>2. lock' \in {"free", "check"} \cup Mergers
    BY <1>24 DEF CheckStore, CheckTo, CheckDone, MergeEnds, TypeOK
  <2>3. status' \in Status
    BY <1>24 DEF CheckStore, SetStatusIfNotMerged, Status, TypeOK, Check
  <2>4. tested' \in HeadCommit \X BaseTip
    BY <1>24 DEF CheckStore, Check, TypeOK
  <2> QED
    BY <1>24, <2>1, <2>2, <2>3, <2>4 DEF CheckStore, TypeOK, git, row, queues, procs, counters
<1>25. CASE CheckWake
  <2>1. check' \in Check
    BY <1>25, Idle DEF CheckWake, CheckAt, CheckTo, CheckDone, Check, TypeOK
  <2>2. lock' \in {"free", "check"} \cup Mergers
    BY <1>25 DEF CheckWake, CheckTo, CheckDone, MergeEnds, TypeOK
  <2>3. mergeQueue' \subseteq HeadCommit
    BY <1>25 DEF CheckWake, StartPRCheckAndAutoMerge, TypeOK
  <2> QED
    BY <1>25, <2>1, <2>2, <2>3 DEF CheckWake, TypeOK, git, row, queues, procs, counters
<1>26. ASSUME NEW m \in Mergers, DeleteScheduledAutoMerge(m) PROVE TypeOK'
  <2>1. req' \in [Mergers -> Request]
    <3>1. req[m] \in Request
      BY DEF TypeOK
    <3>2. [req[m] EXCEPT !.pc = "schedule"] \in Request
      BY <3>1, <1>26, PullRequestAssumption DEF Request
    <3>3. req' = [req EXCEPT ![m] = [req[m] EXCEPT !.pc = "schedule"]]
      BY <3>1, <1>26 DEF DeleteScheduledAutoMerge, To, TypeOK, Request
    <3> QED
      BY <3>2, <3>3, RequestMoves DEF TypeOK
  <2> QED
    BY <1>26, <2>1 DEF DeleteScheduledAutoMerge, TypeOK, git, row, queues, procs, counters
<1>27. ASSUME NEW m \in Mergers, ScheduleAutoMerge(m) PROVE TypeOK'
  <2>1. req' \in [Mergers -> Request]
    <3>1. req[m] \in Request
      BY DEF TypeOK
    <3>2. [req[m] EXCEPT !.pc = "wake"] \in Request
      BY <3>1 DEF Request
    <3>3. scheduled \/ req' = [req EXCEPT ![m] = [req[m] EXCEPT !.pc = "wake"]]
      BY <3>1, <1>27 DEF ScheduleAutoMerge, To, TypeOK, Request
    <3> QED
      BY <3>2, <3>3, <1>27, RequestMoves DEF ScheduleAutoMerge, TypeOK
  <2> QED
    BY <1>27, <2>1 DEF ScheduleAutoMerge, TypeOK, git, row, queues, procs, counters
<1>28. ASSUME NEW m \in Mergers, ScheduleWake(m) PROVE TypeOK'
  <2>1. req' \in [Mergers -> Request]
    BY <1>28, RequestMoves DEF ScheduleWake, TypeOK
  <2>2. mergeQueue' \subseteq HeadCommit
    BY <1>28 DEF ScheduleWake, StartPRCheckAndAutoMerge, TypeOK
  <2> QED
    BY <1>28, <2>1, <2>2 DEF ScheduleWake, TypeOK, git, row, queues, procs, counters
<1>29. ASSUME NEW m \in Mergers, MergedManually(m) PROVE TypeOK'
  <2>1. req' \in [Mergers -> Request]
    BY <1>29, RequestMoves DEF MergedManually, TypeOK
  <2>2. /\ merged' \in 0..MaxBase /\ status' \in Status
         /\ closed' \in BOOLEAN /\ scheduled' \in BOOLEAN
    <3>1. "manual" \in Status
      BY DEF Status
    <3> QED
      BY <3>1, <1>29, BaseDomain, SetMergedType DEF MergedManually
  <2> QED
    BY <1>29, <2>1, <2>2 DEF MergedManually, TypeOK, git, row, queues, procs, counters
<1>30. ASSUME NEW m \in Mergers, AutoMergeTest(m) PROVE TypeOK'
  <2>1. req' \in [Mergers -> Request]
    <3>1. req[m] \in Request /\ 0 \in 0..MaxHead
      BY PullRequestAssumption DEF TypeOK
    <3>2. [req[m] EXCEPT !.pc = "merge", !.asked = 0] \in Request
      BY <3>1 DEF Request
    <3>3. Leave(m) \/ req' = [req EXCEPT ![m] = [req[m] EXCEPT !.pc = "merge", !.asked = 0]]
      BY <3>1, <1>30 DEF AutoMergeTest, TypeOK, Request
    <3> QED
      BY <3>2, <3>3, RequestMoves DEF TypeOK
  <2> QED
    BY <1>30, <2>1 DEF AutoMergeTest, TypeOK, git, row, queues, procs, counters
<1>31. ASSUME NEW m \in Mergers, MergeLock(m) PROVE TypeOK'
  <2>1. req' \in [Mergers -> Request]
    <3>1. req[m] \in Request
      BY DEF TypeOK
    <3>2. [req[m] EXCEPT !.pc = "fetch", !.base = Len(base)] \in Request
      BY <3>1, <1>31, PullRequestAssumption DEF Request, TypeOK
    <3>3. req' = [req EXCEPT ![m] = [req[m] EXCEPT !.pc = "fetch", !.base = Len(base)]]
      BY <3>1, <1>31 DEF MergeLock, To, TypeOK, Request
    <3> QED
      BY <3>2, <3>3, RequestMoves DEF TypeOK
  <2>2. lock' \in {"free", "check"} \cup Mergers
    BY <1>31 DEF MergeLock, CheckTo, CheckDone, MergeEnds, TypeOK
  <2> QED
    BY <1>31, <2>1, <2>2 DEF MergeLock, TypeOK, git, row, queues, procs, counters
<1>32. ASSUME NEW m \in Mergers, CommitMerge(m) PROVE TypeOK'
  <2>1. req' \in [Mergers -> Request]
    <3>1. req[m] \in Request
      BY DEF TypeOK
    <3>2. [req[m] EXCEPT !.pc = "push", !.head = head] \in Request
      BY <3>1, <1>32, PullRequestAssumption DEF Request, TypeOK
    <3>3. req' = [req EXCEPT ![m] = [req[m] EXCEPT !.pc = "push", !.head = head]]
      BY <3>1, <1>32 DEF CommitMerge, To, TypeOK, Request
    <3> QED
      BY <3>2, <3>3, RequestMoves DEF TypeOK
  <2> QED
    BY <1>32, <2>1 DEF CommitMerge, TypeOK, git, row, queues, procs, counters
<1>33. ASSUME NEW m \in Mergers, CommitFails(m) PROVE TypeOK'
  <2>1. req' \in [Mergers -> Request]
    BY <1>33, RequestMoves DEF CommitFails, MergeEnds, TypeOK
  <2>2. lock' \in {"free", "check"} \cup Mergers
    BY <1>33 DEF CommitFails, CheckTo, CheckDone, MergeEnds, TypeOK
  <2>3. tasks' \in [TaskAt -> Nat]
    <3>1. <<"base", "list">> \in TaskAt
      BY DEF TaskAt
    <3> QED
      BY <3>1, <1>33, TaskEnds, TaskMoves DEF CommitFails, MergeEnds, TypeOK
  <2> QED
    BY <1>33, <2>1, <2>2, <2>3 DEF CommitFails, TypeOK, git, row, queues, procs, counters
<1>34. ASSUME NEW m \in Mergers, PushMerge(m) PROVE TypeOK'
  <2>1. req' \in [Mergers -> Request]
    <3>1. req[m] \in Request
      BY DEF TypeOK
    <3>2. [req[m] EXCEPT !.pc = "hook"] \in Request
      BY <3>1, <1>34, PullRequestAssumption DEF Request
    <3>3. req' = [req EXCEPT ![m] = [req[m] EXCEPT !.pc = "hook"]]
      BY <3>1, <1>34 DEF PushMerge, To, TypeOK, Request
    <3> QED
      BY <3>2, <3>3, RequestMoves DEF TypeOK
  <2>2. base' \in Seq(BaseCommit) /\ Len(base') \in BaseTip
    <3>1. req[m] \in Request
      BY DEF TypeOK
    <3>2. [has |-> req[m].head, asked |-> req[m].asked] \in BaseCommit
      BY <3>1, PullRequestAssumption DEF Request, BaseCommit, HeadCommit
    <3> QED
      BY <3>2, <1>34, PullRequestAssumption DEF PushMerge, BaseTip, TypeOK
  <2> QED
    BY <1>34, <2>1, <2>2 DEF PushMerge, TypeOK, git, row, queues, procs, counters
<1>35. ASSUME NEW m \in Mergers, PushRejected(m) PROVE TypeOK'
  <2>1. req' \in [Mergers -> Request]
    BY <1>35, RequestMoves DEF PushRejected, MergeEnds, TypeOK
  <2>2. lock' \in {"free", "check"} \cup Mergers
    BY <1>35 DEF PushRejected, CheckTo, CheckDone, MergeEnds, TypeOK
  <2>3. tasks' \in [TaskAt -> Nat]
    <3>1. <<"base", "list">> \in TaskAt
      BY DEF TaskAt
    <3> QED
      BY <3>1, <1>35, TaskEnds, TaskMoves DEF PushRejected, MergeEnds, TypeOK
  <2> QED
    BY <1>35, <2>1, <2>2, <2>3 DEF PushRejected, TypeOK, git, row, queues, procs, counters
<1>36. ASSUME NEW m \in Mergers, HookPostReceive(m) PROVE TypeOK'
  <2>1. req' \in [Mergers -> Request]
    BY <1>36, RequestMoves DEF HookPostReceive, MergeEnds, TypeOK
  <2>2. lock' \in {"free", "check"} \cup Mergers
    BY <1>36 DEF HookPostReceive, CheckTo, CheckDone, MergeEnds, TypeOK
  <2>3. tasks' \in [TaskAt -> Nat]
    <3>1. <<"base", "list">> \in TaskAt
      BY DEF TaskAt
    <3> QED
      BY <3>1, <1>36, TaskEnds, TaskMoves DEF HookPostReceive, MergeEnds, TypeOK
  <2>4. /\ merged' \in 0..MaxBase /\ status' \in Status
         /\ closed' \in BOOLEAN /\ scheduled' \in BOOLEAN
    <3>1. req[m].base + 1 \in 1..MaxBase
      BY <1>36, PullRequestAssumption DEF HookPostReceive, At, MergeReads, TypeOK, Request, BaseTip
    <3>2. status \in Status
      BY DEF TypeOK
    <3> QED
      BY <3>1, <3>2, <1>36, SetMergedType DEF HookPostReceive
  <2> QED
    BY <1>36, <2>1, <2>2, <2>3, <2>4 DEF HookPostReceive, TypeOK, git, row, queues, procs, counters
<1>37. ASSUME NEW m \in Mergers, AutoMergePop(m) PROVE TypeOK'
  <2>1. req' \in [Mergers -> Request]
    <3>1. PICK sha \in mergeQueue :
            req' = [req EXCEPT ![m] = [NoRequest EXCEPT !.pc = "auto", !.asked = sha,
                                                  !.ready = (merged = 0 /\ CanBeMerged)]]
      BY <1>37 DEF AutoMergePop
    <3>2. sha \in 0..MaxHead
      BY PullRequestAssumption DEF TypeOK, HeadCommit
    <3>3. [NoRequest EXCEPT !.pc = "auto", !.asked = sha,
                                                  !.ready = (merged = 0 /\ CanBeMerged)] \in Request
      BY <3>2, Idle DEF Request, CanBeMerged
    <3> QED
      BY <3>1, <3>3, RequestMoves DEF TypeOK
  <2> QED
    BY <1>37, <2>1 DEF AutoMergePop, TypeOK, git, row, queues, procs, counters
<1>38. ASSUME NEW h \in HeadCommit, StartPRCheckAndAutoMergeBySHA(h) PROVE TypeOK'
  <2>1. mergeQueue' \subseteq HeadCommit
    BY <1>38 DEF StartPRCheckAndAutoMergeBySHA, StartPRCheckAndAutoMerge, TypeOK
  <2> QED
    BY <1>38, <2>1 DEF StartPRCheckAndAutoMergeBySHA, TypeOK, git, row, queues, procs, counters
<1>39. CASE Crash
  <2>1. check' \in Check
    BY <1>39, Idle DEF Crash, CheckAt, CheckTo, CheckDone, Check, TypeOK
  <2>2. req' \in [Mergers -> Request]
    BY <1>39, Idle DEF Crash, To, Leave, MergeEnds, Request, TypeOK
  <2>3. queued' \in BOOLEAN
    BY <1>39 DEF Crash, AddPullRequestToCheckQueue, AlreadyQueued, TypeOK
  <2>4. tasks' \in [TaskAt -> Nat]
    BY <1>39 DEF Crash
  <2>5. events' \in 0..MaxEvents
    BY <1>39, PullRequestAssumption DEF Crash, Event, TypeOK
  <2>6. popped' \in 0..Workers
    BY <1>39, PullRequestAssumption DEF Crash
  <2> QED
    BY <1>39, <2>1, <2>2, <2>3, <2>4, <2>5, <2>6, PullRequestAssumption DEF Crash, TypeOK, git, row, queues, procs, counters
<1>40. CASE UNCHANGED vars
  BY <1>40 DEF TypeOK, git, row, queues, procs, counters, vars
<1>41. ASSUME NEW h \in HeadCommit, Approve(h) PROVE TypeOK'
  <2>1. events' \in 0..MaxEvents
    BY <1>41, PullRequestAssumption DEF Approve, Event, TypeOK
  <2>2. approved' \in BOOLEAN
    BY <1>41 DEF Approve, TypeOK
  <2> QED
    BY <1>41, <2>1, <2>2 DEF Approve, TypeOK, git, row, queues, procs, counters
<1>42. CASE Reject
  <2>1. events' \in 0..MaxEvents
    BY <1>42, PullRequestAssumption DEF Reject, Event, TypeOK
  <2>2. approved' \in BOOLEAN
    BY <1>42 DEF Reject, TypeOK
  <2> QED
    BY <1>42, <2>1, <2>2 DEF Reject, TypeOK, git, row, queues, procs, counters
<1>43. CASE RestoreReview
  <2>1. events' \in 0..MaxEvents
    BY <1>43, PullRequestAssumption DEF RestoreReview, Event, TypeOK
  <2>2. approved' \in BOOLEAN
    BY <1>43 DEF RestoreReview, TypeOK
  <2> QED
    BY <1>43, <2>1, <2>2 DEF RestoreReview, TypeOK, git, row, queues, procs, counters
<1>44. ASSUME NEW m \in Mergers, DismissReview(m) PROVE TypeOK'
  <2>1. events' \in 0..MaxEvents
    BY <1>44, PullRequestAssumption DEF DismissReview, Event, TypeOK
  <2>2. req' \in [Mergers -> Request]
    <3>1. [NoRequest EXCEPT !.pc = "dismiss", !.ready = (status = "mergeable")] \in Request
      BY Idle DEF Request
    <3> QED
      BY <3>1, <1>44, RequestMoves DEF DismissReview, TypeOK
  <2> QED
    BY <1>44, <2>1, <2>2 DEF DismissReview, TypeOK, git, row, queues, procs, counters
<1>45. ASSUME NEW m \in Mergers, ReviewDismissed(m) PROVE TypeOK'
  <2>1. req' \in [Mergers -> Request]
    <3>1. req[m] \in Request
      BY DEF TypeOK
    <3>2. [req[m] EXCEPT !.pc = "wake"] \in Request
      BY <3>1 DEF Request
    <3>3. req' = [req EXCEPT ![m] = [req[m] EXCEPT !.pc = "wake"]]
      BY <3>1, <1>45 DEF ReviewDismissed, To, TypeOK, Request
    <3> QED
      BY <3>2, <3>3, RequestMoves DEF TypeOK
  <2>2. approved' \in BOOLEAN
    BY <1>45 DEF ReviewDismissed
  <2> QED
    BY <1>45, <2>1, <2>2 DEF ReviewDismissed, TypeOK, git, row, queues, procs, counters
<1>46. CASE LookThroughReviews
  <2>1. tasks' \in [TaskAt -> Nat]
    <3>1. <<"head", "reviews">> \in TaskAt
      BY DEF TaskAt
    <3> QED
      BY <3>1, <1>46, TaskEnds DEF LookThroughReviews, TypeOK
  <2>2. approved' \in BOOLEAN
    BY <1>46 DEF LookThroughReviews
  <2>3. mergeQueue' \subseteq HeadCommit
    BY <1>46 DEF LookThroughReviews, StartPRCheckAndAutoMerge, TypeOK
  <2> QED
    BY <1>46, <2>1, <2>2, <2>3 DEF LookThroughReviews, TypeOK, git, row, queues, procs, counters
<1>47. CASE UpdatePullsRefs
  <2>1. tasks' \in [TaskAt -> Nat]
    <3>1. <<"head", "hook">> \in TaskAt /\ <<"head", "list">> \in TaskAt
      BY DEF TaskAt
    <3> QED
      BY <3>1, <1>47, TaskMoves DEF UpdatePullsRefs, TypeOK
  <2> QED
    BY <1>47, <2>1 DEF UpdatePullsRefs, HeadCommit, TypeOK, git, row, queues, procs, counters
<1> QED
  BY <1>1, <1>2, <1>3, <1>4, <1>5, <1>6, <1>7, <1>8, <1>9, <1>10, <1>11, <1>12, <1>13, <1>14, <1>15, <1>16, <1>17, <1>18, <1>19, <1>20, <1>21, <1>22, <1>23, <1>24, <1>25, <1>26, <1>27, <1>28, <1>29, <1>30, <1>31, <1>32, <1>33, <1>34, <1>35, <1>36, <1>37, <1>38, <1>39, <1>40, <1>41, <1>42, <1>43,
     <1>44, <1>45, <1>46, <1>47
     DEF Next, Users, Tasks, CheckSteps, RequestSteps
(* Every action keeps the working lock with the one that works under it.   *)
LEMMA LockedStep ==
  ASSUME TypeOK, Locked, [Next]_vars
  PROVE  Locked'
<1>1. CASE PushHead
  BY <1>1 DEF PushHead, Locked, git, row, queues, procs, counters
<1>2. CASE PushBase
  BY <1>2 DEF PushBase, Locked, git, row, queues, procs, counters
<1>3. ASSUME NEW h \in HeadCommit, CreateCommitStatus(h) PROVE Locked'
  BY <1>3 DEF CreateCommitStatus, Locked, git, row, queues, procs, counters
<1>4. CASE StartPullRequestCheckOnView
  BY <1>4 DEF StartPullRequestCheckOnView, Locked, git, row, queues, procs, counters
<1>5. CASE CloseIssue
  BY <1>5 DEF CloseIssue, Locked, git, row, queues, procs, counters
<1>6. CASE NewComment
  BY <1>6 DEF NewComment, Locked, git, row, queues, procs, counters
<1>7. CASE RemoveScheduledAutoMerge
  BY <1>7 DEF RemoveScheduledAutoMerge, Locked, git, row, queues, procs, counters
<1>8. ASSUME NEW m \in Mergers, MergePullRequest(m) PROVE Locked'
  BY <1>8, PullRequestAssumption DEF MergePullRequest, Locked, TypeOK, git, row, procs, At, NoRequest
<1>9. ASSUME NEW k \in {"head", "base"}, List(k) PROVE Locked'
  BY <1>9 DEF List, Locked, git, row, queues, procs, counters
<1>10. ASSUME NEW k \in {"head", "base", "reopen"}, Mark(k) PROVE Locked'
  BY <1>10 DEF Mark, Locked, git, row, queues, procs, counters
<1>11. ASSUME NEW k \in {"head", "base", "reopen"}, Reread(k) PROVE Locked'
  BY <1>11 DEF Reread, Locked, git, row, queues, procs, counters
<1>12. ASSUME NEW k \in {"head", "base", "reopen", "view"}, QueueCheck(k) PROVE Locked'
  BY <1>12 DEF QueueCheck, Locked, git, row, queues, procs, counters
<1>13. CASE Postpone
  BY <1>13 DEF Postpone, Locked, git, row, queues, procs, counters
<1>14. CASE ViewInVain
  BY <1>14 DEF ViewInVain, Locked, git, row, queues, procs, counters
<1>15. CASE ReopenIssue
  BY <1>15 DEF ReopenIssue, Locked, git, row, queues, procs, counters
<1>16. CASE CheckPop
  BY <1>16 DEF CheckPop, Locked, git, row, queues, procs, counters
<1>17. CASE CheckStart
  <2>1. CASE merged = 0
    <3>1. check' = [check EXCEPT !.pc = "detect"] /\ lock' = "check"
      BY <1>17, <2>1 DEF CheckStart
    <3>2. UNCHANGED <<req, merged>>
      BY <1>17 DEF CheckStart, row
    <3> QED
      BY <2>1, <3>1, <3>2, <1>17, PullRequestAssumption DEF CheckStart, Locked, TypeOK, Check
  <2>2. CASE merged # 0
    BY <2>2, <1>17 DEF CheckStart, Locked, row
  <2> QED
    BY <2>1, <2>2
<1>18. CASE ManuallyMerged
  BY <1>18, PullRequestAssumption DEF ManuallyMerged, Locked, TypeOK, git, row, procs, CheckAt, CheckDone, NoCheck
<1>19. CASE NotManuallyMerged
  BY <1>19, PullRequestAssumption DEF NotManuallyMerged, Locked, TypeOK, git, row, procs, CheckAt, CheckTo, Check
<1>20. CASE CheckHead
  BY <1>20, PullRequestAssumption DEF CheckHead, Locked, TypeOK, git, row, procs, CheckAt, Check
<1>21. CASE CheckBase
  BY <1>21, PullRequestAssumption DEF CheckBase, Locked, TypeOK, git, row, procs, CheckAt, Check
<1>22. CASE CheckFails
  BY <1>22, PullRequestAssumption DEF CheckFails, Locked, TypeOK, git, row, procs, CheckAt, CheckDone, NoCheck
<1>23. CASE CheckQueue
  <2>1. CASE queued
    BY <2>1, <1>23, PullRequestAssumption DEF CheckQueue, CheckAt, CheckDone, NoCheck, Locked, TypeOK, row
  <2>2. CASE ~queued
    BY <2>2, <1>23 DEF CheckQueue, CheckAt, CheckTo, Locked, TypeOK, Check, row
  <2> QED
    BY <2>1, <2>2
<1>24. CASE CheckStore
  BY <1>24, PullRequestAssumption DEF CheckStore, Locked, TypeOK, git, row, procs, CheckAt, CheckTo, Check
<1>25. CASE CheckWake
  BY <1>25, PullRequestAssumption DEF CheckWake, Locked, TypeOK, git, row, procs, CheckAt, CheckDone, NoCheck
<1>26. ASSUME NEW m \in Mergers, DeleteScheduledAutoMerge(m) PROVE Locked'
  BY <1>26, PullRequestAssumption DEF DeleteScheduledAutoMerge, Locked, TypeOK, git, row, procs, At, To, Request
<1>27. ASSUME NEW m \in Mergers, ScheduleAutoMerge(m) PROVE Locked'
  <2>1. UNCHANGED <<lock, check, merged>>
    BY <1>27 DEF ScheduleAutoMerge, row
  <2>2. \A n \in Mergers : \/ req'[n].pc = req[n].pc
                           \/ n = m /\ req'[n].pc \in {"idle", "wake"}
    BY <1>27 DEF ScheduleAutoMerge, Leave, To, NoRequest, TypeOK, Request
  <2> QED
    BY <1>27, <2>1, <2>2 DEF ScheduleAutoMerge, At, Locked
<1>28. ASSUME NEW m \in Mergers, ScheduleWake(m) PROVE Locked'
  BY <1>28, PullRequestAssumption DEF ScheduleWake, Locked, TypeOK, git, row, procs, At, Leave, NoRequest
<1>29. ASSUME NEW m \in Mergers, MergedManually(m) PROVE Locked'
  BY <1>29, PullRequestAssumption DEF MergedManually, Locked, TypeOK, git, row, procs, At, Leave, NoRequest, SetMerged
<1>30. ASSUME NEW m \in Mergers, AutoMergeTest(m) PROVE Locked'
  <2>1. UNCHANGED <<lock, check, merged>>
    BY <1>30 DEF AutoMergeTest, row
  <2>2. \A n \in Mergers : \/ req'[n].pc = req[n].pc
                           \/ n = m /\ req'[n].pc \in {"idle", "merge"}
    BY <1>30 DEF AutoMergeTest, Leave, NoRequest, TypeOK, Request
  <2> QED
    BY <1>30, <2>1, <2>2 DEF AutoMergeTest, At, Locked
<1>31. ASSUME NEW m \in Mergers, MergeLock(m) PROVE Locked'
  BY <1>31, PullRequestAssumption DEF MergeLock, Locked, TypeOK, git, row, procs, At, Request
<1>32. ASSUME NEW m \in Mergers, CommitMerge(m) PROVE Locked'
  BY <1>32, PullRequestAssumption DEF CommitMerge, Locked, TypeOK, git, row, procs, At
<1>33. ASSUME NEW m \in Mergers, CommitFails(m) PROVE Locked'
  BY <1>33, PullRequestAssumption DEF CommitFails, Locked, TypeOK, git, row, procs, At, MergeEnds, Leave, NoRequest
<1>34. ASSUME NEW m \in Mergers, PushMerge(m) PROVE Locked'
  BY <1>34, PullRequestAssumption DEF PushMerge, Locked, TypeOK, git, row, procs, At, To
<1>35. ASSUME NEW m \in Mergers, PushRejected(m) PROVE Locked'
  BY <1>35, PullRequestAssumption DEF PushRejected, Locked, TypeOK, git, row, procs, At, MergeEnds, Leave, NoRequest
<1>36. ASSUME NEW m \in Mergers, HookPostReceive(m) PROVE Locked'
  BY <1>36, PullRequestAssumption DEF HookPostReceive, Locked, TypeOK, git, row, procs, At, MergeEnds, Leave, NoRequest, SetMerged
<1>37. ASSUME NEW m \in Mergers, AutoMergePop(m) PROVE Locked'
  BY <1>37, PullRequestAssumption DEF AutoMergePop, Locked, TypeOK, git, row, procs, At, NoRequest
<1>38. ASSUME NEW h \in HeadCommit, StartPRCheckAndAutoMergeBySHA(h) PROVE Locked'
  BY <1>38 DEF StartPRCheckAndAutoMergeBySHA, Locked, git, row, queues, procs, counters
<1>39. CASE Crash
  BY <1>39, PullRequestAssumption DEF Crash, Locked, TypeOK, git, row, procs, NoCheck, NoRequest
<1>40. CASE UNCHANGED vars
  BY <1>40 DEF Locked, vars, row, procs
<1>41. ASSUME NEW h \in HeadCommit, Approve(h) PROVE Locked'
  BY <1>41 DEF Approve, Locked, git, row, queues, procs, counters
<1>42. CASE Reject
  BY <1>42 DEF Reject, Locked, git, row, queues, procs, counters
<1>43. CASE RestoreReview
  BY <1>43 DEF RestoreReview, Locked, git, row, queues, procs, counters
<1>44. ASSUME NEW m \in Mergers, DismissReview(m) PROVE Locked'
  BY <1>44, PullRequestAssumption DEF DismissReview, Locked, TypeOK, git, row, procs, At, NoRequest
<1>45. ASSUME NEW m \in Mergers, ReviewDismissed(m) PROVE Locked'
  <2>1. UNCHANGED <<lock, check, merged>>
    BY <1>45 DEF ReviewDismissed, row
  <2>2. \A n \in Mergers : \/ req'[n].pc = req[n].pc
                           \/ n = m /\ req'[n].pc = "wake"
    BY <1>45 DEF ReviewDismissed, To, TypeOK, Request
  <2> QED
    BY <1>45, <2>1, <2>2 DEF ReviewDismissed, At, Locked
<1>46. CASE LookThroughReviews
  BY <1>46 DEF LookThroughReviews, Locked, git, row, queues, procs, counters
<1>47. CASE UpdatePullsRefs
  BY <1>47 DEF UpdatePullsRefs, Locked, git, row, queues, procs, counters
<1> QED
  BY <1>1, <1>2, <1>3, <1>4, <1>5, <1>6, <1>7, <1>8, <1>9, <1>10, <1>11,
     <1>12, <1>13, <1>14, <1>15, <1>16, <1>17, <1>18, <1>19, <1>20, <1>21, <1>22,
     <1>23, <1>24, <1>25, <1>26, <1>27, <1>28, <1>29, <1>30, <1>31, <1>32, <1>33,
     <1>34, <1>35, <1>36, <1>37, <1>38, <1>39, <1>40, <1>41, <1>42, <1>43,
     <1>44, <1>45, <1>46, <1>47
     DEF Next, Users, Tasks, CheckSteps, RequestSteps

(* Every action keeps what a merge has read.                               *)
LEMMA MergeReadsStep ==
  ASSUME TypeOK, MergeReads, [Next]_vars
  PROVE  MergeReads'
<1>1. CASE PushHead
  BY <1>1 DEF PushHead, MergeReads, git, procs
<1>2. CASE PushBase
  BY <1>2, PullRequestAssumption DEF PushBase, MergeReads, TypeOK, BaseTip, git, procs, Request
<1>3. ASSUME NEW h \in HeadCommit, CreateCommitStatus(h) PROVE MergeReads'
  BY <1>3 DEF CreateCommitStatus, MergeReads, git, procs
<1>4. CASE StartPullRequestCheckOnView
  BY <1>4 DEF StartPullRequestCheckOnView, MergeReads, git, procs
<1>5. CASE CloseIssue
  BY <1>5 DEF CloseIssue, MergeReads, git, procs
<1>6. CASE NewComment
  BY <1>6 DEF NewComment, MergeReads, git, procs
<1>7. CASE RemoveScheduledAutoMerge
  BY <1>7 DEF RemoveScheduledAutoMerge, MergeReads, git, procs
<1>8. ASSUME NEW m \in Mergers, MergePullRequest(m) PROVE MergeReads'
  BY <1>8, PullRequestAssumption DEF MergePullRequest, MergeReads, TypeOK, BaseTip, git, procs, NoRequest
<1>9. ASSUME NEW k \in {"head", "base"}, List(k) PROVE MergeReads'
  BY <1>9 DEF List, MergeReads, git, procs
<1>10. ASSUME NEW k \in {"head", "base", "reopen"}, Mark(k) PROVE MergeReads'
  BY <1>10 DEF Mark, MergeReads, git, procs
<1>11. ASSUME NEW k \in {"head", "base", "reopen"}, Reread(k) PROVE MergeReads'
  BY <1>11 DEF Reread, MergeReads, git, procs
<1>12. ASSUME NEW k \in {"head", "base", "reopen", "view"}, QueueCheck(k) PROVE MergeReads'
  BY <1>12 DEF QueueCheck, MergeReads, git, procs
<1>13. CASE Postpone
  BY <1>13 DEF Postpone, MergeReads, git, procs
<1>14. CASE ViewInVain
  BY <1>14 DEF ViewInVain, MergeReads, git, procs
<1>15. CASE ReopenIssue
  BY <1>15 DEF ReopenIssue, MergeReads, git, procs
<1>16. CASE CheckPop
  BY <1>16 DEF CheckPop, MergeReads, git, procs
<1>17. CASE CheckStart
  BY <1>17 DEF CheckStart, MergeReads, git, procs
<1>18. CASE ManuallyMerged
  BY <1>18 DEF ManuallyMerged, MergeReads, git, procs
<1>19. CASE NotManuallyMerged
  BY <1>19 DEF NotManuallyMerged, MergeReads, git, procs
<1>20. CASE CheckHead
  BY <1>20 DEF CheckHead, MergeReads, git, procs
<1>21. CASE CheckBase
  BY <1>21 DEF CheckBase, MergeReads, git, procs
<1>22. CASE CheckFails
  BY <1>22 DEF CheckFails, MergeReads, git, procs
<1>23. CASE CheckQueue
  BY <1>23 DEF CheckQueue, MergeReads, git, procs
<1>24. CASE CheckStore
  BY <1>24 DEF CheckStore, MergeReads, git, procs
<1>25. CASE CheckWake
  BY <1>25 DEF CheckWake, MergeReads, git, procs
<1>26. ASSUME NEW m \in Mergers, DeleteScheduledAutoMerge(m) PROVE MergeReads'
  BY <1>26, PullRequestAssumption DEF DeleteScheduledAutoMerge, MergeReads, TypeOK, BaseTip, git, procs, To, Request
<1>27. ASSUME NEW m \in Mergers, ScheduleAutoMerge(m) PROVE MergeReads'
  <2>1. UNCHANGED base
    BY <1>27 DEF ScheduleAutoMerge, git
  <2>2. \A n \in Mergers : \/ req'[n] = req[n]
                           \/ n = m /\ req'[n].pc \in {"idle", "wake"}
    BY <1>27 DEF ScheduleAutoMerge, Leave, To, NoRequest, TypeOK, Request
  <2> QED
    BY <2>1, <2>2 DEF MergeReads
<1>28. ASSUME NEW m \in Mergers, ScheduleWake(m) PROVE MergeReads'
  BY <1>28, PullRequestAssumption DEF ScheduleWake, MergeReads, TypeOK, BaseTip, git, procs, Leave, NoRequest
<1>29. ASSUME NEW m \in Mergers, MergedManually(m) PROVE MergeReads'
  BY <1>29, PullRequestAssumption DEF MergedManually, MergeReads, TypeOK, BaseTip, git, procs, Leave, NoRequest
<1>30. ASSUME NEW m \in Mergers, AutoMergeTest(m) PROVE MergeReads'
  <2>1. UNCHANGED base
    BY <1>30 DEF AutoMergeTest, git
  <2>2. \A n \in Mergers : \/ req'[n] = req[n]
                           \/ n = m /\ req'[n].pc \in {"idle", "merge"}
    BY <1>30 DEF AutoMergeTest, Leave, NoRequest, TypeOK, Request
  <2> QED
    BY <2>1, <2>2 DEF MergeReads
<1>31. ASSUME NEW m \in Mergers, MergeLock(m) PROVE MergeReads'
  BY <1>31, PullRequestAssumption DEF MergeLock, MergeReads, TypeOK, BaseTip, git, procs, Request
<1>32. ASSUME NEW m \in Mergers, CommitMerge(m) PROVE MergeReads'
  BY <1>32, PullRequestAssumption DEF CommitMerge, MergeReads, TypeOK, BaseTip, git, procs, At, Request, Expected
<1>33. ASSUME NEW m \in Mergers, CommitFails(m) PROVE MergeReads'
  BY <1>33, PullRequestAssumption DEF CommitFails, MergeReads, TypeOK, BaseTip, git, procs, MergeEnds, Leave, NoRequest
<1>34. ASSUME NEW m \in Mergers, PushMerge(m) PROVE MergeReads'
  BY <1>34, PullRequestAssumption DEF PushMerge, MergeReads, TypeOK, BaseTip, git, procs, At, To, Request
<1>35. ASSUME NEW m \in Mergers, PushRejected(m) PROVE MergeReads'
  BY <1>35, PullRequestAssumption DEF PushRejected, MergeReads, TypeOK, BaseTip, git, procs, MergeEnds, Leave, NoRequest
<1>36. ASSUME NEW m \in Mergers, HookPostReceive(m) PROVE MergeReads'
  BY <1>36, PullRequestAssumption DEF HookPostReceive, MergeReads, TypeOK, BaseTip, git, procs, MergeEnds, Leave, NoRequest
<1>37. ASSUME NEW m \in Mergers, AutoMergePop(m) PROVE MergeReads'
  BY <1>37, PullRequestAssumption DEF AutoMergePop, MergeReads, TypeOK, BaseTip, git, procs, NoRequest
<1>38. ASSUME NEW h \in HeadCommit, StartPRCheckAndAutoMergeBySHA(h) PROVE MergeReads'
  BY <1>38 DEF StartPRCheckAndAutoMergeBySHA, MergeReads, git, procs
<1>39. CASE Crash
  BY <1>39, PullRequestAssumption DEF Crash, MergeReads, TypeOK, BaseTip, git, procs, NoRequest
<1>40. CASE UNCHANGED vars
  BY <1>40 DEF MergeReads, vars, git, procs
<1>41. ASSUME NEW h \in HeadCommit, Approve(h) PROVE MergeReads'
  BY <1>41 DEF Approve, MergeReads, git, procs
<1>42. CASE Reject
  BY <1>42 DEF Reject, MergeReads, git, procs
<1>43. CASE RestoreReview
  BY <1>43 DEF RestoreReview, MergeReads, git, procs
<1>44. ASSUME NEW m \in Mergers, DismissReview(m) PROVE MergeReads'
  BY <1>44, PullRequestAssumption DEF DismissReview, MergeReads, TypeOK, BaseTip, git, procs, NoRequest
<1>45. ASSUME NEW m \in Mergers, ReviewDismissed(m) PROVE MergeReads'
  <2>1. UNCHANGED base
    BY <1>45 DEF ReviewDismissed, git
  <2>2. \A n \in Mergers : \/ req'[n] = req[n]
                           \/ n = m /\ req'[n].pc = "wake"
    BY <1>45 DEF ReviewDismissed, To, TypeOK, Request
  <2> QED
    BY <1>45, <2>1, <2>2 DEF ReviewDismissed, At, MergeReads
<1>46. CASE LookThroughReviews
  BY <1>46 DEF LookThroughReviews, MergeReads, git, procs
<1>47. CASE UpdatePullsRefs
  BY <1>47 DEF UpdatePullsRefs, MergeReads, git, procs
<1> QED
  BY <1>1, <1>2, <1>3, <1>4, <1>5, <1>6, <1>7, <1>8, <1>9, <1>10, <1>11,
     <1>12, <1>13, <1>14, <1>15, <1>16, <1>17, <1>18, <1>19, <1>20, <1>21, <1>22,
     <1>23, <1>24, <1>25, <1>26, <1>27, <1>28, <1>29, <1>30, <1>31, <1>32, <1>33,
     <1>34, <1>35, <1>36, <1>37, <1>38, <1>39, <1>40, <1>41, <1>42, <1>43,
     <1>44, <1>45, <1>46, <1>47
     DEF Next, Users, Tasks, CheckSteps, RequestSteps

(* A merge pushes the head commit it was asked for.                        *)
LEMMA ExpectedHeadStep ==
  ASSUME TypeOK, MergeReads, ExpectedHead, [Next]_vars
  PROVE  ExpectedHead'
<1>1. CASE PushHead
  BY <1>1 DEF PushHead, ExpectedHead, git
<1>2. CASE PushBase
  BY <1>2 DEF PushBase, ExpectedHead, TypeOK
<1>3. ASSUME NEW h \in HeadCommit, CreateCommitStatus(h) PROVE ExpectedHead'
  BY <1>3 DEF CreateCommitStatus, ExpectedHead, git
<1>4. CASE StartPullRequestCheckOnView
  BY <1>4 DEF StartPullRequestCheckOnView, ExpectedHead, git
<1>5. CASE CloseIssue
  BY <1>5 DEF CloseIssue, ExpectedHead, git
<1>6. CASE NewComment
  BY <1>6 DEF NewComment, ExpectedHead, git
<1>7. CASE RemoveScheduledAutoMerge
  BY <1>7 DEF RemoveScheduledAutoMerge, ExpectedHead, git
<1>8. ASSUME NEW m \in Mergers, MergePullRequest(m) PROVE ExpectedHead'
  BY <1>8 DEF MergePullRequest, ExpectedHead, git
<1>9. ASSUME NEW k \in {"head", "base"}, List(k) PROVE ExpectedHead'
  BY <1>9 DEF List, ExpectedHead, git
<1>10. ASSUME NEW k \in {"head", "base", "reopen"}, Mark(k) PROVE ExpectedHead'
  BY <1>10 DEF Mark, ExpectedHead, git
<1>11. ASSUME NEW k \in {"head", "base", "reopen"}, Reread(k) PROVE ExpectedHead'
  BY <1>11 DEF Reread, ExpectedHead, git
<1>12. ASSUME NEW k \in {"head", "base", "reopen", "view"}, QueueCheck(k) PROVE ExpectedHead'
  BY <1>12 DEF QueueCheck, ExpectedHead, git
<1>13. CASE Postpone
  BY <1>13 DEF Postpone, ExpectedHead, git
<1>14. CASE ViewInVain
  BY <1>14 DEF ViewInVain, ExpectedHead, git
<1>15. CASE ReopenIssue
  BY <1>15 DEF ReopenIssue, ExpectedHead, git
<1>16. CASE CheckPop
  BY <1>16 DEF CheckPop, ExpectedHead, git
<1>17. CASE CheckStart
  BY <1>17 DEF CheckStart, ExpectedHead, git
<1>18. CASE ManuallyMerged
  BY <1>18 DEF ManuallyMerged, ExpectedHead, git
<1>19. CASE NotManuallyMerged
  BY <1>19 DEF NotManuallyMerged, ExpectedHead, git
<1>20. CASE CheckHead
  BY <1>20 DEF CheckHead, ExpectedHead, git
<1>21. CASE CheckBase
  BY <1>21 DEF CheckBase, ExpectedHead, git
<1>22. CASE CheckFails
  BY <1>22 DEF CheckFails, ExpectedHead, git
<1>23. CASE CheckQueue
  BY <1>23 DEF CheckQueue, ExpectedHead, git
<1>24. CASE CheckStore
  BY <1>24 DEF CheckStore, ExpectedHead, git
<1>25. CASE CheckWake
  BY <1>25 DEF CheckWake, ExpectedHead, git
<1>26. ASSUME NEW m \in Mergers, DeleteScheduledAutoMerge(m) PROVE ExpectedHead'
  BY <1>26 DEF DeleteScheduledAutoMerge, ExpectedHead, git
<1>27. ASSUME NEW m \in Mergers, ScheduleAutoMerge(m) PROVE ExpectedHead'
  BY <1>27 DEF ScheduleAutoMerge, ExpectedHead, git
<1>28. ASSUME NEW m \in Mergers, ScheduleWake(m) PROVE ExpectedHead'
  BY <1>28 DEF ScheduleWake, ExpectedHead, git
<1>29. ASSUME NEW m \in Mergers, MergedManually(m) PROVE ExpectedHead'
  BY <1>29 DEF MergedManually, ExpectedHead, git
<1>30. ASSUME NEW m \in Mergers, AutoMergeTest(m) PROVE ExpectedHead'
  BY <1>30 DEF AutoMergeTest, ExpectedHead, git
<1>31. ASSUME NEW m \in Mergers, MergeLock(m) PROVE ExpectedHead'
  BY <1>31 DEF MergeLock, ExpectedHead, git
<1>32. ASSUME NEW m \in Mergers, CommitMerge(m) PROVE ExpectedHead'
  BY <1>32 DEF CommitMerge, ExpectedHead, git
<1>33. ASSUME NEW m \in Mergers, CommitFails(m) PROVE ExpectedHead'
  BY <1>33 DEF CommitFails, ExpectedHead, git
<1>34. ASSUME NEW m \in Mergers, PushMerge(m) PROVE ExpectedHead'
  BY <1>34 DEF PushMerge, At, MergeReads, ExpectedHead, TypeOK
<1>35. ASSUME NEW m \in Mergers, PushRejected(m) PROVE ExpectedHead'
  BY <1>35 DEF PushRejected, ExpectedHead, git
<1>36. ASSUME NEW m \in Mergers, HookPostReceive(m) PROVE ExpectedHead'
  BY <1>36 DEF HookPostReceive, ExpectedHead, git
<1>37. ASSUME NEW m \in Mergers, AutoMergePop(m) PROVE ExpectedHead'
  BY <1>37 DEF AutoMergePop, ExpectedHead, git
<1>38. ASSUME NEW h \in HeadCommit, StartPRCheckAndAutoMergeBySHA(h) PROVE ExpectedHead'
  BY <1>38 DEF StartPRCheckAndAutoMergeBySHA, ExpectedHead, git
<1>39. CASE Crash
  BY <1>39 DEF Crash, ExpectedHead, git
<1>40. CASE UNCHANGED vars
  BY <1>40 DEF ExpectedHead, vars, git
<1>41. ASSUME NEW h \in HeadCommit, Approve(h) PROVE ExpectedHead'
  BY <1>41 DEF Approve, ExpectedHead, git
<1>42. CASE Reject
  BY <1>42 DEF Reject, ExpectedHead, git
<1>43. CASE RestoreReview
  BY <1>43 DEF RestoreReview, ExpectedHead, git
<1>44. ASSUME NEW m \in Mergers, DismissReview(m) PROVE ExpectedHead'
  BY <1>44 DEF DismissReview, ExpectedHead, git
<1>45. ASSUME NEW m \in Mergers, ReviewDismissed(m) PROVE ExpectedHead'
  BY <1>45 DEF ReviewDismissed, ExpectedHead, git
<1>46. CASE LookThroughReviews
  BY <1>46 DEF LookThroughReviews, ExpectedHead, git
<1>47. CASE UpdatePullsRefs
  BY <1>47 DEF UpdatePullsRefs, ExpectedHead, git
<1> QED
  BY <1>1, <1>2, <1>3, <1>4, <1>5, <1>6, <1>7, <1>8, <1>9, <1>10, <1>11,
     <1>12, <1>13, <1>14, <1>15, <1>16, <1>17, <1>18, <1>19, <1>20, <1>21, <1>22,
     <1>23, <1>24, <1>25, <1>26, <1>27, <1>28, <1>29, <1>30, <1>31, <1>32, <1>33,
     <1>34, <1>35, <1>36, <1>37, <1>38, <1>39, <1>40, <1>41, <1>42, <1>43,
     <1>44, <1>45, <1>46, <1>47
     DEF Next, Users, Tasks, CheckSteps, RequestSteps

(* The tasks on the way to the queue are at places of tasks; the others    *)
(* are not on the way.                                                     *)
LEMMA CheckPlaces ==
  /\ CheckTasks \subseteq TaskAt
  /\ <<"head", "hook">> \in CheckTasks /\ \A k \in {"head", "base"} : <<k, "list">> \in CheckTasks
  /\ \A k \in {"head", "base", "reopen"}, pc \in {"mark", "reread", "push"} : <<k, pc>> \in CheckTasks
  /\ <<"view", "push">> \in TaskAt \ CheckTasks /\ <<"reopen", "open">> \in TaskAt \ CheckTasks
  /\ <<"head", "reviews">> \in TaskAt \ CheckTasks
<1>1. CheckTasks \subseteq TaskAt
  BY DEF CheckTasks, TaskAt
<1>2. <<"head", "hook">> \in CheckTasks /\ \A k \in {"head", "base"} : <<k, "list">> \in CheckTasks
  BY DEF CheckTasks
<1>3. \A k \in {"head", "base", "reopen"}, pc \in {"mark", "reread", "push"} : <<k, pc>> \in CheckTasks
  BY DEF CheckTasks
<1>4. <<"view", "push">> \in TaskAt \ CheckTasks /\ <<"reopen", "open">> \in TaskAt \ CheckTasks
     /\ <<"head", "reviews">> \in TaskAt \ CheckTasks
  BY DEF CheckTasks, TaskAt
<1> QED
  BY <1>1, <1>2, <1>3, <1>4

(* Starting a task, ending one that is not on the way to the queue and     *)
(* moving one to a place on the way leave a task at work.                  *)
LEMMA AtWorkKept ==
  ASSUME tasks \in [TaskAt -> Nat], NEW t \in TaskAt
  PROVE  /\ Spawn(t) /\ (AtWork \/ t \in CheckTasks) => AtWork'
         /\ Ended(t) /\ t \notin CheckTasks /\ AtWork => AtWork'
<1>1. \A v \in CheckTasks : v \in TaskAt /\ tasks[v] \in Nat /\ tasks[t] \in Nat
  BY CheckPlaces
<1>2. Spawn(t) /\ AtWork => AtWork'
  BY <1>1 DEF Spawn, AtWork
<1>3. Spawn(t) /\ t \in CheckTasks => AtWork'
  <2> SUFFICES ASSUME Spawn(t), t \in CheckTasks PROVE tasks'[t] > 0
    BY DEF AtWork
  <2> QED
    BY DEF Spawn
<1>4. Ended(t) /\ t \notin CheckTasks /\ AtWork => AtWork'
  BY <1>1 DEF Ended, AtWork
<1> QED
  BY <1>2, <1>3, <1>4

(* The same for a task that goes on.                                       *)
LEMMA AtWorkMoved ==
  ASSUME tasks \in [TaskAt -> Nat], NEW t \in TaskAt, NEW u \in CheckTasks, t # u, Moved(t, u)
  PROVE  AtWork'
<1>1. u \in TaskAt
  BY CheckPlaces
<1>2. tasks'[u] = tasks[u] + 1
  BY <1>1 DEF Moved
<1>3. tasks[u] \in Nat
  BY <1>1
<1> QED
  BY <1>2, <1>3 DEF AtWork

(* Coming is Pending, or the check at work.                                *)
LEMMA ComingIs == Coming <=> Pending \/ CheckComing
<1>1. CheckTasks = {t \in TaskAt : \E k \in {"head", "base", "reopen"}, pc \in {"hook", "list", "mark", "reread", "push"} : t = <<k, pc>>}
  BY DEF CheckTasks, TaskAt
<1>2. AtWork <=> \E k \in {"head", "base", "reopen"}, pc \in {"hook", "list", "mark", "reread", "push"} :
                     <<k, pc>> \in TaskAt /\ tasks[<<k, pc>>] > 0
  BY <1>1 DEF AtWork
<1> QED
  BY <1>2 DEF Coming, Pending, AtHook, CheckComing

(* The same of the next state.                                             *)
LEMMA ComingPrimed == Coming' <=> Pending' \/ CheckComing'
BY ComingIs, PTL

(* A check that is to begin begins, unless it is given up or the pull      *)
(* request is merged.                                                      *)
LEMMA PendingStep ==
  ASSUME TypeOK, Pending, [Next]_vars
  PROVE  Pending' \/ ChecksGivenUp' # {} \/ check'.pc = "detect" \/ merged' # 0
<1>1. CASE PushHead
  <2>1. <<"head", "hook">> \in CheckTasks /\ <<"head", "hook">> \in TaskAt
    BY CheckPlaces
  <2> QED
    BY <1>1, <2>1, AtWorkKept DEF PushHead, Pending, TypeOK
<1>2. CASE PushBase
  <2>1. <<"base", "list">> \in CheckTasks /\ <<"base", "list">> \in TaskAt
    BY CheckPlaces
  <2> QED
    BY <1>2, <2>1, AtWorkKept DEF PushBase, Pending, TypeOK
<1>3. ASSUME NEW h \in HeadCommit, CreateCommitStatus(h) PROVE Pending' \/ ChecksGivenUp' # {} \/ check'.pc = "detect" \/ merged' # 0
  BY <1>3 DEF CreateCommitStatus, Pending, AtWork, AtHook, procs, queues
<1>4. CASE StartPullRequestCheckOnView
  <2>1. AtWork => AtWork'
    BY <1>4, CheckPlaces, AtWorkKept DEF StartPullRequestCheckOnView, TypeOK
  <2> QED
    BY <1>4, <2>1 DEF StartPullRequestCheckOnView, Pending, AtHook, procs, queues
<1>5. CASE CloseIssue
  BY <1>5 DEF CloseIssue, Pending, AtWork, AtHook, procs, queues
<1>6. CASE NewComment
  <2>1. <<"reopen", "mark">> \in CheckTasks /\ <<"reopen", "mark">> \in TaskAt
    BY CheckPlaces
  <2> QED
    BY <1>6, <2>1, AtWorkKept DEF NewComment, Pending, TypeOK
<1>7. CASE RemoveScheduledAutoMerge
  BY <1>7 DEF RemoveScheduledAutoMerge, Pending, AtWork, AtHook, procs, queues
<1>8. ASSUME NEW m \in Mergers, MergePullRequest(m) PROVE Pending' \/ ChecksGivenUp' # {} \/ check'.pc = "detect" \/ merged' # 0
  <2>1. UNCHANGED <<queued, popped, tasks>>
    BY <1>8 DEF MergePullRequest, queues
  <2>2. AtHook => AtHook'
    BY <1>8 DEF MergePullRequest, AtHook, At, To, Leave, TypeOK
  <2> QED
    BY <2>1, <2>2 DEF Pending, AtWork
<1>9. ASSUME NEW k \in {"head", "base"}, List(k) PROVE Pending' \/ ChecksGivenUp' # {} \/ check'.pc = "detect" \/ merged' # 0
  <2>1. CASE merged = 0 /\ ~closed
    <3>1. <<k, "list">> \in TaskAt /\ <<k, "mark">> \in CheckTasks
      BY CheckPlaces
    <3>2. Moved(<<k, "list">>, <<k, "mark">>)
      BY <1>9, <2>1 DEF List
    <3> QED
      BY <3>1, <3>2, AtWorkMoved DEF TypeOK, Pending
  <2>2. CASE ~(merged = 0 /\ ~closed)
    BY <1>9, <2>2 DEF List, ChecksGivenUp
  <2> QED
    BY <2>1, <2>2
<1>10. ASSUME NEW k \in {"head", "base", "reopen"}, Mark(k) PROVE Pending' \/ ChecksGivenUp' # {} \/ check'.pc = "detect" \/ merged' # 0
  <2>1. <<k, "mark">> \in TaskAt /\ <<k, "reread">> \in CheckTasks
    BY CheckPlaces
  <2>2. Moved(<<k, "mark">>, <<k, "reread">>)
    BY <1>10 DEF Mark
  <2> QED
    BY <2>1, <2>2, AtWorkMoved DEF TypeOK, Pending
<1>11. ASSUME NEW k \in {"head", "base", "reopen"}, Reread(k) PROVE Pending' \/ ChecksGivenUp' # {} \/ check'.pc = "detect" \/ merged' # 0
  <2>1. CASE status = "checking"
    <3>1. <<k, "reread">> \in TaskAt /\ <<k, "push">> \in CheckTasks
      BY CheckPlaces
    <3>2. Moved(<<k, "reread">>, <<k, "push">>)
      BY <1>11, <2>1 DEF Reread
    <3> QED
      BY <3>1, <3>2, AtWorkMoved DEF TypeOK, Pending
  <2>2. CASE status # "checking"
    BY <1>11, <2>2 DEF Reread, ChecksGivenUp
  <2> QED
    BY <2>1, <2>2
<1>12. ASSUME NEW k \in {"head", "base", "reopen", "view"}, QueueCheck(k) PROVE Pending' \/ ChecksGivenUp' # {} \/ check'.pc = "detect" \/ merged' # 0
  BY <1>12 DEF QueueCheck, AddPullRequestToCheckQueue, AlreadyQueued, Pending
<1>13. CASE Postpone
  BY <1>13 DEF Postpone, ChecksGivenUp
<1>14. CASE ViewInVain
  <2>1. AtWork => AtWork'
    BY <1>14, CheckPlaces, AtWorkKept DEF ViewInVain, TypeOK
  <2> QED
    BY <1>14, <2>1 DEF ViewInVain, Pending, AtHook, procs, queues
<1>15. CASE ReopenIssue
  <2>1. AtWork => AtWork'
    BY <1>15, CheckPlaces, AtWorkKept DEF ReopenIssue, TypeOK
  <2> QED
    BY <1>15, <2>1 DEF ReopenIssue, Pending, AtHook, procs, queues
<1>16. CASE CheckPop
  BY <1>16 DEF CheckPop, Pending, TypeOK
<1>17. CASE CheckStart
  BY <1>17 DEF CheckStart, TypeOK, Check, row
<1>18. CASE ManuallyMerged
  BY <1>18 DEF ManuallyMerged, Pending, AtWork, AtHook, queues
<1>19. CASE NotManuallyMerged
  BY <1>19 DEF NotManuallyMerged, Pending, AtWork, AtHook, queues
<1>20. CASE CheckHead
  BY <1>20 DEF CheckHead, Pending, AtWork, AtHook, queues
<1>21. CASE CheckBase
  BY <1>21 DEF CheckBase, Pending, AtWork, AtHook, queues
<1>22. CASE CheckFails
  BY <1>22 DEF CheckFails, Pending, AtWork, AtHook, queues
<1>23. CASE CheckQueue
  BY <1>23 DEF CheckQueue, Pending, AtWork, AtHook, queues
<1>24. CASE CheckStore
  BY <1>24 DEF CheckStore, Pending, AtWork, AtHook, queues
<1>25. CASE CheckWake
  BY <1>25 DEF CheckWake, Pending, AtWork, AtHook, queues
<1>26. ASSUME NEW m \in Mergers, DeleteScheduledAutoMerge(m) PROVE Pending' \/ ChecksGivenUp' # {} \/ check'.pc = "detect" \/ merged' # 0
  <2>1. UNCHANGED <<queued, popped, tasks>>
    BY <1>26 DEF DeleteScheduledAutoMerge, queues
  <2>2. AtHook => AtHook'
    BY <1>26 DEF DeleteScheduledAutoMerge, AtHook, At, To, Leave, TypeOK
  <2> QED
    BY <2>1, <2>2 DEF Pending, AtWork
<1>27. ASSUME NEW m \in Mergers, ScheduleAutoMerge(m) PROVE Pending' \/ ChecksGivenUp' # {} \/ check'.pc = "detect" \/ merged' # 0
  <2>1. UNCHANGED <<queued, popped, tasks>>
    BY <1>27 DEF ScheduleAutoMerge, queues
  <2>2. AtHook => AtHook'
    BY <1>27 DEF ScheduleAutoMerge, AtHook, At, To, Leave, TypeOK
  <2> QED
    BY <2>1, <2>2 DEF Pending, AtWork
<1>28. ASSUME NEW m \in Mergers, ScheduleWake(m) PROVE Pending' \/ ChecksGivenUp' # {} \/ check'.pc = "detect" \/ merged' # 0
  <2>1. UNCHANGED <<queued, popped, tasks>>
    BY <1>28 DEF ScheduleWake, queues
  <2>2. AtHook => AtHook'
    BY <1>28 DEF ScheduleWake, AtHook, At, To, Leave, TypeOK
  <2> QED
    BY <2>1, <2>2 DEF Pending, AtWork
<1>29. ASSUME NEW m \in Mergers, MergedManually(m) PROVE Pending' \/ ChecksGivenUp' # {} \/ check'.pc = "detect" \/ merged' # 0
  <2>1. UNCHANGED <<queued, popped, tasks>>
    BY <1>29 DEF MergedManually, queues
  <2>2. AtHook => AtHook'
    BY <1>29 DEF MergedManually, AtHook, At, To, Leave, TypeOK
  <2> QED
    BY <2>1, <2>2 DEF Pending, AtWork
<1>30. ASSUME NEW m \in Mergers, AutoMergeTest(m) PROVE Pending' \/ ChecksGivenUp' # {} \/ check'.pc = "detect" \/ merged' # 0
  <2>1. UNCHANGED <<queued, popped, tasks>>
    BY <1>30 DEF AutoMergeTest, queues
  <2>2. AtHook => AtHook'
    BY <1>30 DEF AutoMergeTest, AtHook, At, To, Leave, TypeOK
  <2> QED
    BY <2>1, <2>2 DEF Pending, AtWork
<1>31. ASSUME NEW m \in Mergers, MergeLock(m) PROVE Pending' \/ ChecksGivenUp' # {} \/ check'.pc = "detect" \/ merged' # 0
  <2>1. UNCHANGED <<queued, popped, tasks>>
    BY <1>31 DEF MergeLock, queues
  <2>2. AtHook => AtHook'
    BY <1>31 DEF MergeLock, AtHook, At, To, Leave, TypeOK
  <2> QED
    BY <2>1, <2>2 DEF Pending, AtWork
<1>32. ASSUME NEW m \in Mergers, CommitMerge(m) PROVE Pending' \/ ChecksGivenUp' # {} \/ check'.pc = "detect" \/ merged' # 0
  <2>1. UNCHANGED <<queued, popped, tasks>>
    BY <1>32 DEF CommitMerge, queues
  <2>2. AtHook => AtHook'
    BY <1>32 DEF CommitMerge, AtHook, At, To, Leave, TypeOK
  <2> QED
    BY <2>1, <2>2 DEF Pending, AtWork
<1>33. ASSUME NEW m \in Mergers, CommitFails(m) PROVE Pending' \/ ChecksGivenUp' # {} \/ check'.pc = "detect" \/ merged' # 0
  <2>1. <<"base", "list">> \in CheckTasks /\ <<"base", "list">> \in TaskAt
    BY CheckPlaces
  <2> QED
    BY <1>33, <2>1, AtWorkKept DEF CommitFails, Pending, TypeOK, MergeEnds
<1>34. ASSUME NEW m \in Mergers, PushMerge(m) PROVE Pending' \/ ChecksGivenUp' # {} \/ check'.pc = "detect" \/ merged' # 0
  <2>1. UNCHANGED <<queued, popped, tasks>>
    BY <1>34 DEF PushMerge, queues
  <2>2. AtHook => AtHook'
    BY <1>34 DEF PushMerge, AtHook, At, To, Leave, TypeOK
  <2> QED
    BY <2>1, <2>2 DEF Pending, AtWork
<1>35. ASSUME NEW m \in Mergers, PushRejected(m) PROVE Pending' \/ ChecksGivenUp' # {} \/ check'.pc = "detect" \/ merged' # 0
  <2>1. <<"base", "list">> \in CheckTasks /\ <<"base", "list">> \in TaskAt
    BY CheckPlaces
  <2> QED
    BY <1>35, <2>1, AtWorkKept DEF PushRejected, Pending, TypeOK, MergeEnds
<1>36. ASSUME NEW m \in Mergers, HookPostReceive(m) PROVE Pending' \/ ChecksGivenUp' # {} \/ check'.pc = "detect" \/ merged' # 0
  <2>1. <<"base", "list">> \in CheckTasks /\ <<"base", "list">> \in TaskAt
    BY CheckPlaces
  <2> QED
    BY <1>36, <2>1, AtWorkKept DEF HookPostReceive, Pending, TypeOK, MergeEnds
<1>37. ASSUME NEW m \in Mergers, AutoMergePop(m) PROVE Pending' \/ ChecksGivenUp' # {} \/ check'.pc = "detect" \/ merged' # 0
  <2>1. UNCHANGED <<queued, popped, tasks>>
    BY <1>37 DEF AutoMergePop, queues
  <2>2. AtHook => AtHook'
    BY <1>37 DEF AutoMergePop, AtHook, At, To, Leave, TypeOK
  <2> QED
    BY <2>1, <2>2 DEF Pending, AtWork
<1>38. ASSUME NEW h \in HeadCommit, StartPRCheckAndAutoMergeBySHA(h) PROVE Pending' \/ ChecksGivenUp' # {} \/ check'.pc = "detect" \/ merged' # 0
  BY <1>38 DEF StartPRCheckAndAutoMergeBySHA, Pending, AtWork, AtHook, procs
<1>39. CASE Crash
  BY <1>39 DEF Crash, ChecksGivenUp
<1>40. CASE UNCHANGED vars
  BY <1>40 DEF Pending, AtWork, AtHook, vars, queues, procs
<1>41. ASSUME NEW h \in HeadCommit, Approve(h) PROVE Pending' \/ ChecksGivenUp' # {} \/ check'.pc = "detect" \/ merged' # 0
  BY <1>41 DEF Approve, Pending, AtWork, AtHook, procs, queues
<1>42. CASE Reject
  BY <1>42 DEF Reject, Pending, AtWork, AtHook, procs, queues
<1>43. CASE RestoreReview
  BY <1>43 DEF RestoreReview, Pending, AtWork, AtHook, procs, queues
<1>44. ASSUME NEW m \in Mergers, DismissReview(m) PROVE Pending' \/ ChecksGivenUp' # {} \/ check'.pc = "detect" \/ merged' # 0
  <2>1. UNCHANGED <<queued, popped, tasks>>
    BY <1>44 DEF DismissReview, queues
  <2>2. AtHook => AtHook'
    BY <1>44 DEF DismissReview, AtHook, At, To, TypeOK
  <2> QED
    BY <2>1, <2>2 DEF Pending, AtWork
<1>45. ASSUME NEW m \in Mergers, ReviewDismissed(m) PROVE Pending' \/ ChecksGivenUp' # {} \/ check'.pc = "detect" \/ merged' # 0
  <2>1. UNCHANGED <<queued, popped, tasks>>
    BY <1>45 DEF ReviewDismissed, queues
  <2>2. AtHook => AtHook'
    BY <1>45 DEF ReviewDismissed, AtHook, At, To, TypeOK
  <2> QED
    BY <2>1, <2>2 DEF Pending, AtWork
<1>46. CASE LookThroughReviews
  <2>1. AtWork => AtWork'
    BY <1>46, CheckPlaces, AtWorkKept DEF LookThroughReviews, TypeOK
  <2> QED
    BY <1>46, <2>1 DEF LookThroughReviews, Pending, AtHook, procs
<1>47. CASE UpdatePullsRefs
  <2>1. <<"head", "hook">> \in TaskAt /\ <<"head", "list">> \in CheckTasks
    BY CheckPlaces
  <2>2. Moved(<<"head", "hook">>, <<"head", "list">>)
    BY <1>47 DEF UpdatePullsRefs
  <2> QED
    BY <2>1, <2>2, AtWorkMoved DEF TypeOK, Pending
<1> QED
  BY <1>1, <1>2, <1>3, <1>4, <1>5, <1>6, <1>7, <1>8, <1>9, <1>10, <1>11,
     <1>12, <1>13, <1>14, <1>15, <1>16, <1>17, <1>18, <1>19, <1>20, <1>21, <1>22,
     <1>23, <1>24, <1>25, <1>26, <1>27, <1>28, <1>29, <1>30, <1>31, <1>32, <1>33,
     <1>34, <1>35, <1>36, <1>37, <1>38, <1>39, <1>40, <1>41, <1>42, <1>43,
     <1>44, <1>45, <1>46, <1>47
     DEF Next, Users, Tasks, CheckSteps, RequestSteps

(* Nothing overwrites the row of a merged pull request: the writes are      *)
(* conditional, and the check that fails writes under the lock it has got  *)
(* for a pull request that is not merged.                                  *)
LEMMA MergedStep ==
  ASSUME Locked, merged # 0, [Next]_vars
  PROVE  UNCHANGED <<merged, status>>
<1>1. CASE PushHead
  BY <1>1 DEF PushHead, row
<1>2. CASE PushBase
  BY <1>2 DEF PushBase, row
<1>3. ASSUME NEW h \in HeadCommit, CreateCommitStatus(h) PROVE UNCHANGED <<merged, status>>
  BY <1>3 DEF CreateCommitStatus, row
<1>4. CASE StartPullRequestCheckOnView
  BY <1>4 DEF StartPullRequestCheckOnView, row
<1>5. CASE CloseIssue
  BY <1>5 DEF CloseIssue, row
<1>6. CASE NewComment
  BY <1>6 DEF NewComment, row
<1>7. CASE RemoveScheduledAutoMerge
  BY <1>7 DEF RemoveScheduledAutoMerge, row
<1>8. ASSUME NEW m \in Mergers, MergePullRequest(m) PROVE UNCHANGED <<merged, status>>
  BY <1>8 DEF MergePullRequest, row
<1>9. ASSUME NEW k \in {"head", "base"}, List(k) PROVE UNCHANGED <<merged, status>>
  BY <1>9 DEF List, row
<1>10. ASSUME NEW k \in {"head", "base", "reopen"}, Mark(k) PROVE UNCHANGED <<merged, status>>
  BY <1>10 DEF Mark, SetStatusIfNotMerged
<1>11. ASSUME NEW k \in {"head", "base", "reopen"}, Reread(k) PROVE UNCHANGED <<merged, status>>
  BY <1>11 DEF Reread, row
<1>12. ASSUME NEW k \in {"head", "base", "reopen", "view"}, QueueCheck(k) PROVE UNCHANGED <<merged, status>>
  BY <1>12 DEF QueueCheck, row
<1>13. CASE Postpone
  BY <1>13 DEF Postpone, row
<1>14. CASE ViewInVain
  BY <1>14 DEF ViewInVain, row
<1>15. CASE ReopenIssue
  BY <1>15 DEF ReopenIssue, row
<1>16. CASE CheckPop
  BY <1>16 DEF CheckPop, row
<1>17. CASE CheckStart
  BY <1>17 DEF CheckStart, row
<1>18. CASE ManuallyMerged
  BY <1>18 DEF ManuallyMerged, Locked, CheckAt
<1>19. CASE NotManuallyMerged
  BY <1>19 DEF NotManuallyMerged, Locked, CheckAt
<1>20. CASE CheckHead
  BY <1>20 DEF CheckHead, Locked, CheckAt
<1>21. CASE CheckBase
  BY <1>21 DEF CheckBase, Locked, CheckAt
<1>22. CASE CheckFails
  BY <1>22 DEF CheckFails, Locked, CheckAt
<1>23. CASE CheckQueue
  BY <1>23 DEF CheckQueue, Locked, CheckAt
<1>24. CASE CheckStore
  BY <1>24 DEF CheckStore, Locked, CheckAt
<1>25. CASE CheckWake
  BY <1>25 DEF CheckWake, Locked, CheckAt
<1>26. ASSUME NEW m \in Mergers, DeleteScheduledAutoMerge(m) PROVE UNCHANGED <<merged, status>>
  BY <1>26 DEF DeleteScheduledAutoMerge, row
<1>27. ASSUME NEW m \in Mergers, ScheduleAutoMerge(m) PROVE UNCHANGED <<merged, status>>
  BY <1>27 DEF ScheduleAutoMerge, row
<1>28. ASSUME NEW m \in Mergers, ScheduleWake(m) PROVE UNCHANGED <<merged, status>>
  BY <1>28 DEF ScheduleWake, row
<1>29. ASSUME NEW m \in Mergers, MergedManually(m) PROVE UNCHANGED <<merged, status>>
  BY <1>29 DEF MergedManually, SetMerged, CanSetMerged
<1>30. ASSUME NEW m \in Mergers, AutoMergeTest(m) PROVE UNCHANGED <<merged, status>>
  BY <1>30 DEF AutoMergeTest, row
<1>31. ASSUME NEW m \in Mergers, MergeLock(m) PROVE UNCHANGED <<merged, status>>
  BY <1>31 DEF MergeLock, row
<1>32. ASSUME NEW m \in Mergers, CommitMerge(m) PROVE UNCHANGED <<merged, status>>
  BY <1>32 DEF CommitMerge, row
<1>33. ASSUME NEW m \in Mergers, CommitFails(m) PROVE UNCHANGED <<merged, status>>
  BY <1>33 DEF CommitFails, row
<1>34. ASSUME NEW m \in Mergers, PushMerge(m) PROVE UNCHANGED <<merged, status>>
  BY <1>34 DEF PushMerge, row
<1>35. ASSUME NEW m \in Mergers, PushRejected(m) PROVE UNCHANGED <<merged, status>>
  BY <1>35 DEF PushRejected, row
<1>36. ASSUME NEW m \in Mergers, HookPostReceive(m) PROVE UNCHANGED <<merged, status>>
  BY <1>36 DEF HookPostReceive, SetMerged, CanSetMerged
<1>37. ASSUME NEW m \in Mergers, AutoMergePop(m) PROVE UNCHANGED <<merged, status>>
  BY <1>37 DEF AutoMergePop, row
<1>38. ASSUME NEW h \in HeadCommit, StartPRCheckAndAutoMergeBySHA(h) PROVE UNCHANGED <<merged, status>>
  BY <1>38 DEF StartPRCheckAndAutoMergeBySHA, row
<1>39. CASE Crash
  BY <1>39 DEF Crash, row
<1>40. CASE UNCHANGED vars
  BY <1>40 DEF vars, row
<1>41. ASSUME NEW h \in HeadCommit, Approve(h) PROVE UNCHANGED <<merged, status>>
  BY <1>41 DEF Approve, row
<1>42. CASE Reject
  BY <1>42 DEF Reject, row
<1>43. CASE RestoreReview
  BY <1>43 DEF RestoreReview, row
<1>44. ASSUME NEW m \in Mergers, DismissReview(m) PROVE UNCHANGED <<merged, status>>
  BY <1>44 DEF DismissReview, row
<1>45. ASSUME NEW m \in Mergers, ReviewDismissed(m) PROVE UNCHANGED <<merged, status>>
  BY <1>45 DEF ReviewDismissed, row
<1>46. CASE LookThroughReviews
  BY <1>46 DEF LookThroughReviews, row
<1>47. CASE UpdatePullsRefs
  BY <1>47 DEF UpdatePullsRefs, row
<1> QED
  BY <1>1, <1>2, <1>3, <1>4, <1>5, <1>6, <1>7, <1>8, <1>9, <1>10, <1>11,
     <1>12, <1>13, <1>14, <1>15, <1>16, <1>17, <1>18, <1>19, <1>20, <1>21, <1>22,
     <1>23, <1>24, <1>25, <1>26, <1>27, <1>28, <1>29, <1>30, <1>31, <1>32, <1>33,
     <1>34, <1>35, <1>36, <1>37, <1>38, <1>39, <1>40, <1>41, <1>42, <1>43,
     <1>44, <1>45, <1>46, <1>47
     DEF Next, Users, Tasks, CheckSteps, RequestSteps

(* What was given up is made good only when a check is queued.              *)
LEMMA GivenUpStep ==
  ASSUME ChecksGivenUp # {}, [Next]_vars
  PROVE  ChecksGivenUp' # {} \/ Pending'
<1>1. CASE PushHead
  BY <1>1 DEF PushHead, ChecksGivenUp
<1>2. CASE PushBase
  BY <1>2 DEF PushBase, ChecksGivenUp
<1>3. ASSUME NEW h \in HeadCommit, CreateCommitStatus(h) PROVE ChecksGivenUp' # {} \/ Pending'
  BY <1>3 DEF CreateCommitStatus, Succeeds, IsSkipped, FailsAgain, ChecksGivenUp
<1>4. CASE StartPullRequestCheckOnView
  BY <1>4 DEF StartPullRequestCheckOnView, ChecksGivenUp
<1>5. CASE CloseIssue
  BY <1>5 DEF CloseIssue, ChecksGivenUp
<1>6. CASE NewComment
  BY <1>6 DEF NewComment, ChecksGivenUp
<1>7. CASE RemoveScheduledAutoMerge
  BY <1>7 DEF RemoveScheduledAutoMerge, ChecksGivenUp
<1>8. ASSUME NEW m \in Mergers, MergePullRequest(m) PROVE ChecksGivenUp' # {} \/ Pending'
  BY <1>8 DEF MergePullRequest, ChecksGivenUp
<1>9. ASSUME NEW k \in {"head", "base"}, List(k) PROVE ChecksGivenUp' # {} \/ Pending'
  BY <1>9 DEF List, ChecksGivenUp
<1>10. ASSUME NEW k \in {"head", "base", "reopen"}, Mark(k) PROVE ChecksGivenUp' # {} \/ Pending'
  BY <1>10 DEF Mark, ChecksGivenUp
<1>11. ASSUME NEW k \in {"head", "base", "reopen"}, Reread(k) PROVE ChecksGivenUp' # {} \/ Pending'
  BY <1>11 DEF Reread, ChecksGivenUp
<1>12. ASSUME NEW k \in {"head", "base", "reopen", "view"}, QueueCheck(k) PROVE ChecksGivenUp' # {} \/ Pending'
  BY <1>12 DEF QueueCheck, AddPullRequestToCheckQueue, AlreadyQueued, Pending
<1>13. CASE Postpone
  BY <1>13 DEF Postpone, ChecksGivenUp
<1>14. CASE ViewInVain
  BY <1>14 DEF ViewInVain, ChecksGivenUp
<1>15. CASE ReopenIssue
  BY <1>15 DEF ReopenIssue, ChecksGivenUp
<1>16. CASE CheckPop
  BY <1>16 DEF CheckPop, ChecksGivenUp
<1>17. CASE CheckStart
  BY <1>17 DEF CheckStart, ChecksGivenUp
<1>18. CASE ManuallyMerged
  BY <1>18 DEF ManuallyMerged, ChecksGivenUp
<1>19. CASE NotManuallyMerged
  BY <1>19 DEF NotManuallyMerged, ChecksGivenUp
<1>20. CASE CheckHead
  BY <1>20 DEF CheckHead, ChecksGivenUp
<1>21. CASE CheckBase
  BY <1>21 DEF CheckBase, ChecksGivenUp
<1>22. CASE CheckFails
  BY <1>22 DEF CheckFails, ChecksGivenUp
<1>23. CASE CheckQueue
  BY <1>23 DEF CheckQueue, ChecksGivenUp
<1>24. CASE CheckStore
  BY <1>24 DEF CheckStore, ChecksGivenUp
<1>25. CASE CheckWake
  BY <1>25 DEF CheckWake, ChecksGivenUp
<1>26. ASSUME NEW m \in Mergers, DeleteScheduledAutoMerge(m) PROVE ChecksGivenUp' # {} \/ Pending'
  BY <1>26 DEF DeleteScheduledAutoMerge, ChecksGivenUp
<1>27. ASSUME NEW m \in Mergers, ScheduleAutoMerge(m) PROVE ChecksGivenUp' # {} \/ Pending'
  BY <1>27 DEF ScheduleAutoMerge, ChecksGivenUp
<1>28. ASSUME NEW m \in Mergers, ScheduleWake(m) PROVE ChecksGivenUp' # {} \/ Pending'
  BY <1>28 DEF ScheduleWake, ChecksGivenUp
<1>29. ASSUME NEW m \in Mergers, MergedManually(m) PROVE ChecksGivenUp' # {} \/ Pending'
  BY <1>29 DEF MergedManually, ChecksGivenUp
<1>30. ASSUME NEW m \in Mergers, AutoMergeTest(m) PROVE ChecksGivenUp' # {} \/ Pending'
  BY <1>30 DEF AutoMergeTest, ChecksGivenUp
<1>31. ASSUME NEW m \in Mergers, MergeLock(m) PROVE ChecksGivenUp' # {} \/ Pending'
  BY <1>31 DEF MergeLock, ChecksGivenUp
<1>32. ASSUME NEW m \in Mergers, CommitMerge(m) PROVE ChecksGivenUp' # {} \/ Pending'
  BY <1>32 DEF CommitMerge, ChecksGivenUp
<1>33. ASSUME NEW m \in Mergers, CommitFails(m) PROVE ChecksGivenUp' # {} \/ Pending'
  BY <1>33 DEF CommitFails, ChecksGivenUp
<1>34. ASSUME NEW m \in Mergers, PushMerge(m) PROVE ChecksGivenUp' # {} \/ Pending'
  BY <1>34 DEF PushMerge, ChecksGivenUp
<1>35. ASSUME NEW m \in Mergers, PushRejected(m) PROVE ChecksGivenUp' # {} \/ Pending'
  BY <1>35 DEF PushRejected, ChecksGivenUp
<1>36. ASSUME NEW m \in Mergers, HookPostReceive(m) PROVE ChecksGivenUp' # {} \/ Pending'
  BY <1>36 DEF HookPostReceive, ChecksGivenUp
<1>37. ASSUME NEW m \in Mergers, AutoMergePop(m) PROVE ChecksGivenUp' # {} \/ Pending'
  BY <1>37 DEF AutoMergePop, ChecksGivenUp
<1>38. ASSUME NEW h \in HeadCommit, StartPRCheckAndAutoMergeBySHA(h) PROVE ChecksGivenUp' # {} \/ Pending'
  BY <1>38 DEF StartPRCheckAndAutoMergeBySHA, ChecksGivenUp
<1>39. CASE Crash
  BY <1>39 DEF Crash, ChecksGivenUp
<1>40. CASE UNCHANGED vars
  BY <1>40 DEF vars, ChecksGivenUp
<1>41. ASSUME NEW h \in HeadCommit, Approve(h) PROVE ChecksGivenUp' # {} \/ Pending'
  BY <1>41 DEF Approve, ChecksGivenUp
<1>42. CASE Reject
  BY <1>42 DEF Reject, ChecksGivenUp
<1>43. CASE RestoreReview
  BY <1>43 DEF RestoreReview, ChecksGivenUp
<1>44. ASSUME NEW m \in Mergers, DismissReview(m) PROVE ChecksGivenUp' # {} \/ Pending'
  BY <1>44 DEF DismissReview, ChecksGivenUp
<1>45. ASSUME NEW m \in Mergers, ReviewDismissed(m) PROVE ChecksGivenUp' # {} \/ Pending'
  BY <1>45 DEF ReviewDismissed, ChecksGivenUp
<1>46. CASE LookThroughReviews
  BY <1>46 DEF LookThroughReviews, ChecksGivenUp
<1>47. CASE UpdatePullsRefs
  BY <1>47 DEF UpdatePullsRefs, ChecksGivenUp
<1> QED
  BY <1>1, <1>2, <1>3, <1>4, <1>5, <1>6, <1>7, <1>8, <1>9, <1>10, <1>11,
     <1>12, <1>13, <1>14, <1>15, <1>16, <1>17, <1>18, <1>19, <1>20, <1>21, <1>22,
     <1>23, <1>24, <1>25, <1>26, <1>27, <1>28, <1>29, <1>30, <1>31, <1>32, <1>33,
     <1>34, <1>35, <1>36, <1>37, <1>38, <1>39, <1>40, <1>41, <1>42, <1>43,
     <1>44, <1>45, <1>46, <1>47
     DEF Next, Users, Tasks, CheckSteps, RequestSteps

(* Where nothing is pending before and after, a step keeps what it says    *)
(* about the check at work and the stored result.                          *)
LEMMA FreshStep ==
  ASSUME TypeOK, Fresh, merged = 0, ~Pending,
         ~Pending', merged' = 0, ChecksGivenUp' = {}, [Next]_vars
  PROVE  Fresh'
<1>1. CASE PushHead
  <2>1. <<"head", "hook">> \in CheckTasks /\ <<"head", "hook">> \in TaskAt
    BY CheckPlaces
  <2> QED
    BY <1>1, <2>1, AtWorkKept DEF PushHead, Pending, TypeOK
<1>2. CASE PushBase
  <2>1. <<"base", "list">> \in CheckTasks /\ <<"base", "list">> \in TaskAt
    BY CheckPlaces
  <2> QED
    BY <1>2, <2>1, AtWorkKept DEF PushBase, Pending, TypeOK
<1>3. ASSUME NEW h \in HeadCommit, CreateCommitStatus(h) PROVE Fresh'
  BY <1>3 DEF CreateCommitStatus, Fresh, Stale, CheckComing, Now, git, row, procs
<1>4. CASE StartPullRequestCheckOnView
  BY <1>4 DEF StartPullRequestCheckOnView, Fresh, Stale, CheckComing, Now, git, row, procs
<1>5. CASE CloseIssue
  BY <1>5 DEF CloseIssue, Fresh, Stale, CheckComing, Now, git, row, procs
<1>6. CASE NewComment
  <2>1. <<"reopen", "mark">> \in CheckTasks /\ <<"reopen", "mark">> \in TaskAt
    BY CheckPlaces
  <2> QED
    BY <1>6, <2>1, AtWorkKept DEF NewComment, Pending, TypeOK
<1>7. CASE RemoveScheduledAutoMerge
  BY <1>7 DEF RemoveScheduledAutoMerge, Fresh, Stale, CheckComing, Now, git, row, procs
<1>8. ASSUME NEW m \in Mergers, MergePullRequest(m) PROVE Fresh'
  BY <1>8 DEF MergePullRequest, Fresh, Stale, CheckComing, Now, git, row, procs
<1>9. ASSUME NEW k \in {"head", "base"}, List(k) PROVE Fresh'
  <2>1. <<k, "list">> \in CheckTasks
    BY CheckPlaces
  <2> QED
    BY <1>9, <2>1 DEF List, Pending, AtWork
<1>10. ASSUME NEW k \in {"head", "base", "reopen"}, Mark(k) PROVE Fresh'
  <2>1. <<k, "mark">> \in CheckTasks
    BY CheckPlaces
  <2> QED
    BY <1>10, <2>1 DEF Mark, Pending, AtWork
<1>11. ASSUME NEW k \in {"head", "base", "reopen"}, Reread(k) PROVE Fresh'
  <2>1. <<k, "reread">> \in CheckTasks
    BY CheckPlaces
  <2> QED
    BY <1>11, <2>1 DEF Reread, Pending, AtWork
<1>12. ASSUME NEW k \in {"head", "base", "reopen", "view"}, QueueCheck(k) PROVE Fresh'
  BY <1>12 DEF QueueCheck, AddPullRequestToCheckQueue, AlreadyQueued, Pending
<1>13. CASE Postpone
  <2>1. <<"base", "push">> \in CheckTasks
    BY CheckPlaces
  <2> QED
    BY <1>13, <2>1 DEF Postpone, Pending, AtWork
<1>14. CASE ViewInVain
  BY <1>14 DEF ViewInVain, Fresh, Stale, CheckComing, Now, git, row, procs
<1>15. CASE ReopenIssue
  BY <1>15 DEF ReopenIssue, Fresh, Stale, CheckComing, Now, git, row, procs
<1>16. CASE CheckPop
  BY <1>16 DEF CheckPop, Pending
<1>17. CASE CheckStart
  BY <1>17 DEF CheckStart, Pending
<1>18. CASE ManuallyMerged
  <2>1. PICK c \in DOMAIN base : SetMerged(c, "manual")
    BY <1>18 DEF ManuallyMerged
  <2>2. c # 0
    BY BaseDomain
  <2> QED
    BY <1>18, <2>1, <2>2 DEF ManuallyMerged, SetMerged
<1>19. CASE NotManuallyMerged
  BY <1>19 DEF NotManuallyMerged, CheckAt, CheckTo, TypeOK, Check, Fresh, Stale, CheckComing, Now, git, row
<1>20. CASE CheckHead
  BY <1>20 DEF CheckHead, CheckAt, TypeOK, Check, Fresh, Stale, CheckComing, Now, git, row
<1>21. CASE CheckBase
  <2>1. check.head = head /\ check'.head = check.head /\ check'.base = Len(base) /\ check'.pc = "queue"
    BY <1>21 DEF CheckBase, CheckAt, TypeOK, Check, Fresh, Stale
  <2> QED
    BY <1>21, <2>1 DEF CheckBase, Fresh, Stale, CheckComing, Now, git
<1>22. CASE CheckFails
  BY <1>22 DEF CheckFails, CheckDone, NoCheck, Fresh, Stale
<1>23. CASE CheckQueue
  <2>1. ~queued
    BY DEF Pending
  <2>2. check' = [check EXCEPT !.pc = "store"]
    BY <1>23, <2>1 DEF CheckQueue, CheckTo
  <2> QED
    BY <1>23, <2>2 DEF CheckQueue, CheckAt, TypeOK, Check, Fresh, Stale, CheckComing, Now, git, row
<1>24. CASE CheckStore
  <2>1. check.pc = "store" /\ <<check.head, check.base>> = Now
    BY <1>24 DEF CheckStore, CheckAt, Fresh, Stale
  <2>2. tested' = Now /\ Now' = Now
    BY <1>24, <2>1 DEF CheckStore, Now, git
  <2>3. status' # "checking"
    BY <1>24 DEF CheckStore, SetStatusIfNotMerged, TypeOK, Check, Outcome
  <2>4. check'.pc = "wake"
    BY <1>24 DEF CheckStore, CheckTo, TypeOK, Check
  <2> QED
    BY <2>2, <2>3, <2>4 DEF Fresh, Stale
<1>25. CASE CheckWake
  BY <1>25 DEF CheckWake, CheckAt, CheckDone, NoCheck, Fresh, Stale, CheckComing, Now, git, row
<1>26. ASSUME NEW m \in Mergers, DeleteScheduledAutoMerge(m) PROVE Fresh'
  BY <1>26 DEF DeleteScheduledAutoMerge, Fresh, Stale, CheckComing, Now, git, row, procs
<1>27. ASSUME NEW m \in Mergers, ScheduleAutoMerge(m) PROVE Fresh'
  BY <1>27 DEF ScheduleAutoMerge, Fresh, Stale, CheckComing, Now, git, row, procs
<1>28. ASSUME NEW m \in Mergers, ScheduleWake(m) PROVE Fresh'
  BY <1>28 DEF ScheduleWake, Fresh, Stale, CheckComing, Now, git, row, procs
<1>29. ASSUME NEW m \in Mergers, MergedManually(m) PROVE Fresh'
  <2>1. PICK c \in DOMAIN base : SetMerged(c, "manual")
    BY <1>29 DEF MergedManually
  <2>2. c # 0
    BY BaseDomain
  <2>3. UNCHANGED <<merged, closed, scheduled, status>>
    BY <2>1, <2>2 DEF SetMerged
  <2> QED
    BY <1>29, <2>3 DEF MergedManually, Fresh, Stale, CheckComing, Now, git
<1>30. ASSUME NEW m \in Mergers, AutoMergeTest(m) PROVE Fresh'
  BY <1>30 DEF AutoMergeTest, Fresh, Stale, CheckComing, Now, git, row, procs
<1>31. ASSUME NEW m \in Mergers, MergeLock(m) PROVE Fresh'
  BY <1>31 DEF MergeLock, Fresh, Stale, CheckComing, Now, git, row, procs
<1>32. ASSUME NEW m \in Mergers, CommitMerge(m) PROVE Fresh'
  BY <1>32 DEF CommitMerge, Fresh, Stale, CheckComing, Now, git, row, procs
<1>33. ASSUME NEW m \in Mergers, CommitFails(m) PROVE Fresh'
  <2>1. <<"base", "list">> \in CheckTasks /\ <<"base", "list">> \in TaskAt
    BY CheckPlaces
  <2> QED
    BY <1>33, <2>1, AtWorkKept DEF CommitFails, Pending, TypeOK, MergeEnds
<1>34. ASSUME NEW m \in Mergers, PushMerge(m) PROVE Fresh'
  <2>1. req'[m].pc = "hook"
    BY <1>34 DEF PushMerge, To, TypeOK, Request
  <2> QED
    BY <2>1 DEF Pending, AtHook
<1>35. ASSUME NEW m \in Mergers, PushRejected(m) PROVE Fresh'
  <2>1. <<"base", "list">> \in CheckTasks /\ <<"base", "list">> \in TaskAt
    BY CheckPlaces
  <2> QED
    BY <1>35, <2>1, AtWorkKept DEF PushRejected, Pending, TypeOK, MergeEnds
<1>36. ASSUME NEW m \in Mergers, HookPostReceive(m) PROVE Fresh'
  <2>1. <<"base", "list">> \in CheckTasks /\ <<"base", "list">> \in TaskAt
    BY CheckPlaces
  <2> QED
    BY <1>36, <2>1, AtWorkKept DEF HookPostReceive, Pending, TypeOK, MergeEnds
<1>37. ASSUME NEW m \in Mergers, AutoMergePop(m) PROVE Fresh'
  BY <1>37 DEF AutoMergePop, Fresh, Stale, CheckComing, Now, git, row, procs
<1>38. ASSUME NEW h \in HeadCommit, StartPRCheckAndAutoMergeBySHA(h) PROVE Fresh'
  BY <1>38 DEF StartPRCheckAndAutoMergeBySHA, Fresh, Stale, CheckComing, Now, git, row, procs
<1>39. CASE Crash
  BY <1>39 DEF Crash, ChecksGivenUp
<1>40. CASE UNCHANGED vars
  BY <1>40 DEF vars, Fresh, Stale, CheckComing, Now, git, row, procs
<1>41. ASSUME NEW h \in HeadCommit, Approve(h) PROVE Fresh'
  BY <1>41 DEF Approve, Fresh, Stale, CheckComing, Now, git, row, procs
<1>42. CASE Reject
  BY <1>42 DEF Reject, Fresh, Stale, CheckComing, Now, git, row, procs
<1>43. CASE RestoreReview
  BY <1>43 DEF RestoreReview, Fresh, Stale, CheckComing, Now, git, row, procs
<1>44. ASSUME NEW m \in Mergers, DismissReview(m) PROVE Fresh'
  BY <1>44 DEF DismissReview, Fresh, Stale, CheckComing, Now, git, row, procs
<1>45. ASSUME NEW m \in Mergers, ReviewDismissed(m) PROVE Fresh'
  BY <1>45 DEF ReviewDismissed, Fresh, Stale, CheckComing, Now, git, row, procs
<1>46. CASE LookThroughReviews
  BY <1>46 DEF LookThroughReviews, Fresh, Stale, CheckComing, Now, git, row, procs
<1>47. CASE UpdatePullsRefs
  <2>1. <<"head", "hook">> \in CheckTasks
    BY CheckPlaces
  <2> QED
    BY <1>47, <2>1 DEF UpdatePullsRefs, Pending, AtWork
<1> QED
  BY <1>1, <1>2, <1>3, <1>4, <1>5, <1>6, <1>7, <1>8, <1>9, <1>10, <1>11,
     <1>12, <1>13, <1>14, <1>15, <1>16, <1>17, <1>18, <1>19, <1>20, <1>21, <1>22,
     <1>23, <1>24, <1>25, <1>26, <1>27, <1>28, <1>29, <1>30, <1>31, <1>32, <1>33,
     <1>34, <1>35, <1>36, <1>37, <1>38, <1>39, <1>40, <1>41, <1>42, <1>43,
     <1>44, <1>45, <1>46, <1>47
     DEF Next, Users, Tasks, CheckSteps, RequestSteps

(* The two invariants about checks are kept.                               *)
LEMMA RecheckStep ==
  ASSUME TypeOK, Locked, StaleCovered, RecheckComing, [Next]_vars
  PROVE  StaleCovered' /\ RecheckComing'
<1>1. CASE merged' # 0 \/ ChecksGivenUp' # {}
  BY <1>1 DEF StaleCovered, RecheckComing
<1>2. CASE Pending'
  <2>1. Coming'
    BY <1>2, ComingPrimed
  <2> QED
    BY <1>2, <2>1 DEF StaleCovered, RecheckComing
<1>3. CASE merged' = 0 /\ ChecksGivenUp' = {} /\ ~Pending'
  <2>1. merged = 0
    BY <1>3, MergedStep
  <2>2. ChecksGivenUp = {}
    BY <1>3, GivenUpStep
  <2>3. CASE Pending
    <3>1. check'.pc = "detect"
      BY <1>3, <2>3, PendingStep
    <3>2. ~Stale' /\ Coming'
      BY <3>1, ComingPrimed DEF Stale, CheckComing
    <3> QED
      BY <3>2 DEF StaleCovered, RecheckComing
  <2>4. CASE ~Pending
    <3>1. Fresh
      BY <2>1, <2>2, <2>4, ComingIs DEF StaleCovered, RecheckComing, Fresh
    <3>2. Fresh'
      BY <1>3, <2>1, <2>4, <3>1, FreshStep
    <3>3. CheckComing' => Coming'
      BY ComingPrimed
    <3> QED
      BY <3>2, <3>3 DEF Fresh, StaleCovered, RecheckComing
  <2> QED
    BY <2>3, <2>4
<1> QED
  BY <1>1, <1>2, <1>3

(* While a check wakes the automerge, the status is the result it stored   *)
(* or was changed since: only a check makes it "mergeable".                *)
LEMMA WakeStep ==
  ASSUME TypeOK, Locked, WakeAgrees, [Next]_vars
  PROVE  WakeAgrees'
<1>1. CASE PushHead
  BY <1>1 DEF PushHead, WakeAgrees, row, procs
<1>2. CASE PushBase
  BY <1>2 DEF PushBase, WakeAgrees, row, procs
<1>3. ASSUME NEW h \in HeadCommit, CreateCommitStatus(h) PROVE WakeAgrees'
  BY <1>3 DEF CreateCommitStatus, WakeAgrees, row, procs
<1>4. CASE StartPullRequestCheckOnView
  BY <1>4 DEF StartPullRequestCheckOnView, WakeAgrees, row, procs
<1>5. CASE CloseIssue
  BY <1>5 DEF CloseIssue, WakeAgrees, row, procs
<1>6. CASE NewComment
  BY <1>6 DEF NewComment, WakeAgrees, row, procs
<1>7. CASE RemoveScheduledAutoMerge
  BY <1>7 DEF RemoveScheduledAutoMerge, WakeAgrees, row, procs
<1>8. ASSUME NEW m \in Mergers, MergePullRequest(m) PROVE WakeAgrees'
  BY <1>8 DEF MergePullRequest, WakeAgrees, row, procs
<1>9. ASSUME NEW k \in {"head", "base"}, List(k) PROVE WakeAgrees'
  BY <1>9 DEF List, WakeAgrees, row, procs
<1>10. ASSUME NEW k \in {"head", "base", "reopen"}, Mark(k) PROVE WakeAgrees'
  BY <1>10 DEF Mark, SetStatusIfNotMerged, WakeAgrees, Locked, procs
<1>11. ASSUME NEW k \in {"head", "base", "reopen"}, Reread(k) PROVE WakeAgrees'
  BY <1>11 DEF Reread, WakeAgrees, row, procs
<1>12. ASSUME NEW k \in {"head", "base", "reopen", "view"}, QueueCheck(k) PROVE WakeAgrees'
  BY <1>12 DEF QueueCheck, WakeAgrees, row, procs
<1>13. CASE Postpone
  BY <1>13 DEF Postpone, WakeAgrees, row, procs
<1>14. CASE ViewInVain
  BY <1>14 DEF ViewInVain, WakeAgrees, row, procs
<1>15. CASE ReopenIssue
  BY <1>15 DEF ReopenIssue, WakeAgrees, row, procs
<1>16. CASE CheckPop
  BY <1>16 DEF CheckPop, CheckAt, CheckTo, CheckDone, NoCheck, TypeOK, Check, WakeAgrees, row
<1>17. CASE CheckStart
  BY <1>17 DEF CheckStart, CheckAt, CheckTo, CheckDone, NoCheck, TypeOK, Check, WakeAgrees, row
<1>18. CASE ManuallyMerged
  BY <1>18 DEF ManuallyMerged, CheckAt, CheckTo, CheckDone, NoCheck, TypeOK, Check, WakeAgrees, row
<1>19. CASE NotManuallyMerged
  BY <1>19 DEF NotManuallyMerged, CheckAt, CheckTo, CheckDone, NoCheck, TypeOK, Check, WakeAgrees, row
<1>20. CASE CheckHead
  BY <1>20 DEF CheckHead, CheckAt, CheckTo, CheckDone, NoCheck, TypeOK, Check, WakeAgrees, row
<1>21. CASE CheckBase
  BY <1>21 DEF CheckBase, CheckAt, CheckTo, CheckDone, NoCheck, TypeOK, Check, WakeAgrees, row
<1>22. CASE CheckFails
  BY <1>22 DEF CheckFails, CheckAt, CheckTo, CheckDone, NoCheck, TypeOK, Check, WakeAgrees, row
<1>23. CASE CheckQueue
  BY <1>23 DEF CheckQueue, CheckAt, CheckTo, CheckDone, NoCheck, TypeOK, Check, WakeAgrees, row
<1>24. CASE CheckStore
  BY <1>24 DEF CheckStore, CheckAt, CheckTo, SetStatusIfNotMerged, TypeOK, Check, Locked, WakeAgrees
<1>25. CASE CheckWake
  BY <1>25 DEF CheckWake, CheckAt, CheckTo, CheckDone, NoCheck, TypeOK, Check, WakeAgrees, row
<1>26. ASSUME NEW m \in Mergers, DeleteScheduledAutoMerge(m) PROVE WakeAgrees'
  BY <1>26 DEF DeleteScheduledAutoMerge, WakeAgrees, row, procs
<1>27. ASSUME NEW m \in Mergers, ScheduleAutoMerge(m) PROVE WakeAgrees'
  BY <1>27 DEF ScheduleAutoMerge, WakeAgrees, row, procs
<1>28. ASSUME NEW m \in Mergers, ScheduleWake(m) PROVE WakeAgrees'
  BY <1>28 DEF ScheduleWake, WakeAgrees, row, procs
<1>29. ASSUME NEW m \in Mergers, MergedManually(m) PROVE WakeAgrees'
  BY <1>29 DEF MergedManually, SetMerged, WakeAgrees
<1>30. ASSUME NEW m \in Mergers, AutoMergeTest(m) PROVE WakeAgrees'
  BY <1>30 DEF AutoMergeTest, WakeAgrees, row, procs
<1>31. ASSUME NEW m \in Mergers, MergeLock(m) PROVE WakeAgrees'
  BY <1>31 DEF MergeLock, WakeAgrees, row, procs
<1>32. ASSUME NEW m \in Mergers, CommitMerge(m) PROVE WakeAgrees'
  BY <1>32 DEF CommitMerge, WakeAgrees, row, procs
<1>33. ASSUME NEW m \in Mergers, CommitFails(m) PROVE WakeAgrees'
  BY <1>33 DEF CommitFails, WakeAgrees, row, procs
<1>34. ASSUME NEW m \in Mergers, PushMerge(m) PROVE WakeAgrees'
  BY <1>34 DEF PushMerge, WakeAgrees, row, procs
<1>35. ASSUME NEW m \in Mergers, PushRejected(m) PROVE WakeAgrees'
  BY <1>35 DEF PushRejected, WakeAgrees, row, procs
<1>36. ASSUME NEW m \in Mergers, HookPostReceive(m) PROVE WakeAgrees'
  BY <1>36 DEF HookPostReceive, SetMerged, WakeAgrees
<1>37. ASSUME NEW m \in Mergers, AutoMergePop(m) PROVE WakeAgrees'
  BY <1>37 DEF AutoMergePop, WakeAgrees, row, procs
<1>38. ASSUME NEW h \in HeadCommit, StartPRCheckAndAutoMergeBySHA(h) PROVE WakeAgrees'
  BY <1>38 DEF StartPRCheckAndAutoMergeBySHA, WakeAgrees, row, procs
<1>39. CASE Crash
  BY <1>39 DEF Crash, NoCheck, WakeAgrees
<1>40. CASE UNCHANGED vars
  BY <1>40 DEF vars, row, procs, WakeAgrees
<1>41. ASSUME NEW h \in HeadCommit, Approve(h) PROVE WakeAgrees'
  BY <1>41 DEF Approve, WakeAgrees, row, procs
<1>42. CASE Reject
  BY <1>42 DEF Reject, WakeAgrees, row, procs
<1>43. CASE RestoreReview
  BY <1>43 DEF RestoreReview, WakeAgrees, row, procs
<1>44. ASSUME NEW m \in Mergers, DismissReview(m) PROVE WakeAgrees'
  BY <1>44 DEF DismissReview, WakeAgrees, row, procs
<1>45. ASSUME NEW m \in Mergers, ReviewDismissed(m) PROVE WakeAgrees'
  BY <1>45 DEF ReviewDismissed, WakeAgrees, row, procs
<1>46. CASE LookThroughReviews
  BY <1>46 DEF LookThroughReviews, WakeAgrees, row, procs
<1>47. CASE UpdatePullsRefs
  BY <1>47 DEF UpdatePullsRefs, WakeAgrees, row, procs
<1> QED
  BY <1>1, <1>2, <1>3, <1>4, <1>5, <1>6, <1>7, <1>8, <1>9, <1>10, <1>11,
     <1>12, <1>13, <1>14, <1>15, <1>16, <1>17, <1>18, <1>19, <1>20, <1>21, <1>22,
     <1>23, <1>24, <1>25, <1>26, <1>27, <1>28, <1>29, <1>30, <1>31, <1>32, <1>33,
     <1>34, <1>35, <1>36, <1>37, <1>38, <1>39, <1>40, <1>41, <1>42, <1>43,
     <1>44, <1>45, <1>46, <1>47
     DEF Next, Users, Tasks, CheckSteps, RequestSteps

(* A check that could not mark the pull request as merged wakes nobody, and *)
(* this is no loss while it is at work.                                    *)
LEMMA RefusedStep ==
  ASSUME TypeOK, Locked, RefusedSeen, [Next]_vars
  PROVE  RefusedSeen'
<1>1. CASE PushHead
  BY <1>1 DEF PushHead, RefusedSeen, row, queues, procs
<1>2. CASE PushBase
  BY <1>2 DEF PushBase, RefusedSeen, row, queues, procs
<1>3. ASSUME NEW h \in HeadCommit, CreateCommitStatus(h) PROVE RefusedSeen'
  BY <1>3 DEF CreateCommitStatus, Succeeds, IsSkipped, FailsAgain, RefusedSeen, row, queues, procs
<1>4. CASE StartPullRequestCheckOnView
  BY <1>4 DEF StartPullRequestCheckOnView, RefusedSeen, row, queues, procs
<1>5. CASE CloseIssue
  BY <1>5 DEF CloseIssue, RefusedSeen, row, queues, procs
<1>6. CASE NewComment
  BY <1>6 DEF NewComment, RefusedSeen, row, queues, procs
<1>7. CASE RemoveScheduledAutoMerge
  BY <1>7 DEF RemoveScheduledAutoMerge, RefusedSeen, row, queues, procs
<1>8. ASSUME NEW m \in Mergers, MergePullRequest(m) PROVE RefusedSeen'
  BY <1>8 DEF MergePullRequest, RefusedSeen, row, queues, procs
<1>9. ASSUME NEW k \in {"head", "base"}, List(k) PROVE RefusedSeen'
  BY <1>9 DEF List, RefusedSeen, row, queues, procs
<1>10. ASSUME NEW k \in {"head", "base", "reopen"}, Mark(k) PROVE RefusedSeen'
  BY <1>10 DEF Mark, RefusedSeen, row, queues, procs
<1>11. ASSUME NEW k \in {"head", "base", "reopen"}, Reread(k) PROVE RefusedSeen'
  BY <1>11 DEF Reread, RefusedSeen, row, queues, procs
<1>12. ASSUME NEW k \in {"head", "base", "reopen", "view"}, QueueCheck(k) PROVE RefusedSeen'
  BY <1>12 DEF QueueCheck, AddPullRequestToCheckQueue, AlreadyQueued, RefusedSeen, procs
<1>13. CASE Postpone
  BY <1>13 DEF Postpone, RefusedSeen, row, queues, procs
<1>14. CASE ViewInVain
  BY <1>14 DEF ViewInVain, RefusedSeen, row, queues, procs
<1>15. CASE ReopenIssue
  BY <1>15 DEF ReopenIssue, RefusedSeen, row, queues, procs
<1>16. CASE CheckPop
  BY <1>16 DEF CheckPop, RefusedSeen, TypeOK, row
<1>17. CASE CheckStart
  BY <1>17 DEF CheckStart, RefusedSeen, Locked, TypeOK, Check, row
<1>18. CASE ManuallyMerged
  BY <1>18 DEF ManuallyMerged, CheckDone, NoCheck, RefusedSeen
<1>19. CASE NotManuallyMerged
  BY <1>19 DEF NotManuallyMerged, CheckAt, CanSetMerged, RefusedSeen, Locked, TypeOK, Check, row, queues
<1>20. CASE CheckHead
  BY <1>20 DEF CheckHead, CheckAt, RefusedSeen, TypeOK, Check, row, queues
<1>21. CASE CheckBase
  BY <1>21 DEF CheckBase, CheckAt, RefusedSeen, TypeOK, Check, row, queues
<1>22. CASE CheckFails
  BY <1>22 DEF CheckFails, CheckDone, NoCheck, RefusedSeen
<1>23. CASE CheckQueue
  BY <1>23 DEF CheckQueue, CheckAt, CheckTo, CheckDone, NoCheck, RefusedSeen, TypeOK, Check, row, queues
<1>24. CASE CheckStore
  BY <1>24 DEF CheckStore, CheckAt, CheckTo, RefusedSeen, TypeOK, Check, row, queues
<1>25. CASE CheckWake
  BY <1>25 DEF CheckWake, CheckDone, NoCheck, RefusedSeen
<1>26. ASSUME NEW m \in Mergers, DeleteScheduledAutoMerge(m) PROVE RefusedSeen'
  BY <1>26 DEF DeleteScheduledAutoMerge, RefusedSeen, row, queues, procs
<1>27. ASSUME NEW m \in Mergers, ScheduleAutoMerge(m) PROVE RefusedSeen'
  BY <1>27 DEF ScheduleAutoMerge, RefusedSeen, row, queues, procs
<1>28. ASSUME NEW m \in Mergers, ScheduleWake(m) PROVE RefusedSeen'
  BY <1>28 DEF ScheduleWake, RefusedSeen, row, queues, procs
<1>29. ASSUME NEW m \in Mergers, MergedManually(m) PROVE RefusedSeen'
  BY <1>29 DEF MergedManually, SetMerged, MergeEnds, RefusedSeen, queues
<1>30. ASSUME NEW m \in Mergers, AutoMergeTest(m) PROVE RefusedSeen'
  BY <1>30 DEF AutoMergeTest, RefusedSeen, row, queues, procs
<1>31. ASSUME NEW m \in Mergers, MergeLock(m) PROVE RefusedSeen'
  BY <1>31 DEF MergeLock, RefusedSeen, row, queues, procs
<1>32. ASSUME NEW m \in Mergers, CommitMerge(m) PROVE RefusedSeen'
  BY <1>32 DEF CommitMerge, RefusedSeen, row, queues, procs
<1>33. ASSUME NEW m \in Mergers, CommitFails(m) PROVE RefusedSeen'
  BY <1>33 DEF CommitFails, RefusedSeen, row, queues, procs
<1>34. ASSUME NEW m \in Mergers, PushMerge(m) PROVE RefusedSeen'
  BY <1>34 DEF PushMerge, RefusedSeen, row, queues, procs
<1>35. ASSUME NEW m \in Mergers, PushRejected(m) PROVE RefusedSeen'
  BY <1>35 DEF PushRejected, RefusedSeen, row, queues, procs
<1>36. ASSUME NEW m \in Mergers, HookPostReceive(m) PROVE RefusedSeen'
  BY <1>36 DEF HookPostReceive, SetMerged, MergeEnds, RefusedSeen, queues
<1>37. ASSUME NEW m \in Mergers, AutoMergePop(m) PROVE RefusedSeen'
  BY <1>37 DEF AutoMergePop, RefusedSeen, row, queues, procs
<1>38. ASSUME NEW h \in HeadCommit, StartPRCheckAndAutoMergeBySHA(h) PROVE RefusedSeen'
  BY <1>38 DEF StartPRCheckAndAutoMergeBySHA, RefusedSeen, row, queues, procs
<1>39. CASE Crash
  BY <1>39 DEF Crash, NoCheck, RefusedSeen
<1>40. CASE UNCHANGED vars
  BY <1>40 DEF vars, RefusedSeen, row, queues, procs
<1>41. ASSUME NEW h \in HeadCommit, Approve(h) PROVE RefusedSeen'
  BY <1>41 DEF Approve, RefusedSeen, row, queues, procs
<1>42. CASE Reject
  BY <1>42 DEF Reject, RefusedSeen, row, queues, procs
<1>43. CASE RestoreReview
  BY <1>43 DEF RestoreReview, RefusedSeen, row, queues, procs
<1>44. ASSUME NEW m \in Mergers, DismissReview(m) PROVE RefusedSeen'
  BY <1>44 DEF DismissReview, RefusedSeen, row, queues, procs
<1>45. ASSUME NEW m \in Mergers, ReviewDismissed(m) PROVE RefusedSeen'
  BY <1>45 DEF ReviewDismissed, RefusedSeen, row, queues, procs
<1>46. CASE LookThroughReviews
  BY <1>46 DEF LookThroughReviews, RefusedSeen, row, queues, procs
<1>47. CASE UpdatePullsRefs
  BY <1>47 DEF UpdatePullsRefs, RefusedSeen, row, queues, procs
<1> QED
  BY <1>1, <1>2, <1>3, <1>4, <1>5, <1>6, <1>7, <1>8, <1>9, <1>10, <1>11,
     <1>12, <1>13, <1>14, <1>15, <1>16, <1>17, <1>18, <1>19, <1>20, <1>21, <1>22,
     <1>23, <1>24, <1>25, <1>26, <1>27, <1>28, <1>29, <1>30, <1>31, <1>32, <1>33,
     <1>34, <1>35, <1>36, <1>37, <1>38, <1>39, <1>40, <1>41, <1>42, <1>43,
     <1>44, <1>45, <1>46, <1>47
     DEF Next, Users, Tasks, CheckSteps, RequestSteps

(* A task that starts where it will mark the pull request is settling, and *)
(* others leave it there.                                                  *)
LEMMA SettlingKept ==
  ASSUME tasks \in [TaskAt -> Nat], NEW t \in TaskAt
  PROVE  /\ Spawn(t) /\ (Settling \/ t \in SettlesAt) => Settling'
         /\ Ended(t) /\ t \notin SettlesAt /\ Settling => Settling'
<1>1. SettlesAt \subseteq TaskAt /\ \A v \in TaskAt : tasks[v] \in Nat
  BY DEF SettlesAt, TaskAt
<1>2. ASSUME Spawn(t), Settling \/ t \in SettlesAt PROVE Settling'
  <2>1. tasks'[t] = tasks[t] + 1 /\ \A v \in TaskAt \ {t} : tasks'[v] = tasks[v]
    BY <1>2 DEF Spawn
  <2> QED
    BY <1>1, <1>2, <2>1 DEF Settling
<1>3. ASSUME Ended(t), t \notin SettlesAt, Settling PROVE Settling'
  <2>1. \A v \in TaskAt \ {t} : tasks'[v] = tasks[v]
    BY <1>3 DEF Ended
  <2> QED
    BY <1>1, <1>3, <2>1 DEF Settling
<1> QED
  BY <1>2, <1>3

(* So is a task that goes on there.                                        *)
LEMMA SettlingMoved ==
  ASSUME tasks \in [TaskAt -> Nat], NEW t \in TaskAt, NEW u \in TaskAt, t # u, Moved(t, u)
  PROVE  (u \in SettlesAt => Settling') /\ (t \notin SettlesAt /\ Settling => Settling')
<1>1. SettlesAt \subseteq TaskAt /\ \A v \in TaskAt : tasks[v] \in Nat
  BY DEF SettlesAt, TaskAt
<1>2. tasks'[u] = tasks[u] + 1 /\ \A v \in TaskAt \ {t, u} : tasks'[v] = tasks[v]
  BY DEF Moved
<1>3. ASSUME u \in SettlesAt PROVE Settling'
  BY <1>1, <1>2, <1>3 DEF Settling
<1>4. ASSUME t \notin SettlesAt, Settling PROVE Settling'
  BY <1>1, <1>2, <1>4 DEF Settling
<1> QED
  BY <1>3, <1>4

(* The places where tasks mark, and others where they start and go on to.  *)
LEMMA SettlesPlaces ==
  /\ \A k \in {"head", "base"} : <<k, "list">> \in TaskAt \cap SettlesAt /\ <<k, "mark">> \in TaskAt \cap SettlesAt
  /\ \A k \in {"head", "base", "reopen"} : /\ <<k, "mark">> \in TaskAt
       /\ <<k, "reread">> \in TaskAt \ SettlesAt /\ <<k, "push">> \in TaskAt \ SettlesAt
  /\ <<"head", "hook">> \in TaskAt \cap SettlesAt
  /\ <<"view", "push">> \in TaskAt \ SettlesAt /\ <<"reopen", "open">> \in TaskAt \ SettlesAt
  /\ <<"reopen", "mark">> \in TaskAt \ SettlesAt /\ <<"head", "reviews">> \in TaskAt \ SettlesAt
BY DEF TaskAt, SettlesAt

(* Every action keeps a due automerge with somebody: who leaves it hands   *)
(* it on, or does what makes it due no more.                               *)
LEMMA BackedStep ==
  ASSUME TypeOK, WakeAgrees, DueBacked, RefusedSeen, [Next]_vars
  PROVE  DueBacked'
<1>1. CASE PushHead
  <2>1. <<"head", "hook">> \in TaskAt \cap SettlesAt
    BY SettlesPlaces
  <2>2. Settling'
    BY <1>1, <2>1, SettlingKept DEF PushHead, TypeOK
  <2> QED
    BY <2>2 DEF DueBacked, Backed
<1>2. CASE PushBase
  <2>1. Settling => Settling'
    BY <1>2, SettlesPlaces, SettlingKept DEF PushBase, TypeOK
  <2> QED
    BY <1>2, <2>1 DEF PushBase, DueBacked, Due, Backed, OnItsWay, git, row, queues, procs
<1>3. ASSUME NEW h \in HeadCommit, CreateCommitStatus(h) PROVE DueBacked'
  <2> USE DEF Due, Backed, OnItsWay, Settling, DueBacked, row, queues, procs
  <2>1. CASE Succeeds(h)
    BY <1>3, <2>1 DEF CreateCommitStatus, Succeeds
  <2>2. CASE IsSkipped(h)
    BY <1>3, <2>2 DEF CreateCommitStatus, IsSkipped
  <2>3. CASE FailsAgain(h)
    BY <1>3, <2>3 DEF CreateCommitStatus, FailsAgain
  <2> QED
    BY <1>3, <2>1, <2>2, <2>3 DEF CreateCommitStatus
<1>4. CASE StartPullRequestCheckOnView
  <2>1. Settling => Settling'
    BY <1>4, SettlesPlaces, SettlingKept DEF StartPullRequestCheckOnView, TypeOK
  <2> QED
    BY <1>4, <2>1 DEF StartPullRequestCheckOnView, DueBacked, Due, Backed, OnItsWay, git, row, queues, procs
<1>5. CASE CloseIssue
  BY <1>5 DEF CloseIssue, DueBacked, Due
<1>6. CASE NewComment
  <2>1. Settling => Settling'
    BY <1>6, SettlesPlaces, SettlingKept DEF NewComment, TypeOK
  <2> QED
    BY <1>6, <2>1 DEF NewComment, DueBacked, Due, Backed, OnItsWay, git, row, queues, procs
<1>7. CASE RemoveScheduledAutoMerge
  BY <1>7 DEF RemoveScheduledAutoMerge, DueBacked, Due
<1>8. ASSUME NEW m \in Mergers, MergePullRequest(m) PROVE DueBacked'
  <2>1. \A n \in Mergers \ {m} : OnItsWay(n) => OnItsWay(n)'
    BY <1>8 DEF MergePullRequest, To, Leave, OnItsWay, TypeOK, git
  <2>2. OnItsWay(m) => OnItsWay(m)'
    BY <1>8 DEF MergePullRequest, At, To, Leave, OnItsWay, TypeOK, Request
  <2> QED
    BY <1>8, <2>1, <2>2 DEF MergePullRequest, DueBacked, Due, Backed, Settling, git, row, queues
<1>9. ASSUME NEW k \in {"head", "base"}, List(k) PROVE DueBacked'
  <2>1. CASE merged = 0 /\ ~closed
    <3> DEFINE t == <<k, "list">>
               u == <<k, "mark">>
    <3>1. t # u /\ Moved(t, u)
      BY <1>9, <2>1 DEF List
    <3>2. t \in TaskAt /\ u \in TaskAt /\ u \in SettlesAt /\ tasks \in [TaskAt -> Nat]
      BY SettlesPlaces DEF TypeOK
    <3> HIDE DEF t, u
    <3>3. Settling'
      BY <3>1, <3>2, SettlingMoved
    <3> QED
      BY <3>3 DEF DueBacked, Backed
  <2>2. CASE ~(merged = 0 /\ ~closed)
    BY <1>9, <2>2 DEF List, DueBacked, Due, row
  <2> QED
    BY <2>1, <2>2
<1>10. ASSUME NEW k \in {"head", "base", "reopen"}, Mark(k) PROVE DueBacked'
  <2>1. merged' = 0 => status' = "checking"
    BY <1>10 DEF Mark, SetStatusIfNotMerged
  <2> QED
    BY <2>1 DEF DueBacked, Due
<1>11. ASSUME NEW k \in {"head", "base", "reopen"}, Reread(k) PROVE DueBacked'
  <2>1. <<k, "reread">> \in TaskAt \ SettlesAt /\ <<k, "push">> \in TaskAt \ SettlesAt
        /\ <<"reopen", "open">> \in TaskAt \ SettlesAt
    BY SettlesPlaces
  <2>2. Settling => Settling'
    <3>1. CASE Moved(<<k, "reread">>, <<k, "push">>)
      BY <2>1, <3>1, SettlingMoved DEF TypeOK
    <3>2. CASE Ended(<<k, "reread">>)
      BY <2>1, <3>2, SettlingKept DEF TypeOK
    <3>3. CASE k = "reopen" /\ Moved(<<k, "reread">>, <<k, "open">>)
      BY <2>1, <3>3, SettlingMoved DEF TypeOK
    <3>4. CASE k = "head" /\ Moved(<<k, "reread">>, <<k, "reviews">>)
      BY <2>1, <3>4, SettlesPlaces, SettlingMoved DEF TypeOK
    <3> QED
      BY <1>11, <3>1, <3>2, <3>3, <3>4 DEF Reread, Leaves
  <2> QED
    BY <1>11, <2>2 DEF Reread, DueBacked, Due, Backed, OnItsWay, git, row, queues, procs
<1>12. ASSUME NEW k \in {"head", "base", "reopen", "view"}, QueueCheck(k) PROVE DueBacked'
  BY <1>12 DEF QueueCheck, AddPullRequestToCheckQueue, AlreadyQueued, DueBacked, Backed
<1>13. CASE Postpone
  <2>1. Settling => Settling'
    BY <1>13, SettlesPlaces, SettlingKept DEF Postpone, TypeOK
  <2> QED
    BY <1>13, <2>1 DEF Postpone, DueBacked, Due, Backed, OnItsWay, git, row, queues, procs
<1>14. CASE ViewInVain
  <2>1. Settling => Settling'
    BY <1>14, SettlesPlaces, SettlingKept DEF ViewInVain, TypeOK
  <2> QED
    BY <1>14, <2>1 DEF ViewInVain, DueBacked, Due, Backed, OnItsWay, git, row, queues, procs
<1>15. CASE ReopenIssue
  BY <1>15 DEF ReopenIssue, DueBacked, Due
<1>16. CASE CheckPop
  BY <1>16 DEF CheckPop, DueBacked, Backed, TypeOK
<1>17. CASE CheckStart
  BY <1>17 DEF CheckStart, TypeOK, Check, DueBacked, Due, Backed, row
<1>18. CASE ManuallyMerged
  <2>1. PICK c \in DOMAIN base : SetMerged(c, "manual")
    BY <1>18 DEF ManuallyMerged
  <2>2. merged' # 0
    BY <1>18, <2>1, BaseDomain DEF ManuallyMerged, SetMerged
  <2> QED
    BY <2>2 DEF DueBacked, Due
<1>19. CASE NotManuallyMerged
  <2>1. check'.pc # "idle"
    BY <1>19 DEF NotManuallyMerged, CheckAt, CheckTo, TypeOK, Check
  <2> QED
    BY <2>1 DEF DueBacked, Backed
<1>20. CASE CheckHead
  <2>1. check'.pc # "idle"
    BY <1>20 DEF CheckHead, CheckAt, CheckTo, TypeOK, Check
  <2> QED
    BY <2>1 DEF DueBacked, Backed
<1>21. CASE CheckBase
  <2>1. check'.pc # "idle"
    BY <1>21 DEF CheckBase, CheckAt, CheckTo, TypeOK, Check
  <2> QED
    BY <2>1 DEF DueBacked, Backed
<1>22. CASE CheckFails
  BY <1>22 DEF CheckFails, DueBacked, Due
<1>23. CASE CheckQueue
  BY <1>23 DEF CheckQueue, CheckTo, TypeOK, Check, DueBacked, Backed, queues
<1>24. CASE CheckStore
  <2>1. check'.pc # "idle"
    BY <1>24 DEF CheckStore, CheckAt, CheckTo, TypeOK, Check
  <2> QED
    BY <2>1 DEF DueBacked, Backed
<1>25. CASE CheckWake
  <2>1. CASE check.refused
    BY <1>25, <2>1 DEF CheckWake, RefusedSeen, DueBacked, Due, Backed, row
  <2>2. CASE ~check.refused
    BY <1>25, <2>2 DEF CheckWake, CheckAt, StartPRCheckAndAutoMerge, Scheduled, WakeAgrees, DueBacked, Due,
                       Backed, git, row
  <2> QED
    BY <2>1, <2>2
<1>26. ASSUME NEW m \in Mergers, DeleteScheduledAutoMerge(m) PROVE DueBacked'
  BY <1>26 DEF DeleteScheduledAutoMerge, DueBacked, Due
<1>27. ASSUME NEW m \in Mergers, ScheduleAutoMerge(m) PROVE DueBacked'
  <2>1. \A n \in Mergers \ {m} : OnItsWay(n) => OnItsWay(n)'
    BY <1>27 DEF ScheduleAutoMerge, To, Leave, OnItsWay, TypeOK, git
  <2>2. ~OnItsWay(m) /\ (~scheduled => OnItsWay(m)')
    BY <1>27 DEF ScheduleAutoMerge, At, To, OnItsWay, TypeOK, Request
  <2> QED
    BY <1>27, <2>1, <2>2 DEF ScheduleAutoMerge, DueBacked, Due, Backed, Settling, git, queues
<1>28. ASSUME NEW m \in Mergers, ScheduleWake(m) PROVE DueBacked'
  <2>1. CASE req[m].ready
    <3>1. refHead \in mergeQueue'
      BY <1>28, <2>1 DEF ScheduleWake, StartPRCheckAndAutoMerge
    <3> QED
      BY <1>28, <3>1 DEF ScheduleWake, DueBacked, Due, Backed, git
  <2>2. CASE ~req[m].ready
    BY <1>28, <2>2 DEF ScheduleWake, DueBacked, Due, row
  <2> QED
    BY <2>1, <2>2
<1>29. ASSUME NEW m \in Mergers, MergedManually(m) PROVE DueBacked'
  <2>1. PICK c \in DOMAIN base : SetMerged(c, "manual")
    BY <1>29 DEF MergedManually
  <2>2. c # 0
    BY BaseDomain
  <2>3. ~(merged' = 0 /\ ~closed')
    BY <2>1, <2>2 DEF SetMerged, CanSetMerged
  <2> QED
    BY <2>3 DEF DueBacked, Due
<1>30. ASSUME NEW m \in Mergers, AutoMergeTest(m) PROVE DueBacked'
  <2>1. \A n \in Mergers \ {m} : OnItsWay(n) => OnItsWay(n)'
    BY <1>30 DEF AutoMergeTest, Leave, OnItsWay, TypeOK, git
  <2>2. Due /\ OnItsWay(m) => OnItsWay(m)'
    BY <1>30 DEF AutoMergeTest, At, Due, OnItsWay, TypeOK, Request
  <2> QED
    BY <1>30, <2>1, <2>2 DEF AutoMergeTest, DueBacked, Due, Backed, Settling, git, row, queues
<1>31. ASSUME NEW m \in Mergers, MergeLock(m) PROVE DueBacked'
  <2>1. \A n \in Mergers \ {m} : OnItsWay(n) => OnItsWay(n)'
    BY <1>31 DEF MergeLock, To, Leave, OnItsWay, TypeOK, git
  <2>2. OnItsWay(m) => OnItsWay(m)'
    BY <1>31 DEF MergeLock, At, To, Leave, OnItsWay, TypeOK, Request
  <2> QED
    BY <1>31, <2>1, <2>2 DEF MergeLock, DueBacked, Due, Backed, Settling, git, row, queues
<1>32. ASSUME NEW m \in Mergers, CommitMerge(m) PROVE DueBacked'
  <2>1. \A n \in Mergers \ {m} : OnItsWay(n) => OnItsWay(n)'
    BY <1>32 DEF CommitMerge, To, Leave, OnItsWay, TypeOK, git
  <2>2. OnItsWay(m) => OnItsWay(m)'
    BY <1>32 DEF CommitMerge, At, To, Leave, OnItsWay, TypeOK, Request
  <2> QED
    BY <1>32, <2>1, <2>2 DEF CommitMerge, DueBacked, Due, Backed, Settling, git, row, queues
<1>33. ASSUME NEW m \in Mergers, CommitFails(m) PROVE DueBacked'
  <2>1. <<"base", "list">> \in TaskAt \cap SettlesAt
    BY SettlesPlaces
  <2>2. Settling'
    BY <1>33, <2>1, SettlingKept DEF CommitFails, MergeEnds, TypeOK
  <2> QED
    BY <2>2 DEF DueBacked, Backed
<1>34. ASSUME NEW m \in Mergers, PushMerge(m) PROVE DueBacked'
  <2>1. \A n \in Mergers \ {m} : OnItsWay(n) => OnItsWay(n)'
    BY <1>34 DEF PushMerge, To, Leave, OnItsWay, TypeOK, git
  <2>2. OnItsWay(m) => OnItsWay(m)'
    BY <1>34 DEF PushMerge, At, To, Leave, OnItsWay, TypeOK, Request
  <2> QED
    BY <1>34, <2>1, <2>2 DEF PushMerge, DueBacked, Due, Backed, Settling, git, row, queues
<1>35. ASSUME NEW m \in Mergers, PushRejected(m) PROVE DueBacked'
  <2>1. <<"base", "list">> \in TaskAt \cap SettlesAt
    BY SettlesPlaces
  <2>2. Settling'
    BY <1>35, <2>1, SettlingKept DEF PushRejected, MergeEnds, TypeOK
  <2> QED
    BY <2>2 DEF DueBacked, Backed
<1>36. ASSUME NEW m \in Mergers, HookPostReceive(m) PROVE DueBacked'
  <2>1. <<"base", "list">> \in TaskAt \cap SettlesAt
    BY SettlesPlaces
  <2>2. Settling'
    BY <1>36, <2>1, SettlingKept DEF HookPostReceive, MergeEnds, TypeOK
  <2> QED
    BY <2>2 DEF DueBacked, Backed
<1>37. ASSUME NEW m \in Mergers, AutoMergePop(m) PROVE DueBacked'
  <2>1. PICK sha \in mergeQueue :
          /\ mergeQueue' = mergeQueue \ {sha}
          /\ req' = [req EXCEPT ![m] = [NoRequest EXCEPT !.pc = "auto", !.asked = sha,
                                       !.ready = (merged = 0 /\ CanBeMerged)]]
    BY <1>37 DEF AutoMergePop
  <2>2. req[m].pc = "idle" /\ ~OnItsWay(m)
    BY <1>37 DEF AutoMergePop, At, OnItsWay
  <2>3. \A n \in Mergers \ {m} : OnItsWay(n) => OnItsWay(n)'
    BY <1>37, <2>1 DEF AutoMergePop, OnItsWay, TypeOK, git
  <2>4. Due /\ sha = head => OnItsWay(m)'
    BY <1>37, <2>1 DEF AutoMergePop, CanBeMerged, Due, OnItsWay, NoRequest, TypeOK, git
  <2> QED
    BY <1>37, <2>1, <2>2, <2>3, <2>4 DEF AutoMergePop, DueBacked, Due, Backed, Settling, git, row
<1>38. ASSUME NEW h \in HeadCommit, StartPRCheckAndAutoMergeBySHA(h) PROVE DueBacked'
  BY <1>38 DEF StartPRCheckAndAutoMergeBySHA, Due, Backed, OnItsWay, Settling, DueBacked, git, row, queues, procs
<1>39. CASE Crash
  BY <1>39 DEF Crash, DueBacked, Due
<1>40. CASE UNCHANGED vars
  BY <1>40 DEF vars, Due, Backed, OnItsWay, Settling, DueBacked, git, row, queues, procs
<1>41. ASSUME NEW h \in HeadCommit, Approve(h) PROVE DueBacked'
  BY <1>41 DEF Approve, DueBacked, Due, Backed, OnItsWay, Settling, git, queues, procs
<1>42. CASE Reject
  BY <1>42 DEF Reject, DueBacked, Due, Backed, OnItsWay, Settling, git, queues, procs
<1>43. CASE RestoreReview
  BY <1>43 DEF RestoreReview, DueBacked, Due, Backed, OnItsWay, Settling, git, queues, procs
<1>44. ASSUME NEW m \in Mergers, DismissReview(m) PROVE DueBacked'
  <2>1. \A n \in Mergers \ {m} : OnItsWay(n) => OnItsWay(n)'
    BY <1>44 DEF DismissReview, OnItsWay, TypeOK, git
  <2>2. ~OnItsWay(m)
    BY <1>44 DEF DismissReview, At, OnItsWay
  <2> QED
    BY <1>44, <2>1, <2>2 DEF DismissReview, DueBacked, Due, Backed, Settling, git, row, queues
<1>45. ASSUME NEW m \in Mergers, ReviewDismissed(m) PROVE DueBacked'
  <2>1. OnItsWay(m)'
    BY <1>45 DEF ReviewDismissed, To, OnItsWay, TypeOK, Request
  <2> QED
    BY <2>1 DEF DueBacked, Backed
<1>46. CASE LookThroughReviews
  <2>1. Settling => Settling'
    BY <1>46, SettlesPlaces, SettlingKept DEF LookThroughReviews, TypeOK
  <2>2. mergeQueue \subseteq mergeQueue'
    BY <1>46 DEF LookThroughReviews, StartPRCheckAndAutoMerge
  <2> QED
    BY <1>46, <2>1, <2>2 DEF LookThroughReviews, DueBacked, Due, Backed, OnItsWay, git, procs
<1>47. CASE UpdatePullsRefs
  <2>1. <<"head", "hook">> \in TaskAt /\ <<"head", "list">> \in TaskAt \cap SettlesAt
    BY SettlesPlaces
  <2>2. Moved(<<"head", "hook">>, <<"head", "list">>)
    BY <1>47 DEF UpdatePullsRefs
  <2>3. Settling'
    BY <2>1, <2>2, SettlingMoved DEF TypeOK
  <2> QED
    BY <2>3 DEF DueBacked, Backed
<1> QED
  BY <1>1, <1>2, <1>3, <1>4, <1>5, <1>6, <1>7, <1>8, <1>9, <1>10, <1>11,
     <1>12, <1>13, <1>14, <1>15, <1>16, <1>17, <1>18, <1>19, <1>20, <1>21, <1>22,
     <1>23, <1>24, <1>25, <1>26, <1>27, <1>28, <1>29, <1>30, <1>31, <1>32, <1>33,
     <1>34, <1>35, <1>36, <1>37, <1>38, <1>39, <1>40, <1>41, <1>42, <1>43,
     <1>44, <1>45, <1>46, <1>47
     DEF Next, Users, Tasks, CheckSteps, RequestSteps

-----------------------------------------------------------------------------
(* The initial states satisfy the invariant.                               *)
LEMMA InitInv == Init => IInv
<1> SUFFICES ASSUME Init PROVE IInv
  OBVIOUS
<1>1. TypeOK
  <2>1. base \in Seq(BaseCommit) /\ Len(base) \in BaseTip
    BY PullRequestAssumption DEF Init, BaseCommit, BaseTip
  <2>2. check \in Check /\ req \in [Mergers -> Request] /\ tasks \in [TaskAt -> Nat]
    BY Idle DEF Init
  <2>3. head \in HeadCommit /\ refHead \in HeadCommit /\ tested \in HeadCommit \X BaseTip
    BY PullRequestAssumption DEF Init, HeadCommit, BaseTip
  <2>4. merged \in 0..MaxBase /\ popped \in 0..Workers /\ events \in 0..MaxEvents
    BY PullRequestAssumption DEF Init
  <2>5. settings \in Setting
    BY PullRequestAssumption DEF Init
  <2> QED
    BY <2>1, <2>2, <2>3, <2>4, <2>5 DEF Init, TypeOK, Status, Outcome
<1>2. Locked
  BY PullRequestAssumption DEF Init, Locked, NoCheck, NoRequest
<1>3. MergeReads
  BY DEF Init, MergeReads, NoRequest
<1>4. ExpectedHead
  BY DEF Init, ExpectedHead
<1>5. StaleCovered
  BY DEF Init, StaleCovered, Stale, NoCheck
<1>6. RecheckComing
  <2>1. tested = Now
    BY DEF Init, Now
  <2> QED
    BY <2>1 DEF Init, RecheckComing
<1>7. WakeAgrees /\ DueBacked /\ RefusedSeen
  BY DEF Init, WakeAgrees, DueBacked, Due, RefusedSeen, NoCheck
<1> QED
  BY <1>1, <1>2, <1>3, <1>4, <1>5, <1>6, <1>7 DEF IInv

(* Every step keeps the invariant.                                         *)
LEMMA StepInv == IInv /\ [Next]_vars => IInv'
<1> SUFFICES ASSUME IInv, [Next]_vars PROVE IInv'
  OBVIOUS
<1>1. TypeOK'
  BY TypeStep
<1>2. Locked'
  BY LockedStep DEF IInv
<1>3. MergeReads'
  BY MergeReadsStep DEF IInv
<1>4. ExpectedHead'
  BY ExpectedHeadStep DEF IInv
<1>5. StaleCovered' /\ RecheckComing'
  BY RecheckStep DEF IInv
<1>6. WakeAgrees'
  BY WakeStep DEF IInv
<1>7. DueBacked'
  BY BackedStep DEF IInv
<1>8. RefusedSeen'
  BY RefusedStep DEF IInv
<1> QED
  BY <1>1, <1>2, <1>3, <1>4, <1>5, <1>6, <1>7, <1>8 DEF IInv

(* The inductive invariant holds in every reachable state, for any         *)
(* branches, bounds, workers and merge requests.                           *)
THEOREM PullRequestInvariant == Spec => []IInv
<1>1. Init => IInv
  BY InitInv
<1>2. IInv /\ [Next]_vars => IInv'
  BY StepInv
<1> QED
  BY <1>1, <1>2, PTL DEF Spec

(* Type correctness.                                                       *)
THEOREM PullRequestTypes == Spec => []TypeOK
<1>1. IInv => TypeOK
  BY DEF IInv
<1> QED
  BY <1>1, PullRequestInvariant, PTL

(* No result about branches that have moved on stays without a check to    *)
(* come, and nothing stays at "checking": the tests and writes of          *)
(* markPullRequestAsMergeable and markPullRequestStatusAsChecking, in      *)
(* whatever order pushes, merges and checks interleave.                    *)
THEOREM RecheckIsComing == Spec => []RecheckComing
<1>1. IInv => RecheckComing
  BY DEF IInv
<1> QED
  BY <1>1, PullRequestInvariant, PTL

(* A scheduled automerge is not forgotten (automerge.go, automergequeue):  *)
(* in whatever order the schedule, the commit status and the result of the *)
(* check come, the last of them finds the others, or somebody else does.   *)
THEOREM ScheduleIsKept == Spec => []ScheduleKept
<1>1. IInv => ScheduleKept
  <2> SUFFICES ASSUME DueBacked PROVE ScheduleKept
    BY DEF IInv
  <2>1. Settling => \E t \in TaskAt : tasks[t] > 0
    BY DEF Settling, SettlesAt, TaskAt
  <2>2. \A m \in Mergers : OnItsWay(m) => req[m].pc # "idle"
    BY DEF OnItsWay
  <2> QED
    BY <2>1, <2>2 DEF DueBacked, Backed, ScheduleKept
<1> QED
  BY <1>1, PullRequestInvariant, PTL

(* A merge request that names a head commit merges this commit, though the *)
(* branch is pushed to at any time before and during the merge.            *)
THEOREM AskedIsMerged == Spec => []ExpectedHead
<1>1. IInv => ExpectedHead
  BY DEF IInv
<1> QED
  BY <1>1, PullRequestInvariant, PTL

(* A merged pull request keeps its merge commit and its status: neither a  *)
(* second merge nor a check overwrites them.                               *)
THEOREM MergedStays == Spec => MergedOnce
<1>1. IInv /\ [Next]_vars => [merged # 0 => UNCHANGED <<merged, status>>]_vars
  BY MergedStep DEF IInv
<1> QED
  BY <1>1, PullRequestInvariant, PTL DEF Spec, MergedOnce

===============================================================================

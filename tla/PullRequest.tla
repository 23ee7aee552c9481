------------------------------ MODULE PullRequest ------------------------------
(***************************************************************************)
(* The life of one pull request: the conflict check and its unique queue   *)
(* (services/pull/check.go), the tasks started by pushes (pull.go), merges *)
(* and marks as merged (merge.go, hook_post_receive.go), the automerge and *)
(* its queue (services/automerge, automergequeue), closing and reopening,  *)
(* and reviews as far as they hold up and wake the automerge (review.go).  *)
(*                                                                         *)
(* Commits of the head branch are numbered in the order of the pushes; a   *)
(* commit of the base branch is a record of what it contains of the head   *)
(* branch.  A push and the start of its task are one step: the push queue  *)
(* between them is persistent.  Merges of other pull requests are pushes   *)
(* to the base branch.  Pushes to a merged or closed pull request start    *)
(* tasks that find nothing to do.                                          *)
(*                                                                         *)
(* Not modelled: failures of git and of the database (except of the        *)
(* conflict test and of the push of a merge), forced pushes to the base    *)
(* branch, the agit flow, permissions and branch protection other than     *)
(* commit statuses and reviews, dependencies on other issues, the checks   *)
(* when a protection rule changes.                                         *)
(***************************************************************************)
EXTENDS Integers, Sequences, FiniteSets

CONSTANTS
  MaxHead,     \* bound: commits of the head branch
  MaxBase,     \* bound: commits of the base branch
  Conflicts,   \* pairs of a head and a base commit that cannot be merged
  Settings,    \* the settings to be considered: see Setting
  Workers,     \* handlers of the queue pr_patch_checker
  Mergers,     \* goroutines of merge requests and of the queue pr_auto_merge
  MaxTasks,    \* bound: tasks at work when a push, a view or a reopening comes
  MaxEvents    \* bound: pushes, statuses, reviews, requests of users, crashes

HeadCommit == 1..MaxHead
BaseTip == 1..MaxBase

(* DelayCheckForInactiveDays >= 0; whether the protection of the base      *)
(* branch requires commit statuses and approvals.                          *)
Setting == [delays : BOOLEAN, statuses : BOOLEAN, approvals : BOOLEAN]

ASSUME PullRequestAssumption ==
  /\ MaxHead \in Nat \ {0} /\ MaxBase \in Nat \ {0}
  /\ Conflicts \subseteq HeadCommit \X BaseTip
  /\ Settings \subseteq Setting /\ Settings # {}
  /\ Workers \in Nat \ {0}
  /\ MaxTasks \in Nat /\ MaxEvents \in Nat
  /\ Mergers \cap {"free", "check"} = {}

VARIABLES
  \* git
  head,        \* the commit of the head branch
  base,        \* the commits of the base branch, in their order
  refHead,     \* refs/pull/N/head in the base repository
  passed,      \* head commits with the required commit statuses
  \* the database
  status,      \* pull_request.status
  merged,      \* pull_request.merged_commit_id, 0 without has_merged
  closed,      \* issue.is_closed
  scheduled,   \* there is a row in pull_auto_merge
  approved,    \* there are the approvals required and no rejection
  \* queues, the lock and the processes
  queued,      \* the pull request is in pr_patch_checker
  mergeQueue,  \* the commits of the items of pr_auto_merge
  lock,        \* the working lock: "free", "check" or who holds it
  popped,      \* handlers of pr_patch_checker that wait for the lock
  check,       \* the handler that has the lock
  req,         \* the requests and the handlers of pr_auto_merge
  tasks,       \* how many tasks are at each place: see TaskAt
  announcing,  \* commits whose new status is not notified yet
  \* settings, bounds and what the properties refer to
  settings, events,
  tested,      \* head and base commits of the last stored result
  missed       \* what was given up since a check was last queued: checks, see
               \*    RecheckComing, and items of pr_auto_merge, see ScheduleKept

git == <<head, base, refHead, passed>>
row == <<status, merged, closed, scheduled, approved, tested>>
queues == <<queued, mergeQueue>>
procs == <<lock, popped, check, req>>
counters == <<settings, events>>
vars == <<git, row, queues, procs, tasks, announcing, counters, missed>>

Outcome == {"mergeable", "conflict", "empty", "ancestor"}
Status == Outcome \cup {"checking", "error", "manual"}

TaskAt == ({"head", "base"} \X {"list", "mark", "reread", "push"})
     \cup ({"reopen"} \X {"mark", "reread", "push", "open"})
     \cup {<<"view", "push">>, <<"head", "hook">>, <<"head", "reviews">>}

(* A commit of the base branch: the head commits it contains are those up  *)
(* to has; asked is the commit a merge request named, 0 if none.           *)
BaseCommit == [has : 0..MaxHead, asked : 0..MaxHead]

(* refused: the check could not mark the pull request as merged.           *)
NoCheck == [pc |-> "idle", refused |-> FALSE, head |-> 1, base |-> 1, result |-> "mergeable"]
Check == [pc : {"idle", "detect", "head", "base", "queue", "store", "wake"},
          refused : BOOLEAN, head : HeadCommit, base : BaseTip, result : Outcome]

NoRequest == [pc |-> "idle", asked |-> 0, ready |-> FALSE, head |-> 1, base |-> 1]
Request ==
  [pc : {"idle", "merge", "fetch", "push", "hook", "manual",
         "unschedule", "schedule", "dismiss", "wake", "auto"},
   asked : 0..MaxHead, ready : BOOLEAN, head : HeadCommit, base : BaseTip]

TypeOK ==
  /\ head \in HeadCommit /\ refHead \in HeadCommit /\ passed \subseteq HeadCommit
  /\ base \in Seq(BaseCommit) /\ Len(base) \in BaseTip
  /\ status \in Status /\ merged \in 0..MaxBase
  /\ closed \in BOOLEAN /\ scheduled \in BOOLEAN /\ approved \in BOOLEAN
  /\ queued \in BOOLEAN /\ mergeQueue \subseteq HeadCommit
  /\ lock \in {"free", "check"} \cup Mergers /\ popped \in 0..Workers
  /\ check \in Check /\ req \in [Mergers -> Request]
  /\ tasks \in [TaskAt -> Nat] /\ announcing \subseteq HeadCommit
  /\ settings \in Setting /\ events \in 0..MaxEvents
  /\ tested \in HeadCommit \X BaseTip
  /\ missed \subseteq {"closed", "postponed", "overwritten", "reopened", "unready",
                     "unannounced", "skipped", "crash"}

-----------------------------------------------------------------------------
Init ==
  /\ head = 1 /\ base = <<[has |-> 0, asked |-> 0]>> /\ refHead = 1
  \* NewPullRequest tests the branches before it inserts the row
  /\ status = "mergeable" /\ tested = <<1, 1>>
  /\ merged = 0 /\ closed = FALSE /\ scheduled = FALSE
  /\ queued = FALSE /\ mergeQueue = {}
  /\ lock = "free" /\ popped = 0 /\ check = NoCheck
  /\ req = [m \in Mergers |-> NoRequest]
  /\ tasks = [t \in TaskAt |-> 0] /\ announcing = {}
  /\ settings \in Settings /\ events = 0 /\ missed = {}
  /\ passed = IF settings.statuses THEN {} ELSE HeadCommit
  /\ approved = ~settings.approvals

Now == <<head, Len(base)>>
Contained == base[Len(base)].has

(* More work from outside is accepted while there is room (bound).         *)
Room == Cardinality({t \in TaskAt : tasks[t] > 0}) < MaxTasks
Event == events < MaxEvents /\ events' = events + 1
Spawn(t) == tasks' = [tasks EXCEPT ![t] = @ + 1]
Ended(t) == tasks' = [tasks EXCEPT ![t] = @ - 1]
Moved(t, u) == tasks' = [tasks EXCEPT ![t] = @ - 1, ![u] = @ + 1]

(* Mutant: the condition on has_merged is left out.                        *)
SetStatusAnyway(st) == status' = st

(* UpdateColsIfNotMerged                                                   *)
SetStatusIfNotMerged(st) == status' = IF merged = 0 THEN st ELSE status

(* SetMerged: the row, the issue and the schedule in one transaction, and  *)
(* nothing at all if the issue is closed or the row says merged.           *)
CanSetMerged == merged = 0 /\ ~closed

(* Mutant: the status is a new one.                                        *)
SetMergedToNewStatus(c, st) ==
  IF CanSetMerged
  THEN merged' = c /\ closed' = TRUE /\ scheduled' = FALSE /\ status' = "merged"
  ELSE UNCHANGED <<merged, closed, scheduled, status>>

SetMerged(c, st) ==
  IF CanSetMerged
  THEN merged' = c /\ closed' = TRUE /\ scheduled' = FALSE /\ status' = st
  ELSE UNCHANGED <<merged, closed, scheduled, status>>

(* Mutant: what is at work counts as queued.                               *)
AlreadyQueuedOrAtWork == queued \/ popped > 0 \/ check.pc # "idle"

(* Push of a unique queue: what is in it already is not added again.       *)
AlreadyQueued == queued
AddPullRequestToCheckQueue ==
  /\ queued' = (queued \/ ~AlreadyQueued)
  /\ missed' = {}

-----------------------------------------------------------------------------
(* Pushes and commit statuses                                              *)

PushHead ==
  /\ Event
  /\ head < MaxHead /\ Room
  /\ head' = head + 1
  /\ Spawn(<<"head", "hook">>)
  /\ UNCHANGED <<base, refHead, passed, row, queues, procs, announcing, settings, missed>>

(* The hook of the push moves the ref, then the task is started.           *)
UpdatePullsRefs ==
  /\ tasks[<<"head", "hook">>] > 0
  /\ refHead' = IF merged = 0 /\ ~closed THEN head ELSE refHead  \* PushToBaseRepo
  /\ Moved(<<"head", "hook">>, <<"head", "list">>)
  /\ UNCHANGED <<head, base, passed, row, queues, procs, announcing, counters, missed>>

(* Somebody pushes to the base branch, or merges the head branch by hand.  *)
PushBase ==
  /\ Event
  /\ Len(base) < MaxBase /\ Room
  /\ \E h \in {Contained, head} : base' = Append(base, [has |-> h, asked |-> 0])
  /\ Spawn(<<"base", "list">>)
  /\ UNCHANGED <<head, refHead, passed, row, queues, procs, announcing, settings, missed>>

(* A success is announced, whether or not it is the last one required.     *)
Succeeds(h) ==
  /\ passed' \in {passed, passed \cup {h}}
  /\ announcing' = announcing \cup {h} /\ UNCHANGED missed

(* A skipped status counts as well, but is not announced.                  *)
IsSkipped(h) ==
  /\ h \notin passed /\ passed' = passed \cup {h}
  /\ missed' = IF h = head THEN missed \cup {"skipped"} ELSE missed
  /\ UNCHANGED announcing

(* A status fails, or is pending again.                                    *)
FailsAgain(h) ==
  h \in passed /\ passed' = passed \ {h} /\ UNCHANGED <<announcing, missed>>

CreateCommitStatus(h) ==
  /\ Event
  /\ settings.statuses /\ h <= head
  /\ Succeeds(h) \/ IsSkipped(h) \/ FailsAgain(h)
  /\ UNCHANGED <<head, base, refHead, row, queues, procs, tasks, settings>>

StartPRCheckAndAutoMergeBySHA(h) ==
  /\ h \in announcing
  /\ announcing' = announcing \ {h}
  /\ mergeQueue' = IF refHead = h /\ merged = 0 /\ status = "mergeable"
                     THEN mergeQueue \cup {h} ELSE mergeQueue
  /\ UNCHANGED <<git, row, queued, procs, tasks, counters, missed>>

-----------------------------------------------------------------------------
(* AddTestPullRequestTask, and the other callers of StartPullRequestCheck: *)
(* a reopening and a view of the page                                      *)

List(k) ==
  /\ tasks[<<k, "list">>] > 0
  /\ IF merged = 0 /\ ~closed
     THEN /\ Moved(<<k, "list">>, <<k, "mark">>)
          /\ refHead' = IF k = "head" THEN head ELSE refHead  \* PushToBaseRepo
          /\ UNCHANGED missed
     ELSE /\ Ended(<<k, "list">>)
          /\ missed' = missed \cup {"closed"}
          /\ UNCHANGED refHead
  /\ UNCHANGED <<head, base, passed, row, queues, procs, announcing, counters>>

Mark(k) ==
  /\ tasks[<<k, "mark">>] > 0
  /\ SetStatusIfNotMerged("checking")
  /\ Moved(<<k, "mark">>, <<k, "reread">>)
  /\ UNCHANGED <<git, merged, closed, scheduled, approved, tested, queues, procs, announcing, counters, missed>>

(* A task of a reopening goes on to reopen, one of the head branch to the  *)
(* reviews, where they count; the others end.                              *)
Leaves(k, pc) ==
  IF k = "reopen" THEN Moved(<<k, pc>>, <<k, "open">>)
  ELSE IF k = "head" /\ settings.approvals THEN Moved(<<k, pc>>, <<k, "reviews">>)
  ELSE Ended(<<k, pc>>)

Reread(k) ==
  /\ tasks[<<k, "reread">>] > 0
  /\ IF status = "checking"
     THEN Moved(<<k, "reread">>, <<k, "push">>) /\ UNCHANGED missed
     ELSE Leaves(k, "reread") /\ missed' = missed \cup {"overwritten"}
  /\ UNCHANGED <<git, row, queues, procs, announcing, counters>>

QueueCheck(k) ==
  /\ tasks[<<k, "push">>] > 0
  /\ k = "view" => lock = "free"  \* TryLockAndDo
  /\ AddPullRequestToCheckQueue
  /\ Leaves(k, "push")
  /\ UNCHANGED <<git, row, mergeQueue, procs, announcing, counters>>

(* StartPullRequestCheckDelayable: the pull request is inactive.           *)
Postpone ==
  /\ tasks[<<"base", "push">>] > 0 /\ settings.delays
  /\ Ended(<<"base", "push">>)
  /\ missed' = missed \cup {"postponed"}
  /\ UNCHANGED <<git, row, queues, procs, announcing, counters>>

(* automergequeue.StartPRCheckAndAutoMerge, with the status in memory      *)
StartPRCheckAndAutoMerge(ready) ==
  mergeQueue' = IF ready THEN mergeQueue \cup {refHead} ELSE mergeQueue

(* The protection dismisses the approvals, which is notified, or reviews   *)
(* of older commits become stale and those of the new commit are not.      *)
LookThroughReviews ==
  /\ tasks[<<"head", "reviews">>] > 0
  /\ Ended(<<"head", "reviews">>)
  /\ \/ approved' = FALSE /\ StartPRCheckAndAutoMerge(merged = 0 /\ status = "mergeable")
     \/ approved' \in BOOLEAN /\ UNCHANGED mergeQueue
  /\ missed' = IF approved' /\ ~approved THEN missed \cup {"unannounced"} ELSE missed
  /\ UNCHANGED <<git, status, merged, closed, scheduled, tested, queued, procs,
                 announcing, counters>>

StartPullRequestCheckOnView ==
  /\ Event
  /\ status = "checking" /\ Room
  /\ Spawn(<<"view", "push">>)
  /\ UNCHANGED <<git, row, queues, procs, announcing, settings, missed>>

(* TryLockAndDo finds the lock taken.                                      *)
ViewInVain ==
  /\ tasks[<<"view", "push">>] > 0 /\ lock # "free"
  /\ Ended(<<"view", "push">>)
  /\ UNCHANGED <<git, row, queues, procs, announcing, counters, missed>>

CloseIssue ==
  /\ Event
  /\ ~closed /\ merged = 0
  /\ closed' = TRUE
  /\ UNCHANGED <<git, status, merged, scheduled, approved, tested, queues, procs, tasks,
                 announcing, settings, missed>>

(* A check is queued first, then the issue is reopened.                    *)
NewComment ==
  /\ Event
  /\ closed /\ merged = 0 /\ Room
  /\ Spawn(<<"reopen", "mark">>)
  /\ UNCHANGED <<git, row, queues, procs, announcing, settings, missed>>

ReopenIssue ==
  /\ tasks[<<"reopen", "open">>] > 0
  /\ closed' = FALSE
  /\ Ended(<<"reopen", "open">>)
  /\ missed' = missed \cup {"reopened"}
  /\ UNCHANGED <<git, status, merged, scheduled, approved, tested, queues, procs, announcing, counters>>

-----------------------------------------------------------------------------
(* checkPullRequestMergeable, under the working lock                       *)

Running == IF check.pc = "idle" THEN 0 ELSE 1

CheckPop ==
  /\ queued /\ popped + Running < Workers
  /\ queued' = FALSE /\ popped' = popped + 1
  /\ UNCHANGED <<git, row, mergeQueue, lock, check, req, tasks, announcing, counters, missed>>

CheckStart ==
  /\ popped > 0 /\ lock = "free"
  /\ popped' = popped - 1
  /\ IF merged = 0
     THEN lock' = "check" /\ check' = [check EXCEPT !.pc = "detect"]
     ELSE UNCHANGED <<lock, check>>
  /\ UNCHANGED <<git, row, queues, req, tasks, announcing, counters, missed>>

CheckAt(pc) == check.pc = pc
CheckTo(pc) == check' = [check EXCEPT !.pc = pc] /\ UNCHANGED lock
CheckDoneLocked == check' = NoCheck /\ UNCHANGED lock
CheckDone == check' = NoCheck /\ lock' = "free"

(* getMergeCommit: the first base commit that contains the head.           *)
Merges(c) == base[c].has >= refHead /\ \A d \in 1..(c - 1) : base[d].has < refHead

(* manuallyMerged, where AutodetectManualMerge is on                       *)
ManuallyMerged ==
  /\ CheckAt("detect") /\ CanSetMerged
  /\ \E c \in DOMAIN base : Merges(c) /\ SetMerged(c, "manual")
  /\ CheckDone
  /\ UNCHANGED <<git, approved, tested, queues, popped, req, tasks, announcing, counters, missed>>

(* There is nothing to detect or detection is off; or SetMerged fails, and *)
(* in memory has_merged stays set: nobody is woken at the end.             *)
NotManuallyMerged ==
  /\ CheckAt("detect")
  /\ \E refused \in BOOLEAN :
       /\ refused => ~CanSetMerged /\ \E c \in DOMAIN base : Merges(c)
       /\ check' = [check EXCEPT !.pc = "head", !.refused = refused]
  /\ UNCHANGED <<git, row, queues, lock, popped, req, tasks, announcing, counters, missed>>

CheckHead ==
  /\ CheckAt("head")
  /\ check' = [check EXCEPT !.pc = "base", !.head = head]
  /\ UNCHANGED <<git, row, queues, lock, popped, req, tasks, announcing, counters, missed>>

(* What the test finds: whether a commit of the head branch that is in the *)
(* base branch is an ancestor depends on how it came there.                *)
Outcomes(h, b) ==
  IF base[b].has >= h THEN {"ancestor", "empty"}
  ELSE IF <<h, b>> \in Conflicts THEN {"conflict"} ELSE {"mergeable"}

CheckBase ==
  /\ CheckAt("base")
  /\ \E res \in Outcomes(check.head, Len(base)) :
       check' = [check EXCEPT !.pc = "queue", !.base = Len(base), !.result = res]
  /\ UNCHANGED <<git, row, queues, lock, popped, req, tasks, announcing, counters, missed>>

(* Git fails: the status is stored whatever happened to the row.           *)
CheckFails ==
  /\ CheckAt("head") \/ CheckAt("base")
  /\ status' = "error"
  /\ CheckDone
  /\ UNCHANGED <<git, merged, closed, scheduled, approved, tested, queues, popped, req, tasks,
                 announcing, counters, missed>>

(* markPullRequestAsMergeable: is the pull request queued again?           *)
CheckQueue ==
  /\ CheckAt("queue")
  /\ IF queued THEN CheckDone ELSE CheckTo("store")
  /\ UNCHANGED <<git, row, queues, popped, req, tasks, announcing, counters, missed>>

CheckStore ==
  /\ CheckAt("store")
  /\ SetStatusIfNotMerged(check.result)
  /\ tested' = IF merged = 0 THEN <<check.head, check.base>> ELSE tested
  /\ CheckTo("wake")
  /\ UNCHANGED <<git, merged, closed, scheduled, approved, queues, popped, req, tasks,
                 announcing, counters, missed>>

(* Mutant: no automerge is looked for.                                     *)
ScheduledIgnored == FALSE

Scheduled == scheduled

CheckWake ==
  /\ CheckAt("wake")
  /\ StartPRCheckAndAutoMerge(Scheduled /\ check.result = "mergeable" /\ ~check.refused)
  /\ CheckDone
  /\ UNCHANGED <<git, row, queued, popped, req, tasks, announcing, counters, missed>>

-----------------------------------------------------------------------------
(* Merge requests: CheckPullMergeable, then Merge, MergedManually or       *)
(* ScheduleAutoMerge                                                       *)

At(m, pc) == req[m].pc = pc
To(m, pc) == req' = [req EXCEPT ![m].pc = pc]
Leave(m) == req' = [req EXCEPT ![m] = NoRequest]

CanBeMerged == status \in {"mergeable", "empty"}

(* The request reads the row; from here on it does not read it again.      *)
MergePullRequest(m) ==
  /\ Event
  /\ At(m, "idle")
  /\ merged = 0 /\ ~closed
  /\ \E how \in {"merge", "manual", "unschedule"}, asked \in {0, head} :
       /\ how # "manual" => CanBeMerged
       /\ how # "merge" => asked = 0
       /\ req' = [req EXCEPT ![m] = [NoRequest EXCEPT !.pc = how, !.asked = asked,
                                                      !.ready = (status = "mergeable")]]
  /\ UNCHANGED <<git, row, queues, lock, popped, check, tasks, announcing, settings, missed>>

DeleteScheduledAutoMerge(m) ==
  /\ At(m, "unschedule")
  /\ scheduled' = FALSE
  /\ To(m, "schedule")
  /\ UNCHANGED <<git, status, merged, closed, approved, tested, queues, lock, popped, check,
                 tasks, announcing, counters, missed>>

ScheduleAutoMerge(m) ==
  /\ At(m, "schedule")
  /\ scheduled' = TRUE
  /\ IF scheduled THEN Leave(m) ELSE To(m, "wake")
  /\ UNCHANGED <<git, status, merged, closed, approved, tested, queues, lock, popped, check,
                 tasks, announcing, counters, missed>>

(* Here and after a dismissal; the status is the one read at the start.    *)
ScheduleWake(m) ==
  /\ At(m, "wake")
  /\ StartPRCheckAndAutoMerge(req[m].ready)
  /\ missed' = IF req[m].ready \/ status # "mergeable" THEN missed
               ELSE missed \cup {"unready"}
  /\ Leave(m)
  /\ UNCHANGED <<git, row, queued, lock, popped, check, tasks, announcing, counters>>

RemoveScheduledAutoMerge ==
  /\ Event
  /\ scheduled
  /\ scheduled' = FALSE
  /\ UNCHANGED <<git, status, merged, closed, approved, tested, queues, procs, tasks,
                 announcing, settings, missed>>

MergedManually(m) ==
  /\ At(m, "manual") /\ lock = "free"
  /\ \E c \in DOMAIN base : SetMerged(c, "manual")
  /\ Leave(m)
  /\ UNCHANGED <<git, approved, tested, queues, lock, popped, check, tasks, announcing, counters, missed>>

(* handlePullRequestAutoMerge reads the pull request and then the rest.    *)
AutoMergePop(m) ==
  /\ At(m, "idle")
  /\ \E sha \in mergeQueue :
       /\ mergeQueue' = mergeQueue \ {sha}
       /\ req' = [req EXCEPT ![m] = [NoRequest EXCEPT !.pc = "auto", !.asked = sha,
                                                      !.ready = (merged = 0 /\ CanBeMerged)]]
  /\ UNCHANGED <<git, row, queued, lock, popped, check, tasks, announcing, counters, missed>>

AutoMergeTest(m) ==
  /\ At(m, "auto")
  /\ IF scheduled /\ refHead = req[m].asked /\ head \in passed /\ req[m].ready /\ ~closed
          /\ approved
     THEN req' = [req EXCEPT ![m].pc = "merge", ![m].asked = 0]
     ELSE Leave(m)
  /\ UNCHANGED <<git, row, queues, lock, popped, check, tasks, announcing, counters, missed>>

(* The lock; then createTemporaryRepoForPR fetches the base branch and the *)
(* head branch.                                                            *)
MergeLock(m) ==
  /\ At(m, "merge") /\ lock = "free"
  /\ lock' = m
  /\ req' = [req EXCEPT ![m].pc = "fetch", ![m].base = Len(base)]
  /\ UNCHANGED <<git, row, queues, popped, check, tasks, announcing, counters, missed>>

(* The end of Merge, on success and on error: the lock is released and     *)
(* AddTestPullRequestTask started for the base branch.                     *)
MergeEnds(m) ==
  /\ lock' = "free"
  /\ Spawn(<<"base", "list">>)
  /\ Leave(m)

(* Mutant: the ref is compared, not the head.                              *)
ExpectedRef(m, h) == req[m].asked \in {0, refHead}

Expected(m, h) == req[m].asked \in {0, h}

(* The commit, in the temporary repository: an empty one is made only by   *)
(* a squash.                                                               *)
CommitMerge(m) ==
  /\ At(m, "fetch") /\ Expected(m, head)
  /\ <<head, req[m].base>> \notin Conflicts \/ base[req[m].base].has >= head
  /\ req' = [req EXCEPT ![m].pc = "push", ![m].head = head]
  /\ UNCHANGED <<git, row, queues, lock, popped, check, tasks, announcing, counters, missed>>

CommitFails(m) ==
  /\ At(m, "fetch")
  /\ \/ ~Expected(m, head)
     \/ <<head, req[m].base>> \in Conflicts
     \/ base[req[m].base].has >= head
  /\ MergeEnds(m)
  /\ UNCHANGED <<git, row, queues, popped, check, announcing, counters, missed>>

PushMerge(m) ==
  /\ At(m, "push")
  /\ Len(base) = req[m].base /\ Len(base) < MaxBase
  /\ base' = Append(base, [has |-> req[m].head, asked |-> req[m].asked])
  /\ To(m, "hook")
  /\ UNCHANGED <<head, refHead, passed, row, queues, lock, popped, check, tasks,
                 announcing, counters, missed>>

(* The base branch has moved on, or a hook rejects the push.               *)
PushRejected(m) ==
  /\ At(m, "push")
  /\ MergeEnds(m)
  /\ UNCHANGED <<git, row, queues, popped, check, announcing, counters, missed>>

(* hookPostReceiveHandlePullRequestMerging, while git push waits for it; a *)
(* failure does not undo the push.                                         *)
HookPostReceive(m) ==
  /\ At(m, "hook")
  /\ SetMerged(req[m].base + 1, status)
  /\ MergeEnds(m)
  /\ UNCHANGED <<git, approved, tested, queues, popped, check, announcing, counters, missed>>

-----------------------------------------------------------------------------
(* Reviews. What one of them means for the protection depends on the       *)
(* others; reviews matter where approvals are required.                    *)

(* The review is of commit h, which need not be the head commit any more.  *)
(* An approval is announced for h, like a commit status.                   *)
Reviewable == settings.approvals /\ ~closed

Approve(h) ==
  /\ Event
  /\ Reviewable /\ h <= head
  /\ approved' \in {approved, TRUE}
  /\ announcing' = announcing \cup {h}
  /\ missed' = IF approved' /\ ~approved /\ h # head THEN missed \cup {"unannounced"} ELSE missed
  /\ UNCHANGED <<git, status, merged, closed, scheduled, tested, queues, procs, tasks, settings>>

Reject ==
  /\ Event
  /\ Reviewable
  /\ approved' = FALSE
  /\ UNCHANGED <<git, status, merged, closed, scheduled, tested, queues, procs, tasks,
                 announcing, settings, missed>>

(* The request reads the pull request, then dismisses a review.            *)
DismissReview(m) ==
  /\ Event
  /\ Reviewable /\ merged = 0
  /\ At(m, "idle")
  /\ req' = [req EXCEPT ![m] = [NoRequest EXCEPT !.pc = "dismiss", !.ready = (status = "mergeable")]]
  /\ UNCHANGED <<git, row, queues, lock, popped, check, tasks, announcing, settings, missed>>

ReviewDismissed(m) ==
  /\ At(m, "dismiss")
  /\ approved' \in BOOLEAN
  /\ To(m, "wake")
  /\ UNCHANGED <<git, status, merged, closed, scheduled, tested, queues, lock, popped, check,
                 tasks, announcing, counters, missed>>

(* Taking a dismissal back notifies nobody.                                *)
RestoreReview ==
  /\ Event
  /\ Reviewable /\ merged = 0
  /\ approved' \in BOOLEAN
  /\ missed' = IF approved' /\ ~approved THEN missed \cup {"unannounced"} ELSE missed
  /\ UNCHANGED <<git, status, merged, closed, scheduled, tested, queues, procs, tasks,
                 announcing, settings>>

-----------------------------------------------------------------------------
(* The server is killed and starts again; the queues are on disk.          *)
(* InitializePullRequests.                                                 *)
Crash ==
  /\ Event
  /\ queued' = (queued \/ (~settings.delays /\ status = "checking"))
  /\ lock' = "free" /\ popped' = 0 /\ check' = NoCheck
  /\ req' = [m \in Mergers |-> NoRequest]
  /\ tasks' = [t \in TaskAt |-> 0] /\ announcing' = {}
  /\ missed' = missed \cup {"crash"}
  /\ UNCHANGED <<git, row, mergeQueue, settings>>

Tasks ==
  \/ UpdatePullsRefs
  \/ \E k \in {"head", "base"} : List(k)
  \/ \E k \in {"head", "base", "reopen"} : Mark(k) \/ Reread(k)
  \/ \E k \in {"head", "base", "reopen", "view"} : QueueCheck(k)
  \/ Postpone \/ ViewInVain \/ ReopenIssue \/ LookThroughReviews

CheckSteps ==
  \/ CheckStart \/ ManuallyMerged \/ NotManuallyMerged \/ CheckHead \/ CheckBase
  \/ CheckFails \/ CheckQueue \/ CheckStore \/ CheckWake

RequestSteps(m) ==
  \/ DeleteScheduledAutoMerge(m) \/ ScheduleAutoMerge(m) \/ ScheduleWake(m)
  \/ MergedManually(m) \/ AutoMergeTest(m) \/ ReviewDismissed(m)
  \/ MergeLock(m) \/ CommitMerge(m) \/ CommitFails(m) \/ PushMerge(m) \/ PushRejected(m)
  \/ HookPostReceive(m)

Users ==
  \/ PushHead \/ PushBase \/ \E h \in HeadCommit : CreateCommitStatus(h)
  \/ StartPullRequestCheckOnView \/ CloseIssue \/ NewComment \/ RemoveScheduledAutoMerge
  \/ \E h \in HeadCommit : Approve(h)
  \/ Reject \/ RestoreReview
  \/ \E m \in Mergers : MergePullRequest(m) \/ DismissReview(m)

Next ==
  \/ Users \/ Tasks \/ CheckPop \/ CheckSteps
  \/ \E m \in Mergers : RequestSteps(m) \/ AutoMergePop(m)
  \/ \E h \in HeadCommit : StartPRCheckAndAutoMergeBySHA(h)
  \/ Crash

Spec == Init /\ [][Next]_vars

(* Goroutines run on, and the queues hand out what is in them.             *)
Fairness ==
  /\ WF_vars(UpdatePullsRefs) /\ \A k \in {"head", "base"} : WF_vars(List(k))
  /\ \A k \in {"head", "base", "reopen"} : WF_vars(Mark(k)) /\ WF_vars(Reread(k))
  /\ \A k \in {"head", "base", "reopen"} : WF_vars(QueueCheck(k))
  /\ WF_vars(ReopenIssue)
  /\ WF_vars(CheckPop) /\ WF_vars(CheckSteps)
  /\ \A m \in Mergers : WF_vars(RequestSteps(m)) /\ WF_vars(AutoMergePop(m))

FairSpec == Spec /\ Fairness

-----------------------------------------------------------------------------
(* A merged pull request stays merged, with the commit recorded first, and *)
(* its status is not overwritten: neither by a second merge request that   *)
(* was checked before the first was done, nor by a conflict check, which   *)
(* stores "error" without the condition has_merged = false.                *)
MergedOnce == [][merged # 0 => UNCHANGED <<merged, status>>]_vars

(* A check that will read the present branches: it is still to be queued,  *)
(* waits, or has read what is there now.  After the push of a merge the    *)
(* task is started by the end of Merge.                                    *)
Coming ==
  \/ queued \/ popped > 0
  \/ \E k \in {"head", "base", "reopen"}, pc \in {"hook", "list", "mark", "reread", "push"} :
       <<k, pc>> \in TaskAt /\ tasks[<<k, pc>>] > 0
  \/ \E m \in Mergers : req[m].pc = "hook"
  \/ check.pc \in {"detect", "head"}
  \/ check.pc = "base" /\ check.head = head
  \/ check.pc \in {"queue", "store"} /\ <<check.head, check.base>> = Now

(* A pull request neither stays at "checking" nor keeps a result about     *)
(* branches that have moved on: a check is coming, unless one was given    *)
(* up, which happens only to a push to a closed or inactive pull request,  *)
(* in a crash, or when an older check stores its result between the two    *)
(* statements of markPullRequestStatusAsChecking.  The status "error" is   *)
(* an exception, too: nothing but a push or a reopening queues a check     *)
(* again that failed.                                                      *)
ChecksGivenUp == missed \cap {"closed", "postponed", "overwritten", "crash"}
RecheckComing ==
  /\ merged = 0 /\ ChecksGivenUp = {}
  /\ status = "checking" \/ tested # Now
  => status = "error" \/ Coming

(* A scheduled automerge is not forgotten: with the schedule, the commit   *)
(* statuses, the approvals and the result of the check all there, in       *)
(* whatever order they came, the pull request is in the queue or somebody  *)
(* is about to put it there or to merge it, unless the last occasion was   *)
(* given up: by a crash, because the check was over before the issue was   *)
(* reopened, because the request that scheduled it or dismissed a review   *)
(* had read an older status, because the approval names an older commit or *)
(* counts again without being announced, or because the last status        *)
(* required is a skipped one.                                              *)
Due ==
  /\ scheduled /\ merged = 0 /\ ~closed /\ status = "mergeable"
  /\ refHead = head /\ head \in passed /\ approved
  /\ missed \cap {"crash", "reopened", "unready", "unannounced", "skipped"} = {}
ScheduleKept ==
  Due => \/ head \in mergeQueue \cup announcing
         \/ check.pc # "idle" \/ queued \/ popped > 0
         \/ \E m \in Mergers : req[m].pc # "idle"
         \/ \E t \in TaskAt : tasks[t] > 0

(* A merge request that names a head commit merges this one, however often *)
(* the branch is pushed to before and while the request is worked on.      *)
ExpectedHead == \A c \in DOMAIN base : base[c].asked \in {0, base[c].has}

(* The status is settled again and again: a check comes to its end and is  *)
(* about the present branches, unless it was given up (see RecheckComing). *)
Settled == merged # 0 \/ ChecksGivenUp # {} \/ status = "error"
             \/ (status # "checking" /\ tested = Now)
SettledAgain == []<>Settled
===============================================================================

# Gitea in TLA+

TLA+ models of the concurrent core of Gitea, checked with TLC and proved with TLAPS.
Paths are relative to the repository; `modules/...` stands for `src/modules/...`, and so on.

The project takes the parts of Gitea that decide something *together with others*: the
queue system on which most background work rests; Gitea Actions, where runners, users, cron
jobs and a queue handler change the same rows; and the life of a pull request, where pushes, conflict checks,
merges and automerges do. The rest of Gitea is mostly request handling, rendering and storage;
it is listed in the inventory with the reason it is left out.

## 1. Inventory

| Component | State | Operations | What is hard | What makes it correct |
|---|---|---|---|---|
| Worker pool queue (`modules/queue/workerqueue.go`, `workergroup.go`, `base.go`) | base queue, popper goroutine, batch buffer and debounce timer, batch channel, workers and their count, flush requests, context | Push, FlushWithContext, RemoveAllItems, SetWorkerMaxNumber, ShutdownWait; popItemByChan, doRun, doDispatchBatchToWorker, doFlush, doWorkerHandle | goroutines meeting on unbuffered channels, idle timeouts, a flush or a shutdown in the middle of a dispatch, handlers that fail, panic or hang | no item lost or doubled, none stranded, flush exclusive and complete, shutdown ends |
| Redis base queue (`modules/queue/base_redis.go`) | a Redis list and a Redis set | PushItem, PopItem, RemoveAll | several commands per operation, several nodes | a set member is backed by a listed item; an acknowledged push is delivered |
| Channel base queue (`base_channel.go`) | a Go channel, a set, a mutex | the same | the mutex is not held while items go through the channel | the same |
| LevelDB base queue (`base_levelqueue*.go`) | a database list and a set | the same | a mutex covers each operation | capacity, order |
| Queue manager (`manager.go`) | table of queues | GetOrMakeQueue, FlushAll | | |
| Actions: tasks (`models/actions/task.go`, `run_job.go`, `tasks_version.go`, `services/actions/task.go`, `clear_tasks.go`, `routers/api/actions/runner`) | rows of jobs and tasks, the tasks version, each runner's copy of it | FetchTask, claim, release, UpdateTask, cancel, StopTask, cron | read-then-write without locks, writes inside and outside transactions, failed requests | one live task per job, no stranded job, no job left waiting unseen unless a wake-up is still owed |
| Actions: job emitter, runs, attempts, concurrency groups (`services/actions/job_emitter.go`, `run.go`, `concurrency.go`, `clear_tasks.go`, `rerun.go`, `approve.go`, `models/actions/run.go`, `run_attempt.go`, `run_job.go`) | needs between jobs, attempt and run status, groups, the emitter's unique queue | insert a run, check a run, rerun, approve, cancel, report | aggregate read and then written, group tested and then occupied, a check that read an older attempt, runs queued after the commit | a job starts only after its needs; one job per group; statuses agree with the jobs; no job left blocked with nobody to wake it |
| Actions: reusable workflows (`reusable_workflow.go`) | caller jobs and their trees | expand | | |
| Pull requests: conflict check (`services/pull/check.go`, `merge_tree.go`, `pull.go`) | status of the pull request, unique queue, working lock | start a check, test, store the result | a push during the test, between two statements, or while closed | the stored result is about the present branches or a check is coming |
| Pull requests: merge, automerge (`services/pull/merge.go`, `merge_prepare.go`, `services/automerge`, `services/automergequeue`, `routers/private/hook_post_receive.go`) | merged flag, head, scheduled merge, queue | Merge, mark as merged, schedule, handle | conditions tested before the lock, a push that the hook cannot record | merged once, with the head that was asked for; a scheduled merge is not forgotten |
| Global locks (`modules/globallock`) | held keys, expiry in Redis | Lock, TryLock, release, extend | expiry while the holder is stalled | mutual exclusion |
| Graceful manager, process manager, cron (`modules/graceful`, `modules/process`, `services/cron`) | contexts, wait groups, running tasks | start, hammer, terminate | ordering of the shutdown phases | everybody is waited for |
| Webhooks, mirrors, indexers, mail | consumers of queues | | delivery and retry | |
| Everything else (git, repositories, issues, packages, permissions, web, API, migrations, settings) | database rows, git repositories, files | | | not modelled: data and I/O, little interleaving of its own |

**Interaction.** Web requests, hooks and cron push items to queues; handlers take batches of them.
Unique queues are used as "something has to be looked at again" signals: their callers treat
`ErrAlreadyInQueue` as success (`services/actions/job_emitter.go:33`, `services/pull/check.go:71`,
`services/mirror/mirror.go:77`, `services/automergequeue/automergequeue.go:21`,
`services/indexer/issues/util.go:189`), so what a base queue does with an acknowledged
item decides whether those components make progress. Actions requests communicate only through rows: a runner
fetches a task, which claims a job; a result frees the job and the emitter, a queue handler, makes
blocked jobs ready; the tasks version tells runners that there is something to fetch. A pull request is changed by
tasks that pushes start, by the handlers of two unique queues (conflict checks, automerges) and by requests; a working lock
keeps checks and merges apart, and a merge is recorded by the hook of its own push.

The hazards of this code, each at its line with the properties aimed at it, are in `PROJECT.json`.

## 2. Modules

| Module | What it is |
|---|---|
| `WorkerPoolQueue` | the worker pool queue over one base queue, with all goroutines |
| `QueueContract` | what the queue promises: the life of an item and the modes of the queue |
| `BaseRedis`, `BaseChannel` | the two unique base queues whose operations are not atomic |
| `ActionsTask` | jobs, tasks, runners, cancels and cron tasks of one workflow run |
| `ActionsRun` | runs, attempts, needs, concurrency groups, reruns, approval and the job emitter |
| `RunContract` | what `services/actions` promises about the jobs of runs: how an attempt begins, how a job starts, is claimed, is skipped and ends |
| `PullRequest` | one pull request: conflict checks, merges, automerge, reviews, closing and reopening |
| `MCWorkerPoolQueue`, `MCBaseRedis`, `MCBaseChannel`, `MCActionsTask`, `MCActionsRun`, `MCPullRequest` | small instances and their symmetry |
| `RangeLemmas`, `WorkerPoolQueueProofs`, `BaseRedisProofs`, `ActionsTaskProofs`, `ActionsRunProofs`, `ActionsStartProofs`, `ActionsEmitterProofs`, `PullRequestProofs` | proofs |

Operators marked "Mutant" in the modules are wrong versions of the definition that follows them. No
specification uses them: put in the place of that definition they show that a property would notice the mistake.

### WorkerPoolQueue

| State | Code |
|---|---|
| `base` | the base queue, FIFO with `QueueLength` places |
| `popOpen`, `hand` | `popItemChan` open; the item the popper holds |
| `run` | where the `doRun` goroutine is: its select loop, `doDispatchBatchToWorker`, `doFlush`, or its deferred function |
| `wbuf`, `timer` | `wg.batchBuffer`; `batchDispatchC` is a running timer |
| `batch`, `phase` | the batch a worker (or `doRun` itself) holds and what it is doing with it |
| `workerMaxNum`, `ctxDone` | the field; `ctxRun` is cancelled |
| `asked`, `flushing` | a caller blocked on `flushChan`; the request `doRun` accepted |
| `fate` | bookkeeping: what became of an item |

Unbuffered channel operations are one step for sender and receiver; a Go `select` is a choice between the enabled
actions; a section under `workerNumMu` is one step. A non-blocking send may find no receiver although a
worker is idle, because the worker may not have reached its select. Timers may fire at any time, that is, also
before the other branch of a race. A handler may handle everything, hand back any part of its batch, panic, or never return.
A batch is a set: no handler may rely on its order.

`QueueContract` knows only the status of an item (new, waiting, handling, done, or given up for a reason) and the
mode of the queue (running, flushing, stopping, stopped). It says which reason may occur in which mode, that an
item is with one handler call at a time, that nothing is delivered once the queue is stopping and that an end is an end.

`FlushDrainEnds` follows the code in what it does not ask. A drain ends when 20 ms passed without an item and `Len` was 0, twice; two looks with nothing between them
decide as the last one does. The error of `Len` is dropped, and a `Len` that fails returns 0, so with a storage that may fail (`BaseMayFail`) the drain may end over a base queue that is not empty. Nobody asks
whether the popper holds an item: it may have popped one and not have reached its send, so a drain may leave that item. The comment in `doFlush` says that there is "no reliable way to make sure all queue items are
consumed", and `FlushLeavesNothing` promises no more than what is left: nothing in `doRun`, in its buffer or with a worker, and nothing in a base queue whose `Len` answers. The default case of a discarding flush is
taken when the popper is not at its send at that moment, so a discarding flush may end at any moment.

Not modelled: the dummy queue, a crash of the process, `ShutdownTimeout = 0`, the drain of `batchChan` where the
code itself says that it does not happen, unique queues that merge a requeued item with an equal one (see `BaseRedis`).

### BaseRedis, BaseChannel

`BaseRedis`: one action per Redis command. The mutex makes the operations of one node exclude each other, so a
node is one sequence of operations; nodes interleave between commands. `owed` is bookkeeping: the
items somebody was told are in the queue and that were not delivered since. Every command may fail (an error of Redis or of the
connection, a cancelled context, a killed node), executed or not. `PushItem` gives up and leaves the member `SADD` added, `PopItem` polls
again and ignores an error of `SREM`, `RemoveAll` issues its second `DEL` even if the first one failed. `lost` is bookkeeping: the items such a failure took
from the list or left in the set, until they are removed, cleared or pushed anew. The properties except exactly these. A failed
`LLEN` or ping changes nothing. What happens to an item between its delivery and its handling is the business of `WorkerPoolQueue`.

`BaseChannel`: one action per section under `mu` and per channel operation, with `RemoveAll` in its four parts,
because it holds `mu` while it tests the length and receives. One goroutine pops (`popItemByChan`).

### ActionsTask

| State | Code |
|---|---|
| `job`, `claim` | `action_run_job.status`, `.task_id` |
| `task`, `of` | `action_task.status` (or no row); its `job_id` and `runner_id` |
| `version` | whether the tasks version each runner knows is the latest one, an older one, or read by a FetchTask under way |
| `runner` | the request a runner is in, its candidate jobs, its task, its result |
| `stopper` | a cancel of a job, or a cron task, with what it read: job, task, status to set, in a transaction or not |
| `cut` | bookkeeping: an operation was cut short (`"write"`), or a task was released while it was being stopped (`"release"`) |

The database is modelled at read committed: each SQL statement outside a transaction is a step; a transaction's
writes appear at its commit, and the rows it wrote are locked until then. A transaction whose outcome depends on
one conditional `UPDATE` (claim, release, emitter) is one step; `StopTask` inside a transaction is its read, then
the lock of the job row, then the commit. Both kinds of callers exist: `Cancel` in the web router and cron's `stopTasks` use a
transaction, `CleanRepoScheduleTasks` and `CancelAbandonedJobs` do not. Snapshots of MySQL's repeatable read are not
modelled. A failed statement or cancelled request outside a transaction may leave a half-done operation (`ReportCut`, `StopCut`).
Success, failure, cancelled and skipped are one status, `"done"`: nothing here depends on which it is.

Not modelled: steps and logs, throttled picks, disabled and ephemeral runners, labels (every runner can run every job),
several repositories, the first insertion of a version, reusable workflow callers. The status of attempts and runs, and reruns, are in `ActionsRun`.
The wake-up that follows a finished job reads whether jobs wait and bumps in one step. Where the caller passes the job's id only
(`UpdateTaskByState`, `StopTask`), `UpdateRunJob` reads the row again before it (`run_job.go:397`), and a cancel that wrote "cancelling" meanwhile
makes it leave the wake-up out (`WakeIfStillDone`). So an idle, up-to-date runner can miss waiting jobs until that job is ended again by cron; `Owed` in
`WaitingIsOffered` is exactly this case, which TLC found when the property was first stated without it.

### ActionsRun

| State | Code |
|---|---|
| `wf`, `need`, `latest`, `run` | `action_run`: what the run executes, `need_approval`, the number of `latest_attempt_id`, `status` |
| `attempt`, `row` | `action_run_attempt.status`; `action_run_job`: status, task, `is_concurrency_evaluated` |
| `report` | the `UpdateTask` request that holds the run's global lock: between its write of the job, its read of all jobs, its write of the attempt, its read of the run and its write of the run |
| `plans` | the `rerunPlan`s of requests between `buildRerunPlan` and `execRerunPlan`, with the rows of the template they read |
| `freshReports`, `freshPlans` | `action_run.version`, the optimistic lock: the reports and the plans whose run has not been written since they read it |
| `queue`, `handling` | `jobEmitterQueue`; what its handlers read of the run before their transaction |
| `cut`, `asked` | bookkeeping: what troubles occurred; how many needless requests and crashes |

A transaction is one step (SQLite, the default database, runs one after the other). What the code does outside a transaction is several: a report
(`UpdateTaskByState`, `UpdateRunJob`, `UpdateRunAttempt`: write the job, aggregate, store in the attempt, load the run, store in the run) and the emitter (`checkJobsByRunID` reads the run, then the
transaction of `checkJobsOfCurrentRunAttempt` and `checkRunConcurrency`). A runner may report any result, also cancelled and skipped (`StatusFromResult`, `task.go:491`); a task that is cancelling ends cancelled. A report of a
task that is done writes nothing, but asks for a check of the run (`ReportAgain`).

Every update of a run's row raises its version, and `UpdateRun` fails with "run has changed" for whoever read an older one (`models/actions/run.go:51`, `328-347`). `Outdates` says whom a transaction leaves behind: those who read
a run that the transaction writes itself (an approval, a new attempt) or whose latest attempt has a job it writes, also without changing its status (`StoppedAgain`). A plan that is left behind is refused (`RunUnchanged`).
A report that is left behind fails after its task, job and attempt are written, and the request answers with an error before it asks for a check of the run (`ReportRefused`; `task.go:497-504`, `runner.go:224-227`).
The row of the attempt has no version. Inside a transaction every update of a job stores the aggregate, so its result is a function of the rows it leaves. Where
the code goes through rows in the order of a query (jobs of a group inserted, approved or resolved together) any order is allowed by choosing the last one.
`Resolve` states what the rounds of the resolver leave: which jobs start, which are skipped, which of the group are cancelled, and that the transaction
fails when it meets a job it has just cancelled. The runs a transaction woke are in the queue at once; a crash loses any of
them, which is the window between the commit and `EmitJobsIfReadyByRun`.

`cut` names what the properties except: `"overtaken"` (somebody changed the jobs of an attempt between the read of them and the read of the run by a report, so the version could not tell),
`"refused"` (a report found the run changed and gave up), `"superseded"` (a rerun while a check of the older attempt was pending), `"revived"` (an approval restarted a job that was not blocked),
`"unevaluated"` (an approval met jobs whose group had not been evaluated), `"passed"` (a group was released while several runs waited for it), `"crash"`. `StatusAgrees` excepts `"overtaken"`, `"refused"` and `"crash"`; `NoLostWakeup` excepts
all of them; `AttemptDone`, `OneAttemptAlive`, `GroupExclusive`, `NeedsFirst` and `KeepsRunContract` except `"revived"` only. Without `"revived"` these five fail, and without any of its three `StatusAgrees` does. `NoLostWakeup` fails with `"crash"`, with `"refused"` (in a workflow of two independent jobs and a third
that needs one of them), with `"passed"` and with `"unevaluated"`; for `"overtaken"`, `"superseded"` and `"revived"` TLC found no lost wake-up in the instances tried, but the proof needs them: it rests on statuses that agree, on checks of the latest
attempt and on jobs that do not come back. See section 3.

`RunContract` knows the workflow of each run, the number of its latest attempt and the status of each job. `ActionsRun` maps the statuses of its rows to it, and
`spoiled` to `"revived"` in `cut`: after such an approval the contract promises nothing. It says when an attempt may begin and what it takes over from the one before, that a job starts
when all its needs have succeeded and is skipped when that can no longer happen, that it is claimed once and then ends as its runner says or as a cancel demands, and that an end is an end. Groups, locks, reports and the emitter are not in it.

Not modelled: reusable workflow callers, `if` expressions (a job starts when all its needs succeeded), continue-on-error, several groups in a workflow, deletion,
transactions that run at once on other databases, of which two might both find a group free.

### PullRequest

| State | Code |
|---|---|
| `head`, `base`, `refHead`, `passed` | the two branches, `refs/pull/N/head`, commits whose required statuses are there, each a success or skipped |
| `status`, `merged`, `closed`, `scheduled` | `pull_request.status`, `merged_commit_id` with `has_merged`, `issue.is_closed`, a row in `pull_auto_merge` |
| `approved` | the reviews give the approvals that the protection of the base branch requires, and none rejects |
| `queued`, `mergeQueue` | the pull request is in `pr_patch_checker`; items of `pr_auto_merge` |
| `lock` | the working lock `getPullWorkingLockKey` |
| `popped`, `check` | handlers waiting for the lock; the one that has it, with the commits it read |
| `req` | merge requests and automerge handlers, with what they read |
| `tasks` | hooks of pushes to the head branch, goroutines of `AddTestPullRequestTask`, reopenings and views, by the statement they are at |
| `announcing` | commits whose new status or approval is stored and not yet notified |
| `settings` | whether checks of inactive pull requests are delayed, and whether the protection requires statuses and approvals; any choice of `Settings`, fixed at the start |
| `tested`, `missed`, `events` | bookkeeping: commits of the last stored result; what was given up; a bound |

A statement or a git command is a step; the row is read and written by `UpdateColsIfNotMerged` and `SetMerged`. Tasks at the same place are
counted, as they are alike. Commits of the head branch are numbered; a base commit records which of them it contains and the commit the merge
was asked for, so forced pushes to the head branch look like pushes. `Conflicts` says which pairs cannot be merged. A merge
holds the lock from `MergeLock` to the end of its push, but has tested its conditions before; the base may move before `PushMerge`,
which then is rejected. `missed` is emptied when a check is queued, because this check makes up for it. Which reviews count (official, stale, dismissed, of
whom) is left open: a review may or may not change `approved`, and a push to the head branch may take approvals away or make one count again. What the model keeps is who wakes the automerge then:
an approval by the commit it names, a dismissal by the status its request had read, a push that dismisses approvals by the status it finds, everything else not at all.

The hook of a push to the head branch moves `refs/pull/N/head` of an open pull request before the task starts (`UpdatePullsRefs`), and the task moves it again where it lists. A commit status may succeed, be skipped, or
fail or be pending again. A commit passes with skipped statuses as well (`commitstatus.Combine`), but only a success is announced (`notify.go:53`), whether or not it was the last one required. A check that finds the head in the base
branch and whose `SetMerged` fails goes on with `HasMerged` set in memory (`refused`), and therefore wakes no automerge at its end.

Not modelled: failures of git and of the database except those of the conflict test and of the push, forced pushes to the base branch, the agit flow,
permissions, branch protection other than commit statuses and approvals, changes of a protection rule, dependencies on other issues (`SetMerged` refuses while one is open), update and rebase of the head branch (`update.go`; to the others it is a push), an
expired working lock.

## 3. Runs

| Run | Question | Bounds | Result |
|---|---|---|---|
| `queue_safety` | is an item ever lost sight of, doubled, stranded; do flush and shutdown keep their word; does the queue implement its contract | 3 items, one of them corrupted, 2 workers, batch 2, capacity 2, maximum 0 or 2, storage errors | holds, 351 510 states |
| `queue_liveness` | is every accepted item settled; does a shutdown end | 2 items, 2 workers, batch 2, a storage that answers | holds, 124 670 states |
| `queue_flush_loss` | "no item is skipped or lost due to transient failures" | 2 items | violated |
| `queue_hung_flush` | "shutdown should finish in predictable time" with handlers that hang | 2 items | violated |
| `redis_unique` | does a unique queue lose or block items when nodes interleave and commands fail | 3 nodes, 3 items, capacity 2 | holds, 156 852 states |
| `channel_unique` | is an acknowledged item stored | 2 pushers, 2 items | violated |
| `channel_push_blocks` | does Push always return | 2 pushers, 2 items | violated |
| `actions_task` | one live task per job, no stranded job, no lost wake-up, no restart | 2 jobs, 2 tasks, 2 runners (one supports cancelling), 1 stopper | holds, about 2 million states |
| `actions_final` | a final status is final | as above | violated |
| `actions_release` | a released claim strands no job | as above | violated |
| `actions_run` | do statuses agree with the jobs, is one attempt and one job of a group at work at a time, do needs come first, is a wake-up lost, do the jobs go on as `RunContract` says | 2 runs, 4 workflows, 2 attempts, 1 handler, 2 needless requests, the constraints below | holds, 442 194 states |
| `pull_request` | is a stale result always followed by a check, an automerge kept, a merge made once and with its head; is the status settled again and again | 2 head and 3 base commits, 2 settings, 2 workers, 2 mergers, 2 tasks, 3 events | holds, 1 038 045 states |

**Why the bounds are enough to meet the hard cases.** Batch length and capacity two give partial, full and over-full batches and
a base queue that fills up while something is handed back; three items are a batch and one more. Two workers are "the last one"
and "another one"; maximum 0 is the special case of the code, 2 reaches the limit. Three Redis nodes allow an operation
between the two commands of another one while a third exceeds the capacity. Two tasks are a claim and the claim
after a release or by another runner, two jobs are the one that ends and the one that still waits; the two
runners differ in what a cancel does to them.

In `actions_run` the workflows are: a run to be approved that is in the group as a whole, one job of the group, two jobs of the
group that need a third, one job of a group with cancel-in-progress. Two runs of the same group are enough for one to block, cancel and wake the other, the forked
workflow for two jobs of a group that become ready in the same pass. The constraints `OneGroup` (both runs in the same group), `OneForked` (at most one run with three jobs),
`OneTrouble` (one kind of `cut`), `OneRequest` (two runs see two needless requests only if they have the same workflow and it is not the whole group's) and `NoneSkips` (no runner reports a job as skipped while there are two runs; with one
run it may) bound it; `Requests` bounds approvals of approved runs, cancellations, reruns, repeated reports and crashes, `Handlers` the emitter's calls under way. In
`pull_request` the first head commit conflicts with what is pushed to the base branch, so that a push may resolve a conflict; three base commits are the first one, a push and a merge;
two mergers are the request that waited for the lock and the one that had it. The two settings require commit statuses or approvals, with and without delayed checks.
The proofs below do not depend on any of these numbers.

`CHECK_DEADLOCK FALSE` stands where the system may stop: a queue that was shut down, and the run of a workflow whose jobs are done
or whose task ids are used up (`Task` bounds the number of claims), runs that are done, a pull request with nothing left to do. In `channel_push_blocks` a deadlock is what the property is about.
Symmetry is used in safety runs only.

### Fairness

`Scheduling` in `WorkerPoolQueue`: each goroutine that can take a step eventually does (the Go scheduler), timers
fire, a requeue under way goes on, a worker whose context is done ends. Two `select` statements get strong
fairness, because Go chooses at random among ready cases: a case ready again and again is chosen. No fairness
is assumed of producers, administrators or handlers. That a handler eventually succeeds is a hypothesis of
`EveryItemSettled` only (`HandlersSucceed`), since it is the handler's business; shutdown is checked without it. In `BaseChannel`
the mutex starves nobody (Go's mutex hands over after 1 ms), hence strong fairness of the steps that wait for it. `ActionsTask` has
no liveness property: "not stranded" and "no lost wake-up" are stated as invariants about who is left to act; nor has `ActionsRun`, whose
emitter may fail for ever (below). `Fairness` in `PullRequest`: goroutines run on, the queues hand out what is in them, a request or handler that can go on does. Users and views
of the page owe nothing. Weak fairness is enough for `SettledAgain`: an automerge comes round again only through a check that came to its end, and
requests of users are bounded, so merges cannot keep the lock from the checks for ever.

### What the violated runs show

* `queue_flush_loss`: while a flush is on, a batch that fails as a whole is dropped (`workergroup.go:107`), although
  the package comment promises that unhandled items return to the base queue. In the shortest execution no worker runs: the flush is requested, `doFlush` takes the item from the popper and calls the
  handler itself, the handler hands it back, and it is gone.
* `queue_hung_flush`: `doFlush` waits for the workers without a timeout, in the goroutine that would run the shutdown (`workergroup.go:205`);
  without flushes the promise holds, for every handler (`ShutdownFinishesUnlessFlushed`).
* `channel_unique`: the member is added to the set after the item was sent, so it may outlive the item (`base_channel.go:58`) and refuse later pushes.
* `channel_push_blocks`: `RemoveAll` receives with the mutex held after the popper took the last item (`base_channel.go:124`).
* `actions_final`: `StopTask` writes without a condition what it decided from an older read (`models/actions/task.go:552`); a task reported
  as done becomes cancelling again.
* `actions_release`: the same write after the claim was released leaves a cancelling job without a task (`models/actions/task.go:572`). `StrandedOnlyIfCut`
  says that this and a failed write are the only ways to strand a job.

### What the code does that no run states

The properties of `ActionsRun` and `PullRequest` name what they except. These are behaviours TLC showed when they were first stated without the exception, or that the
translation brought to light. No text of the repository says the contrary of most of them, so they are not violated runs.

Actions:
* A report reads the jobs, and a cancel, a claim or the emitter changes them before the report reads the run: the version it then holds is the new one, and the aggregate it stores in attempt and run is out of date
  (`models/actions/run_job.go:446-463`). Nothing computes it again after the last job. The comment at `run_job.go:498` has racing callers arrive at the same status. (`"overtaken"`)
* If the run's row is written after the report read it (an approval, a rerun, a cancel, a claim), `UpdateRun` fails, the attempt keeps the old aggregate, and the request ends without `EmitJobsIfReadyByRun`: jobs that were waiting for
  this one stay blocked unless the runner reports again (`run_attempt.go:127-140`, `task.go:497-504`, `runner.go:224-227`). (`"refused"`)
* An approval does not test whether the run still needs one, writes `waiting` whatever the job is and ignores a group of the whole run (`approve.go:25-56`). (`"revived"`)
* Two jobs of a group that become ready in the same pass: the first cancels the second, the conditional update of the second fails, the
  transaction is rolled back and the item requeued, again and again (`job_emitter.go:299-304`).
* A group of a whole run is free between two of its jobs (`job_emitter.go:244-260`); `GroupExclusive` therefore speaks of jobs that are in a group themselves.
* When a group is released, one of the blocked attempts or jobs in it is looked at (`job_emitter.go:151-168`). If its run awaits approval, or if its jobs are only skipped, the others stay blocked and nothing
  comes back to them: no job is left to end in the group. The second case takes three runs, one more than `MCActionsRun` has; instances with three runs show it. (`"passed"`)
* A run that is rerun while it waits as a whole has jobs whose own group is not evaluated (`rerun.go`, `execRerunPlan`); an approval keeps a job blocked whose group is not evaluated (`clear_tasks.go:63-66`) and
  leaves the others blocked with nobody to look at them. It takes a workflow with a group for the run and for a job. (`"unevaluated"`)
* The runs to check again are queued after the commit (`job_emitter.go:94-103`) and a crash in between loses them; a check that read the older attempt is dropped after a rerun (`:184-232`).
* A job that is rerun alone starts at once although a need that is not run again had failed; if its run has to wait for a group first, the resolver skips it instead.

Pull requests:
* An older check stores its result between the two statements of `markPullRequestStatusAsChecking` (`check.go:58-64`): the task finds the status changed and queues nothing. (`"overwritten"`)
* Pushes listed while the pull request is closed are skipped, and the check of a reopening is queued before the issue is open (`issue_comment.go:108`); an automerge handled in between is
  dropped and not renewed. (`"closed"`, `"reopened"`) The delayed check of an inactive pull request is a further one. (`"postponed"`)
* A request that read the status "empty" while a check stores "mergeable" schedules an automerge that nobody queues; a dismissal, too, wakes it by the status its request had read (`review.go:442`,
  `notify.go:49`). (`"unready"`)
* A skipped commit status counts as a passed one (`modules/commitstatus/commit_status.go:74-79`) but does not wake the automerge (`notify.go:53`): if the last required status is skipped, a scheduled automerge is left alone
  until a check or a success comes. Skipped jobs of Actions post such statuses (`services/actions/commit_status.go:328`). (`"skipped"`)
* An approval may name an older commit and counts unless the protection ignores stale ones, but `StartPRCheckAndAutoMergeBySHA` finds no pull request with that head, although `notify.go:31` says
  "as a missing / blocking reviews could have blocked a pending automerge let's recheck". Taking a dismissal back notifies nobody (`review.go:467`), nor does `MarkReviewsAsNotStale` (`pull.go:475`) when it
  makes an approval count after the wake-up of the check. (`"unannounced"`)
* Approvals are dismissed or marked as stale after the check of the new commit was queued (`pull.go:434`, `:454-478`), so an automerge may merge it with approvals of the old commit.
* `Merge` does not read `has_merged` again under the lock (`merge.go:244`): a second squash merge, or a merge of a newer head, pushes another commit, which the hook then cannot record. The same
  happens if the issue is closed meanwhile: the base branch contains the pull request, which stays open or closed but unmerged.
* The automerge merges whatever the head is by then (`automerge.go:263` names no commit), and one whose push is rejected comes round again by the check its own end starts.
* A schedule request that read the row before a merge may insert its row after it.
* Tasks are goroutines: a crash loses them (the comment at `pull.go:398`), and the start queues only pull requests at "checking", and only if delays are off. (`"crash"`)

## 4. Proofs

All theorems hold for every value of the constants that satisfies the assumptions `QueueAssumption`, `RedisAssumption`, `TaskAssumption`, `ActionsRunAssumption`,
`NamesFinite` and `PullRequestAssumption`: any set of items, jobs, tasks or runners, any number of nodes, workers and stoppers (workers and nodes finite), any workflows with finitely many job names, runs, attempts and groups, any number of
pushes, workers, merge requests and tasks, any conflicts. Bounds such as `MaxEvents` are constants like the others.

* **WorkerPoolQueueProofs.** `Structure` says, for every place of the program, which of the places that can hold items are empty
  (an idle worker has no batch; `doRun` holds one only from the dispatch to its hand-over and while it handles one itself; ...). It is inductive with
  `TypeOK` and is needed because the safety properties speak of the items only: `NothingLostOrDoubled` is preserved by a step that overwrites a
  buffer exactly when that buffer was empty. With it `StoppedIsEmpty` is immediate, `FlushAlone`, `BufferHasTimer`, `BlockedHasWorker` and `NothingLostOrDoubled` are inductive, and
  `FlushLeavesNothing` follows from the last two: when a drain ends the workers are gone and `doRun` holds nothing, so an item still in the queue's care is in the base queue or in the popper's hand, and the base queue is empty unless its `Len` may fail. `BlockedHasWorker` needs a count: a worker leaves only if there is another one.
  Last comes the refinement, `Spec => Contract!Spec` (`Implements`): each action maps to one step of the contract or a stutter, through lemmas on how a step can
  change the statuses. Conservation is needed: an item in two batches would have two statuses.
* **BaseRedisProofs.** The invariants hold by what backs a member: the listed item, the operation that is between its commands, or a failure that `lost` records; a step ends the backing only with the membership. Uniqueness
  needs `UniqueInv`, which adds that an item is not pushed or popped by two nodes at once; the bound on the overflow needs the number of
  nodes between their length test and their append.
* **ActionsTaskProofs.** `IInv` (`TypeOK`, `Requests`, `Rows`) ties what requests remember to the rows: a runner that holds a task owns
  its row; a task row exists exactly as long as its job names it. `OneLiveTask` and `DoneIsNotRestarted` follow. `Wakeful` strengthens
  the lost wake-up property to runners in the middle of a request: while a job waits, whoever will answer or be answered with the latest version
  is still going to see the job or to bump the version, or is owed a wake-up. That uses `Written` (no
  other request makes a job run again between its result and the wake-up) and `Tended`. `Tended` says of each stopper and each
  job who is responsible; its parts about runners with cancelling support explain why a job is
  cancelling only if its runner can end it. `Wakeful` and `Tended` were checked with TLC before they were proved.
* **ActionsRunProofs.** `IInv` is `TypeInv` (types, and rows exist up to the latest attempt), `Fresh` (a report or a plan whose version is still the run's is about the latest attempt, and such a plan's run is done: this is
  what the optimistic lock is good for), the properties `AttemptDone`, `OneAttemptAlive`, `StatusAgrees`, and three parts about what requests and rows remember: `ReportDone` (a report about to store a final status read only finished
  jobs, and finished jobs stay so), `RunDone` (a run that is done has no job to run, whatever the cuts but `"revived"`) and `InSync` (but for `"overtaken"`, `"refused"` and `"crash"`, a report holds what its jobs say, and the attempt it wrote
  agrees). The lemmas say what a cancel, the resolver and the concurrency checks may do to a row (`Kept`: done stays done, a task is not lost), and what the aggregate of a set of statuses means. `OneAttemptAlive` needs `RunDone` and `Fresh`: a rerun is
  allowed because the run was done when the plan read it and has not been written since.
* **ActionsStartProofs.** Extends `IInv` by `StartInv`, for histories without `"revived"` (`InOrder`). Its first half, `NeedsInv`: an attempt has the rows of its workflow (`Placed`); a plan's
  template has ended, is what the rows still say, and its jobs are closed under being needed (`Templates`); and each job that has
  started finds its needs met (`AllMet`, from which `NeedsFirst` follows). The transactions are shown to be `Calm` (nothing starts) or to `Advance` (what starts has its needs), and `AdvancesTrans`
  composes them, as the emitter runs the resolver after the concurrency checks. The second half, `GroupInv`: jobs that wait for a start have no task, blocked jobs whose group is stored belong to it (`Tidy`),
  and one job of a group is out (`Alone`, which is `GroupExclusive`). A transaction is `Tame` if no job of a group comes out, and `Leads` if for each group either none comes out or all others are gone; that
  needs `OthersCancelled`: what `CancelPreviousJobsByJobConcurrency` selects is everything that could be out, given that a blocking job was not found. `NamesFinite` is used by the resolver alone: it asks
  whether more than one job of the group may start, and the number of them says so only for finite sets.
* **ActionsEmitterProofs.** `NoWakeupIsLost` has `WakeInv` as its strengthening: as long as `cut` is empty, every run is `Watched`, that is, `Awake` (a check of it is still to come), or `Quiet`
  (it has nothing to start or to skip), or in a group with a job on its way (`Lively`: its report will queue the run), or `Stuck` on its group, which then is `Busy` as long as the run needs no approval. A group is
  busy while it has a `Keeper`: a run with a job of the group on its way, or one that is awake and will release the group when it is checked. The property alone is not inductive, because it does not say who keeps
  the group, nor that the keeper finds the blocked run. The proof needs of each transaction that it leaves a run quiet or pushes it: the resolver leaves nothing it could start, except in a group (`ResolvedQuiet`);
  whoever cancels a job of another run pushes this run; a new attempt begins only with nobody awake (else `cut` says `"superseded"`). A job that stays blocked by its group was blocked by
  someone, and that this someone is a keeper follows from `StatusAgrees` and `OneAttemptAlive` (`BlockedBySomeone`; a report that was refused would break it, as it would leave the run unwatched), as the code looks at attempts of the group and at jobs of the group separately. `OldDone` and
  `CallsLatest` say that older attempts and older calls of the emitter have no part in it. `WakeInv` was checked with TLC before it was proved.
  `RunsKeepContract` is the refinement of `RunContract`. Each transaction is shown to be legal for every job (it stops it, starts it with its needs succeeded, or skips it), and legality composes (`LegalTrans`), as a
  transaction cancels, starts and resolves in turn. That the attempt before a new one is over comes from `Templates` of `StartInv` and `RunDone`; that a cancel never makes a job that
  waits for a start "cancelling", and a report never ends one, from `Unclaimed` (such a job has no task); that only jobs whose needs have ended are skipped from the resolver itself (`SkipsSkippable`).
* **PullRequestProofs.** `IInv` is `TypeOK`, `Locked` (who has the lock; a check at work is about an unmerged pull request, which is why `CheckFails`, that writes
  without a condition, cannot overwrite a merged one), `MergeReads` (what a merge has read), `ExpectedHead`, `StaleCovered` and `RecheckComing`. `StaleCovered` is the strengthening:
  a check at work whose branches have moved on since it read them is followed by one that is queued or on its way there, so that it may store its result. `MergedOnce` is an action property of
  the same invariant. `ScheduleKept` says that something is coming for an automerge that is due, and is preserved only with `DueBacked`, which says what it may be at each point: the queue,
  a task that has not yet marked the pull request, a check that will settle it, or a handler that read a status which lets it merge; `WakeAgrees` ties what a check is going to wake to what it read, and `RefusedSeen` says that a check that could not mark the pull request as merged met a closed issue,
  so that whoever relied on it is excepted or has another check coming.
* **RangeLemmas.** What `Append` and `Tail` do to the range of a sequence and to its injectivity.

Only model-checked: the liveness properties (`EveryItemSettled`, `ShutdownFinishesUnlessFlushed`, `SettledAgain`), because temporal
reasoning with fairness and `ENABLED` is out of the prover's reach. `BaseChannel` has no theorem, since what one would prove of it is what it violates. Every invariant and
every action property of a passing run has a theorem.

## 5. Plan

Done: the queue (first, because the other components depend on it), its base queues with failing commands, the tasks of Actions, the
runs of Actions with the emitter, the pull request with checks, merges and automerge.

Left, by how much other code relies on it:

1. `GlobalLock`: `modules/globallock` with the expiry and the extender of the Redis lock, and what `ActionsTask`, `ActionsRun` and `PullRequest` lose when the lock is not exclusive.
2. Reusable workflow callers in `ActionsRun`; the update of the head branch in `PullRequest`.
3. The phases of the graceful shutdown with the process manager and the queues.

### Not modelled

Everything `PROJECT.json` lists as `not_modelled`, with its reason: mostly request handling, rendering, parsing, database rows changed by one request at a time, git and storage
I/O, in which a model checker would only restate the code. The models cover the small part of Gitea in which several actors
decide together; most of its lines are outside it. Within the modelled components, the sections above name what is left out.

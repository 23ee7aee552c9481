------------------------------ MODULE ActionsTask ------------------------------
(***************************************************************************)
(* The life of the jobs of one workflow run and of the tasks that execute  *)
(* them (models/actions, services/actions, routers/api/actions/runner).    *)
(* Runners fetch tasks and report their results; users and the server      *)
(* cancel jobs; cron stops zombie and endless tasks; the job emitter       *)
(* releases blocked jobs.  All of them work on the rows of action_run_job  *)
(* and action_task, at read committed: an SQL statement is a step, what a  *)
(* transaction wrote is seen by others when it commits, and the rows it    *)
(* wrote are locked until then.  The transactions whose outcome depends    *)
(* on one conditional UPDATE (claim, release, emitter) are one step.       *)
(* Every runner may take every job; the status of the attempt and of the   *)
(* run, and the steps of a task, are not modelled.                         *)
(***************************************************************************)
EXTENDS Integers, FiniteSets

CONSTANTS
  Job,          \* action_run_job rows of the run
  Task,         \* ids for action_task rows: bounds the number of claims
  Runner,
  Cancelling,   \* runners with HasCancellingSupport
  Stopper,      \* requests that cancel a job, and cron tasks that stop a task
  None

ASSUME TaskAssumption ==
  /\ Cancelling \subseteq Runner
  /\ None \notin Task /\ None \notin Job /\ None \notin [job : Job, runner : Runner]

VARIABLES
  job,      \* action_run_job.status
  claim,    \* action_run_job.task_id, None for 0
  task,     \* action_task.status, "none" where there is no row
  of,       \* job_id and runner_id of each task ever inserted, None for others
  version,  \* the tasks version each runner has seen: the "latest" or an "old"
            \* one; "read" while its FetchTask has read the latest one
  runner,   \* what each runner and the request serving it are doing
  stopper,  \* what each stopper is doing
  cut       \* "write": an operation outside a transaction stopped half way;
            \* "release": a task was released while StopTask was at work on it

runnerVars == <<version, runner>>
rows == <<job, claim, task, of>>
vars == <<rows, runnerVars, stopper, cut>>

Pending == {"blocked", "waiting"}
Active == {"running", "cancelling"}
Final == {"done", "cancelled", "skipped"}   \* "done": success or failure
ReportPc == {"reportTask", "reportJob", "reportBump"}
RunnerPc == {"idle", "scan", "pick", "claimed", "run"} \cup ReportPc
StopperPc == {"idle", "cancelJob", "cancelBump", "stop", "stopJob", "stopBump", "stopTask"}

(* The local variables of a FetchTask or UpdateTask, and of a StopTask.    *)
Request == [pc : RunnerPc, cand : SUBSET Job,
            task : Task \cup {None}, verdict : Final \cup {None}]
StopRequest == [pc : StopperPc, job : Job \cup {None}, task : Task \cup {None},
                to : Active \cup Final \cup {None}, tx : BOOLEAN]

TypeOK ==
  /\ job \in [Job -> Pending \cup Active \cup Final]
  /\ claim \in [Job -> Task \cup {None}]
  /\ task \in [Task -> Active \cup Final \cup {"none"}]
  /\ of \in [Task -> [job : Job, runner : Runner] \cup {None}]
  /\ version \in [Runner -> {"latest", "old", "read"}]
  /\ runner \in [Runner -> Request] /\ stopper \in [Stopper -> StopRequest]
  /\ cut \subseteq {"write", "release"}

NoRequest == [pc |-> "idle", cand |-> {}, task |-> None, verdict |-> None]
NoStop == [pc |-> "idle", job |-> None, task |-> None, to |-> None, tx |-> FALSE]

Init ==
  /\ job \in [Job -> Pending]
  /\ claim = [j \in Job |-> None]
  /\ task = [t \in Task |-> "none"] /\ of = [t \in Task |-> None]
  /\ version = [r \in Runner |-> "old"]
  /\ runner = [r \in Runner |-> NoRequest]
  /\ stopper = [s \in Stopper |-> NoStop]
  /\ cut = {}

(* Nobody's open transaction has written the row of job j.                 *)
JobUnlocked(j) ==
  \A s \in Stopper : ~(stopper[s].pc = "stopTask" /\ stopper[s].tx /\ stopper[s].job = j)

(* The global lock UpdateTaskByState-run-<id>.                             *)
ReportLockFree == \A r \in Runner : runner[r].pc \notin ReportPc

(* IncreaseTaskVersion, which every runner's scope sees.                   *)
IncreaseTaskVersion == version' = [r \in Runner |-> "old"]

(* UpdateRunJob, for a job that is done: only if work remains.             *)
WakeIfWaiting ==
  IF \E j \in Job : job'[j] = "waiting"
  THEN IncreaseTaskVersion
  ELSE UNCHANGED version

(* The same for a caller that knows the job's id only: the row is read     *)
(* again, and decides, if somebody has written it meanwhile.               *)
WakeIfStillDone(j) ==
  IF job[j] \in Active THEN UNCHANGED version ELSE WakeIfWaiting
-----------------------------------------------------------------------------
(***************************************************************************)
(* The job emitter.                                                        *)
(***************************************************************************)

JobReady(j) ==
  /\ job[j] = "blocked" /\ JobUnlocked(j)
  /\ job' = [job EXCEPT ![j] = "waiting"]
  /\ IncreaseTaskVersion
  /\ UNCHANGED <<claim, task, of, runner, stopper, cut>>

JobSkipped(j) ==
  /\ job[j] = "blocked" /\ JobUnlocked(j)
  /\ job' = [job EXCEPT ![j] = "skipped"]
  /\ WakeIfWaiting
  /\ UNCHANGED <<claim, task, of, runner, stopper, cut>>
-----------------------------------------------------------------------------
(***************************************************************************)
(* FetchTask.                                                              *)
(***************************************************************************)

(* The version is read first.  A runner that is up to date is told so and  *)
(* no job is looked at.                                                    *)
FetchVersion(r) ==
  /\ runner[r].pc = "idle" /\ version[r] = "old"
  /\ version' = [version EXCEPT ![r] = "read"]
  /\ runner' = [runner EXCEPT ![r].pc = "scan"]
  /\ UNCHANGED <<rows, stopper, cut>>

(* CreateTaskForRunner reads the waiting jobs ...                          *)
PickScan(r) ==
  /\ runner[r].pc = "scan"
  /\ runner' = [runner EXCEPT ![r].pc = "pick",
                              ![r].cand = {j \in Job : job[j] = "waiting" /\ claim[j] = None}]
  /\ UNCHANGED <<rows, version, stopper, cut>>

(* ... and tries them one after the other: a new task, and the job is      *)
(* updated where it still waits without a task.                            *)

(* Mutant: a job whose status has moved on is claimed.                     *)
ClaimableUntasked(j) == claim[j] = None

(* Mutant: the update of the job has no condition.                         *)
ClaimableAlways(j) == j \in Job

Claimable(j) == job[j] = "waiting" /\ claim[j] = None

PickClaim(r, j, t) ==
  /\ runner[r].pc = "pick" /\ j \in runner[r].cand
  /\ Claimable(j) /\ JobUnlocked(j)
  /\ of[t] = None
  /\ task' = [task EXCEPT ![t] = "running"]
  /\ of' = [of EXCEPT ![t] = [job |-> j, runner |-> r]]
  /\ job' = [job EXCEPT ![j] = "running"]
  /\ claim' = [claim EXCEPT ![j] = t]
  /\ runner' = [runner EXCEPT ![r] = [NoRequest EXCEPT !.pc = "claimed", !.task = t]]
  /\ UNCHANGED <<version, stopper, cut>>

PickLost(r, j) ==
  /\ runner[r].pc = "pick" /\ j \in runner[r].cand
  /\ ~Claimable(j) /\ JobUnlocked(j)
  /\ runner' = [runner EXCEPT ![r].cand = @ \ {j}]
  /\ UNCHANGED <<rows, version, stopper, cut>>

(* Mutant: the response carries the latest version.                        *)
TakeLatestVersion(r) == version' = [version EXCEPT ![r] = "latest"]

(* The response carries the version that was read at the beginning.        *)
TakeVersion(r) ==
  version' = [version EXCEPT ![r] = IF @ = "read" THEN "latest" ELSE @]

PickNone(r) ==
  /\ runner[r].pc = "pick" /\ runner[r].cand = {}
  /\ TakeVersion(r)
  /\ runner' = [runner EXCEPT ![r] = NoRequest]
  /\ UNCHANGED <<rows, stopper, cut>>

PickDelivered(r) ==
  /\ runner[r].pc = "claimed"
  /\ TakeVersion(r)
  /\ runner' = [runner EXCEPT ![r].pc = "run"]
  /\ UNCHANGED <<rows, stopper, cut>>

BeingStopped(t) ==
  \E s \in Stopper : stopper[s].pc \in {"stopJob", "stopBump", "stopTask"}
                       /\ stopper[s].task = t

(* ReleaseTaskForRunner: the payload could not be assembled, or the        *)
(* request is cancelled.  Where the job has moved on, all is rolled back.  *)
Releasable(r) ==
  LET t == runner[r].task
      j == of[t].job
  IN claim[j] = t /\ job[j] = "running"

PickReleased(r) ==
  LET t == runner[r].task
      j == of[t].job
  IN /\ runner[r].pc = "claimed" /\ JobUnlocked(j)
     /\ runner' = [runner EXCEPT ![r] = NoRequest]
     /\ IF Releasable(r)
        THEN /\ job' = [job EXCEPT ![j] = "waiting"]
             /\ claim' = [claim EXCEPT ![j] = None]
             /\ task' = [task EXCEPT ![t] = "none"]
             /\ IncreaseTaskVersion
        ELSE /\ version' = [version EXCEPT ![r] = "old"]
             /\ UNCHANGED <<job, claim, task>>
     /\ cut' = IF BeingStopped(t) THEN cut \cup {"release"} ELSE cut
     /\ UNCHANGED <<of, stopper>>

(* The runner goes away, or never sees the response; it starts again       *)
(* without a version.                                                      *)
RunnerLost(r) ==
  /\ runner[r].pc \in {"claimed", "run"}
  /\ runner' = [runner EXCEPT ![r] = NoRequest]
  /\ version' = [version EXCEPT ![r] = "old"]
  /\ UNCHANGED <<rows, stopper, cut>>
-----------------------------------------------------------------------------
(***************************************************************************)
(* UpdateTask: the runner reports the result of its task.  The reports of  *)
(* a run exclude each other, and are not in a transaction.                 *)
(***************************************************************************)

(* Mutant: the status of the job is not written with it.                   *)
ReportReadNoStatus(r) ==
  /\ runner[r].pc = "run" /\ ReportLockFree
  /\ runner' = [runner EXCEPT ![r] =
       IF task[@.task] \in Final THEN NoRequest ELSE [@ EXCEPT !.pc = "reportTask"]]
  /\ UNCHANGED <<rows, version, stopper, cut>>

(* A task whose status is final ends the runner's work on it.              *)
ReportRead(r) ==
  /\ runner[r].pc = "run" /\ ReportLockFree
  /\ LET seen == task[runner[r].task]
     IN IF seen \in Final
        THEN runner' = [runner EXCEPT ![r] = NoRequest]
        ELSE runner' = [runner EXCEPT ![r].pc = "reportTask",
               ![r].verdict = IF seen = "cancelling" THEN "cancelled" ELSE "done"]
  /\ UNCHANGED <<rows, version, stopper, cut>>

ReportTask(r) ==
  /\ runner[r].pc = "reportTask"
  /\ task' = [task EXCEPT ![runner[r].task] = runner[r].verdict]
  /\ runner' = [runner EXCEPT ![r].pc = "reportJob"]
  /\ UNCHANGED <<job, claim, of, version, stopper, cut>>

ReportJob(r) ==
  LET j == of[runner[r].task].job
  IN /\ runner[r].pc = "reportJob" /\ JobUnlocked(j)
     /\ job' = [job EXCEPT ![j] = runner[r].verdict]
     /\ runner' = [runner EXCEPT ![r].pc = "reportBump"]
     /\ UNCHANGED <<claim, task, of, version, stopper, cut>>

ReportBump(r) ==
  /\ runner[r].pc = "reportBump"
  /\ runner' = [runner EXCEPT ![r] = NoRequest]
  /\ UNCHANGED <<rows, stopper, cut>>
  /\ WakeIfStillDone(of[runner[r].task].job)

(* A statement fails or the request is cancelled; the runner reports       *)
(* again.                                                                  *)
ReportCut(r) ==
  /\ runner[r].pc \in ReportPc
  /\ runner' = [runner EXCEPT ![r].pc = "run", ![r].verdict = None]
  /\ cut' = IF runner[r].pc = "reportTask" THEN cut ELSE cut \cup {"write"}
  /\ UNCHANGED <<rows, version, stopper>>
-----------------------------------------------------------------------------
(***************************************************************************)
(* CancelJobs and StopTask, in a transaction (Cancel, cron) or outside     *)
(* (CleanRepoScheduleTasks, CancelAbandonedJobs).                          *)
(***************************************************************************)

(* The job is read before: by the page, or by the query for the old jobs.  *)
CancelRead(s, j, tx) ==
  /\ stopper[s].pc = "idle" /\ job[j] \notin Final
  /\ stopper' = [stopper EXCEPT ![s] =
       [pc |-> IF claim[j] = None THEN "cancelJob" ELSE "stop",
        job |-> j, task |-> claim[j], to |-> "cancelling", tx |-> tx]]
  /\ UNCHANGED <<rows, runnerVars, cut>>

(* It had no task: update it where it still has none.                      *)
CancelUnclaimed(s) ==
  LET j == stopper[s].job
  IN /\ stopper[s].pc = "cancelJob" /\ JobUnlocked(j)
     /\ IF claim[j] = None
        THEN /\ job' = [job EXCEPT ![j] = "cancelled"]
             /\ IF stopper[s].tx
                THEN stopper' = [stopper EXCEPT ![s] = NoStop] /\ WakeIfWaiting
                ELSE /\ stopper' = [stopper EXCEPT ![s].pc = "cancelBump"]
                     /\ UNCHANGED version
        ELSE /\ stopper' = [stopper EXCEPT ![s] = NoStop]
             /\ UNCHANGED <<job, version>>
     /\ UNCHANGED <<claim, task, of, runner, cut>>

(* StopZombieTasks and StopEndlessTasks: any unfinished task may be old;   *)
(* what becomes of it depends on the status this query saw.                *)
ZombieRead(s, t) ==
  /\ stopper[s].pc = "idle" /\ task[t] \in Active
  /\ stopper' = [stopper EXCEPT ![s] =
       [pc |-> "stop", job |-> of[t].job, task |-> t,
        to |-> IF task[t] = "cancelling" THEN "cancelled" ELSE "done", tx |-> TRUE]]
  /\ UNCHANGED <<rows, runnerVars, cut>>

(* StopTask: a finished task is left alone; a runner that cannot clean up  *)
(* is not asked to.                                                        *)
StopRead(s) ==
  LET t == stopper[s].task
  IN /\ stopper[s].pc = "stop"
     /\ IF task[t] \in Active
        THEN stopper' = [stopper EXCEPT ![s].pc = "stopJob",
               ![s].to = IF @ = "cancelling" /\ of[t].runner \notin Cancelling
                         THEN "cancelled" ELSE @]
        ELSE stopper' = [stopper EXCEPT ![s] = NoStop]
     /\ UNCHANGED <<rows, runnerVars, cut>>

(* The job is written first, then the task; neither write has a condition, *)
(* and a task that was released meanwhile has no row to write.             *)
StopJob(s) ==
  LET j == stopper[s].job
      to == stopper[s].to
  IN /\ stopper[s].pc = "stopJob" /\ JobUnlocked(j)
     /\ IF stopper[s].tx THEN UNCHANGED job ELSE job' = [job EXCEPT ![j] = to]
     /\ stopper' = [stopper EXCEPT ![s].pc =
          IF stopper[s].tx \/ to \notin Final THEN "stopTask" ELSE "stopBump"]
     /\ UNCHANGED <<claim, task, of, runnerVars, cut>>

StopBump(s) ==
  /\ stopper[s].pc \in {"stopBump", "cancelBump"}
  /\ stopper' = [stopper EXCEPT ![s] =
       IF @.pc = "stopBump" THEN [@ EXCEPT !.pc = "stopTask"] ELSE NoStop]
  /\ UNCHANGED <<rows, runner, cut>>
  /\ IF stopper[s].pc = "stopBump" THEN WakeIfStillDone(stopper[s].job) ELSE WakeIfWaiting

(* Mutant: the task row is written only if it is unfinished.               *)
StopTaskIfUnfinished(s) ==
  LET t == stopper[s].task
      to == stopper[s].to
  IN /\ stopper[s].pc = "stopTask"
     /\ task' = [task EXCEPT ![t] = IF @ \in Active THEN to ELSE @]
     /\ stopper' = [stopper EXCEPT ![s] = NoStop]
     /\ job' = IF stopper[s].tx THEN [job EXCEPT ![stopper[s].job] = to] ELSE job
     /\ IF stopper[s].tx /\ to \in Final THEN WakeIfWaiting ELSE UNCHANGED version
     /\ UNCHANGED <<claim, of, runner, cut>>

StopTask(s) ==
  LET t == stopper[s].task
      to == stopper[s].to
  IN /\ stopper[s].pc = "stopTask"
     /\ task' = [task EXCEPT ![t] = IF @ = "none" THEN @ ELSE to]
     /\ stopper' = [stopper EXCEPT ![s] = NoStop]
     /\ job' = IF stopper[s].tx THEN [job EXCEPT ![stopper[s].job] = to] ELSE job
     /\ IF stopper[s].tx /\ to \in Final THEN WakeIfWaiting ELSE UNCHANGED version
     /\ UNCHANGED <<claim, of, runner, cut>>

(* A statement fails: a transaction is rolled back, the rest stays.        *)
StopCut(s) ==
  /\ stopper[s].pc \in {"stopTask", "stopBump", "cancelBump"}
  /\ stopper' = [stopper EXCEPT ![s] = NoStop]
  /\ cut' = IF stopper[s].tx THEN cut ELSE cut \cup {"write"}
  /\ UNCHANGED <<rows, runnerVars>>

Emitter == \E j \in Job : JobReady(j) \/ JobSkipped(j)

Fetch(r) ==
  \/ FetchVersion(r) \/ PickScan(r) \/ PickNone(r)
  \/ PickDelivered(r) \/ PickReleased(r) \/ RunnerLost(r)
  \/ \E j \in Job : PickLost(r, j) \/ \E t \in Task : PickClaim(r, j, t)

Report(r) ==
  ReportRead(r) \/ ReportTask(r) \/ ReportJob(r) \/ ReportBump(r) \/ ReportCut(r)

Stop(s) ==
  \/ \E j \in Job, tx \in BOOLEAN : CancelRead(s, j, tx)
  \/ \E t \in Task : ZombieRead(s, t)
  \/ CancelUnclaimed(s) \/ StopRead(s) \/ StopJob(s) \/ StopBump(s)
  \/ StopTask(s) \/ StopCut(s)

Next ==
  \/ Emitter
  \/ \E r \in Runner : Fetch(r) \/ Report(r)
  \/ \E s \in Stopper : Stop(s)

Spec == Init /\ [][Next]_vars
-----------------------------------------------------------------------------
(* A job has at most one task that may still run, and it is the one the    *)
(* job names: no two runners execute a job, and a job is handed out again  *)
(* only when no task of it is left (the conditions of claimJobForRunner    *)
(* and ReleaseTaskForRunner).                                              *)
OneLiveTask ==
  /\ \A t \in Task : task[t] \in Active => claim[of[t].job] = t
  /\ \A j \in Job :
       /\ claim[j] # None => task[claim[j]] # "none" /\ of[claim[j]].job = j
       /\ job[j] \in Pending => claim[j] = None
       /\ job[j] = "running" => claim[j] # None

(* A job is not stranded: while it is running or cancelling its task is    *)
(* unfinished, so that the runner or cron still ends it, unless someone is *)
(* between the two writes.  UpdateTaskByState writes the task and then the *)
(* job, StopTask the job and then the task: the order matters.             *)
HalfWritten(j) ==
  \/ \E r \in Runner : runner[r].pc = "reportJob" /\ runner[r].task = claim[j]
  \/ \E s \in Stopper : /\ stopper[s].pc \in {"stopTask", "stopBump"} /\ ~stopper[s].tx
                        /\ stopper[s].task = claim[j]
Tracked(j) == claim[j] # None /\ task[claim[j]] \in Active
Stranded(j) == job[j] \in Active /\ ~Tracked(j) /\ ~HalfWritten(j)
StrandedOnlyIfCut == cut = {} => \A j \in Job : ~Stranded(j)

(* No wake-up is lost: a runner that is idle and up to date, and so will   *)
(* look at no job, leaves no job waiting (UpdateRunJob wakes the runners   *)
(* when a job finishes and others wait; FetchTask answers with the version *)
(* it read before it looked for a job).  The exception is a runner whose   *)
(* job a late cancel made unfinished between the report and its wake-up:   *)
(* the wake-up is then owed by whoever ends that job.                      *)
Owed(r) ==
  \E t \in Task : /\ of[t] # None /\ of[t].runner = r
                  /\ claim[of[t].job] = t /\ job[of[t].job] = "cancelling"
WaitingIsOffered ==
  cut = {} => \A r \in Runner : runner[r].pc = "idle" /\ version[r] = "latest"
            => Owed(r) \/ \A j \in Job : job[j] # "waiting"

(* A job that is done is never handed out to a runner again.               *)
DoneIsNotRestarted ==
  [][\A j \in Job : job[j] \in Final => job'[j] \notin Pending /\ claim'[j] = claim[j]]_vars

(***************************************************************************)
(* Claims of the comments that the code does not keep.                     *)
(***************************************************************************)

(* "the state is final, do nothing" (task.go:481), "IsDone returns whether *)
(* the Status is final" (status.go:50): a finished task stays as it is.    *)
FinalIsFinal ==
  [][\A t \in Task : task[t] \in Final => task'[t] = task[t]]_vars

(* ReleaseTaskForRunner hands a claimed job back "so the job is not         *)
(* stranded in running state with no runner ever executing it"             *)
(* (task.go:395): no job is, as long as no operation is cut short.         *)
ReleaseStrandsNothing == "write" \notin cut => \A j \in Job : ~Stranded(j)
=============================================================================

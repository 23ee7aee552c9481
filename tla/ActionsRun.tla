------------------------------- MODULE ActionsRun -------------------------------
(***************************************************************************)
(* Workflow runs, their attempts and jobs, the concurrency groups they     *)
(* share and the job emitter that starts what was blocked (services/       *)
(* actions: run.go, rerun.go, approve.go, clear_tasks.go, job_emitter.go;  *)
(* models/actions: run.go, run_attempt.go, run_job.go).                    *)
(*                                                                         *)
(* A transaction is one step: SQLite, the default database, runs them one  *)
(* after the other.  What the code does outside a transaction is several   *)
(* steps: the report of a runner and the emitter's read of the run.  The   *)
(* push of a run to the emitter's queue follows the commit; as a handler   *)
(* may come late anyway, the run is in the queue at once and only a crash  *)
(* tells the two apart: it loses any runs that were still to be pushed.    *)
(*                                                                         *)
(* Not modelled: reusable workflow callers, if expressions (a job starts   *)
(* when all its needs succeeded), continue-on-error, more than one group   *)
(* in a workflow.  The claims of jobs by runners are the subject of        *)
(* ActionsTask; here a claim is one step, and so is a stop of a task.      *)
(***************************************************************************)
EXTENDS Integers, FiniteSets

CONSTANTS
  Run,          \* action_run rows of one repository
  Name,         \* names of jobs
  Workflow,     \* what the runs may execute: see Definition
  Group,        \* concurrency groups
  InProgress,   \* the groups with cancel-in-progress
  MaxAttempt,   \* setting.Actions.MaxRerunAttempts
  Handlers,     \* bound: concurrent calls of jobEmitterQueueHandler
  Requests,     \* bound: needless approvals, cancellations, reruns, crashes
  None

(* A workflow: its jobs, what each needs, its concurrency group, whether   *)
(* the whole run is in it and which jobs are, whether the run has to be    *)
(* approved, and whether its runner cleans up when a task is cancelled.    *)
Definition ==
  [jobs : SUBSET Name, needs : [Name -> SUBSET Name], group : Group \cup {None},
   whole : BOOLEAN, grouped : SUBSET Name, approval : BOOLEAN, graceful : BOOLEAN]

ASSUME ActionsRunAssumption ==
  /\ Workflow \subseteq Definition
  /\ \A w \in Workflow :
       /\ w.jobs # {} /\ w.grouped \subseteq w.jobs
       /\ \A j \in Name : w.needs[j] \subseteq w.jobs
       /\ w.group = None => ~w.whole /\ w.grouped = {}
       \* the parser refuses cyclic needs
       /\ \A S \in SUBSET w.jobs : S # {} => \E j \in S : w.needs[j] \cap S = {}
  /\ InProgress \subseteq Group
  /\ None \notin Group /\ None \notin Workflow
  /\ MaxAttempt \in Nat \ {0} /\ Handlers \in Nat /\ Requests \in Nat

(* A workflow file has finitely many jobs.                                 *)
ASSUME NamesFinite == IsFiniteSet(Name)

VARIABLES
  wf,        \* the workflow of each run, None for a run not inserted yet
  need,      \* action_run.need_approval
  latest,    \* number of the attempt in action_run.latest_attempt_id, 0: none
  run,       \* action_run.status
  attempt,   \* action_run_attempt.status, "none" where there is no row
  row,       \* action_run_job: of each attempt and job name
  report,    \* the UpdateTask request that holds the run's global lock
  plans,     \* the rerunPlans of requests between buildRerunPlan and execRerunPlan
  freshReports, freshPlans,
             \* the runs whose report, and the plans, that would find
             \*    action_run.version as they read it
  queue,     \* runs in jobEmitterQueue, a unique queue, or about to be pushed
  handling,  \* what the handlers of the queue read before their transaction
  asked,     \* how many of these there were
  cut        \* "overtaken": someone changed the jobs of an attempt between
             \*    their read and the read of the run by a report; "refused":
             \*    a report found the run changed; "superseded": a run got a
             \*    new attempt before a check was made for the old one;
             \*    "revived": an approval restarted a job that was not
             \*    blocked; "unevaluated": it left one alone whose group
             \*    a rerun that waits as a whole had not evaluated; "passed":
             \*    a group was released for one of several blocked runs;
             \*    "crash": the server was killed

rows == <<run, attempt, row>>
versions == <<freshReports, freshPlans>>
vars == <<wf, need, latest, rows, report, plans, versions, queue, handling, asked, cut>>

Attempt == Run \X (1..MaxAttempt)

Pending == {"blocked", "waiting"}
Active == {"running", "cancelling"}
Done == {"success", "failure", "cancelled", "skipped"}
Status == Pending \cup Active \cup Done

(* A job row: its status, its task, and whether its concurrency group has  *)
(* been evaluated and stored (is_concurrency_evaluated).  A task that is   *)
(* not done has a job that is neither blocked nor done.                    *)
NoRow == [st |-> "none", task |-> "none", grp |-> FALSE]
Row ==
  {w \in [st : Status, task : {"none", "live", "done"}, grp : BOOLEAN] :
     w.task = "live" => w.st \in {"waiting"} \cup Active}
  \cup {NoRow}

Report == [pc : {"idle", "aggregate", "store", "load", "run"},
           att : Attempt \cup {None}, agg : Status \cup {"unknown", "none"}]
NoReport == [pc |-> "idle", att |-> None, agg |-> "none"]
Plan == [run : Run, attempt : 1..(MaxAttempt - 1), jobs : (SUBSET Name) \ {{}},
         template : [Name -> Row]]
Call == [run : Run, blocked : BOOLEAN, latest : 1..MaxAttempt]

TypeOK ==
  /\ wf \in [Run -> Workflow \cup {None}] /\ need \in [Run -> BOOLEAN]
  /\ latest \in [Run -> 0..MaxAttempt]
  /\ run \in [Run -> Status \cup {"unknown", "none"}]
  /\ attempt \in [Attempt -> Status \cup {"unknown", "none"}]
  /\ row \in [Attempt -> [Name -> Row]]
  /\ report \in [Run -> Report] /\ plans \subseteq Plan
  /\ freshReports \subseteq Run /\ freshPlans \subseteq plans
  /\ queue \subseteq Run /\ handling \subseteq Call
  /\ asked \in 0..Requests
  /\ cut \subseteq {"overtaken", "refused", "superseded", "revived", "unevaluated", "passed", "crash"}

Init ==
  /\ wf = [r \in Run |-> None] /\ need = [r \in Run |-> FALSE]
  /\ latest = [r \in Run |-> 0]
  /\ run = [r \in Run |-> "none"]
  /\ attempt = [x \in Attempt |-> "none"]
  /\ row = [x \in Attempt |-> [j \in Name |-> NoRow]]
  /\ report = [r \in Run |-> NoReport] /\ plans = {}
  /\ freshReports = {} /\ freshPlans = {}
  /\ queue = {} /\ handling = {}
  /\ asked = 0 /\ cut = {}
-----------------------------------------------------------------------------
(***************************************************************************)
(* The status of an attempt, and of the run it is the latest attempt of.   *)
(***************************************************************************)

(* Mutant: blocked jobs count last.                                        *)
AggregateIgnoresBlocked(S) ==
  IF S = {} THEN "unknown"
  ELSE IF S = {"skipped"} THEN "skipped"
  ELSE IF S \subseteq {"success", "skipped"} THEN "success"
  ELSE IF "cancelling" \in S THEN "cancelling"
  ELSE IF "running" \in S THEN "running"
  ELSE IF "waiting" \in S THEN "waiting"
  ELSE IF "cancelled" \in S THEN "cancelled"
  ELSE IF "failure" \in S THEN "failure"
  ELSE "blocked"

AggregateJobStatus(S) ==
  IF S = {} THEN "unknown"
  ELSE IF S = {"skipped"} THEN "skipped"
  ELSE IF S \subseteq {"success", "skipped"} THEN "success"
  ELSE IF "cancelling" \in S THEN "cancelling"
  ELSE IF "running" \in S THEN "running"
  ELSE IF "waiting" \in S THEN "waiting"
  ELSE IF "blocked" \in S THEN "blocked"
  ELSE IF "cancelled" \in S THEN "cancelled"
  ELSE IF "failure" \in S THEN "failure"
  ELSE "unknown"

JobStatuses(rs, x) == {rs[x][j].st : j \in Name} \ {"none"}

(* What a transaction that writes the job rows rs leaves in the attempts:  *)
(* each UpdateRunJob stores the aggregate of the attempt it wrote to.      *)
SameJobs(rs, x) == \A j \in Name : rs[x][j].st = row[x][j].st
AttemptsWith(rs) ==
  [x \in Attempt |-> IF SameJobs(rs, x) THEN attempt[x]
                     ELSE AggregateJobStatus(JobStatuses(rs, x))]

(* Mutant: the run follows its first attempt.                              *)
RunsOfFirst(rs, lat) ==
  [r \in Run |-> IF lat[r] = 0 \/ SameJobs(rs, <<r, 1>>) THEN run[r]
                 ELSE AggregateJobStatus(JobStatuses(rs, <<r, 1>>))]

(* UpdateRunAttempt copies it to the run, unless a rerun came in between.  *)
RunsWith(rs, lat) ==
  [r \in Run |-> IF lat[r] = 0 THEN run[r]
                 ELSE IF SameJobs(rs, <<r, lat[r]>>) THEN run[r]
                 ELSE AggregateJobStatus(JobStatuses(rs, <<r, lat[r]>>))]

(* A report is about to store what it read before.                         *)
Overtakes(rs) ==
  \E r \in Run : report[r].pc \in {"store", "load"} /\ ~SameJobs(rs, report[r].att)

Commit(rs, lat, more) ==
  /\ row' = rs
  /\ attempt' = AttemptsWith(rs)
  /\ run' = RunsWith(rs, lat)
  /\ latest' = lat
  /\ cut' = cut \cup more \cup (IF Overtakes(rs) THEN {"overtaken"} ELSE {})

(* UpdateRun gives the run's row a new version.  A transaction writes the  *)
(* rows of the runs of others, and of those whose latest attempt has a job *)
(* that it wrote; whoever read one of these rows has an old version.       *)
Writes(r, rs, lat, others) ==
  r \in others \/ (lat[r] # 0 /\ ~SameJobs(rs, <<r, lat[r]>>))
Outdates(rs, lat, others) ==
  /\ freshReports' = {r \in freshReports : ~Writes(r, rs, lat, others)}
  /\ freshPlans' = {p \in freshPlans : ~Writes(p.run, rs, lat, others)}
-----------------------------------------------------------------------------
(***************************************************************************)
(* Concurrency groups.                                                     *)
(***************************************************************************)

(* What GetConcurrentRunAttemptsAndJobs finds in group g.  Rows of runs    *)
(* not yet inserted have no status, so no query selects them.              *)
GroupOf(x) == IF wf[x[1]] = None THEN None ELSE wf[x[1]].group
InGroup(x, g) == wf[x[1]] # None /\ wf[x[1]].group = g /\ wf[x[1]].whole
GroupAttempts(g, atts, S) == {x \in Attempt : atts[x] \in S /\ InGroup(x, g)}
GroupJobs(g, rs, S) ==
  {p \in Attempt \X Name : /\ rs[p[1]][p[2]].grp /\ rs[p[1]][p[2]].st \in S
                           /\ GroupOf(p[1]) = g}

(* shouldBlockRunByConcurrency, shouldBlockJobByConcurrency.               *)
ShouldBlock(g, rs, atts) ==
  /\ g \notin InProgress
  /\ GroupAttempts(g, atts, Active) # {} \/ GroupJobs(g, rs, Active) # {}

(* Mutant: pending jobs are left without cancel-in-progress.               *)
PreviousIfInProgress(g, rs, atts, mine) ==
  LET S == IF g \in InProgress THEN Pending \cup Active ELSE {}
  IN GroupJobs(g, rs, S) \cup ((GroupAttempts(g, atts, S) \ mine) \X Name)

(* The jobs CancelPreviousJobsBy{Run,Job}Concurrency is to cancel: those   *)
(* of the group, and all jobs of the attempts of the group but mine.       *)
Previous(g, rs, atts, mine) ==
  LET S == Pending \cup (IF g \in InProgress THEN Active ELSE {})
  IN GroupJobs(g, rs, S) \cup ((GroupAttempts(g, atts, S) \ mine) \X Name)

(* Mutant: a job that is done is cancelled as well.                        *)
CancelledThoughDone(x, w) ==
  IF w.st = "none" \/ w.task = "done" THEN w
  ELSE IF w.task = "none" THEN [w EXCEPT !.st = "cancelled"]
  ELSE IF wf[x[1]].graceful THEN [w EXCEPT !.st = "cancelling"]
  ELSE [w EXCEPT !.st = "cancelled", !.task = "done"]

(* cancelOneJob: a job without a task is done at once, a running task is   *)
(* asked to clean up where its runner can, else stopped.                   *)
Cancelled(x, w) ==
  IF w.st \notin Pending \cup Active \/ w.task = "done" THEN w
  ELSE IF w.task = "none" THEN [w EXCEPT !.st = "cancelled"]
  ELSE IF wf[x[1]].graceful THEN [w EXCEPT !.st = "cancelling"]
  ELSE [w EXCEPT !.st = "cancelled", !.task = "done"]

CancelJobs(rs, V) ==
  [x \in Attempt |-> [j \in Name |->
     IF <<x, j>> \in V THEN Cancelled(x, rs[x][j]) ELSE rs[x][j]]]

(* The runs that a cancel of the jobs V writes although no status changes: *)
(* StopTask stops a task again that is cancelling already.                 *)
StoppedAgain(V) ==
  {r \in Run : \E j \in Name : /\ <<<<r, latest[r]>>, j>> \in V
                              /\ row[<<r, latest[r]>>][j].st = "cancelling"}
GroupStoppedAgain(g) == StoppedAgain(Previous(g, row, attempt, {}))

(* EmitJobsIfReadyByJobs, for the jobs the transaction cancelled.          *)
RunsCancelledBy(rs) ==
  {r \in Run : \E n \in 1..MaxAttempt, j \in Name :
     row[<<r, n>>][j].st \in Pending \cup Active /\ rs[<<r, n>>][j].st = "cancelled"}
-----------------------------------------------------------------------------
(***************************************************************************)
(* InsertRun and execRerunPlan.                                            *)
(***************************************************************************)

(* The jobs SG of the new attempt x that are in the group are inserted one *)
(* after the other; each cancels the ones before it.                       *)
StartInGroup(rs, g, x, SG) ==
  IF SG = {} THEN {rs}
  ELSE LET atts == AttemptsWith(rs)
           others == Previous(g, rs, atts, {x}) \ ({x} \X SG)
           st == IF ShouldBlock(g, rs, atts) THEN "blocked" ELSE "waiting"
       IN {[CancelJobs(rs, others) EXCEPT ![x] = [j \in Name |->
              IF j \notin SG THEN @[j]
              ELSE [@[j] EXCEPT !.st = IF j = last THEN st ELSE "cancelled"]]] :
           last \in SG}

(* Mutant: all jobs count as waiting for none.                             *)
RootsAll(w, S) == S

(* Of the jobs S that are inserted those that wait for none of the others. *)
Roots(w, S) == {j \in S : w.needs[j] \cap S = {}}

(* PrepareToStartRunWithConcurrency for an attempt of run r, and what it   *)
(* leaves in the job rows.                                                 *)
RunBlocked(w) == w.whole /\ ShouldBlock(w.group, row, attempt)
AfterRunConcurrency(r, w) ==
  IF w.whole
  THEN CancelJobs(row, Previous(w.group, row, attempt, {r} \X (1..MaxAttempt)))
  ELSE row

(* The runs that the insertion of an attempt of r writes in any case.      *)
Rewrites(r, w, start) ==
  {r} \cup (IF w.whole \/ start \cap w.grouped # {} THEN GroupStoppedAgain(w.group) ELSE {})

(* A check of run r is still to come.                                      *)
Awake(r) == r \in queue \cup {h.run : h \in handling} \/ report[r].pc # "idle"

InsertRun(r, w) ==
  LET x == <<r, 1>>
      first == Roots(w, w.jobs)
      start == IF RunBlocked(w) \/ w.approval THEN {} ELSE first
      new == [j \in Name |->
        IF j \notin w.jobs THEN NoRow
        ELSE [st |-> IF j \in start THEN "waiting" ELSE "blocked", task |-> "none",
              grp |-> j \in first \cap w.grouped]]
  IN /\ latest[r] = 0
     /\ wf' = [wf EXCEPT ![r] = w]
     /\ need' = [need EXCEPT ![r] = w.approval]
     /\ \E rs \in StartInGroup([AfterRunConcurrency(r, w) EXCEPT ![x] = new],
                               w.group, x, start \cap w.grouped) :
          /\ Commit(rs, [latest EXCEPT ![r] = 1], {})
          /\ Outdates(rs, [latest EXCEPT ![r] = 1], Rewrites(r, w, start))
          /\ queue' = queue \cup RunsCancelledBy(rs)
     /\ UNCHANGED <<report, plans, handling, asked>>

Ask == asked < Requests /\ asked' = asked + 1

(* The run is done, and its latest attempt is the template.  The jobs to   *)
(* run again: with each, all that need it.                                 *)

(* Mutant: the run need not be done.                                       *)
CanRerunAny(r) == latest[r] \in 1..(MaxAttempt - 1)

(* Mutant: one attempt too many.                                           *)
CanRerunOneMore(r) == run[r] \in Done /\ latest[r] \in 1..MaxAttempt

CanRerun(r) == run[r] \in Done /\ latest[r] \in 1..(MaxAttempt - 1)

BuildRerunPlan(r, jobs) ==
  LET p == [run |-> r, attempt |-> latest[r], jobs |-> jobs, template |-> row[<<r, latest[r]>>]]
  IN /\ CanRerun(r) /\ Ask
     /\ jobs # {} /\ jobs \subseteq wf[r].jobs
     /\ \A j \in wf[r].jobs : wf[r].needs[j] \cap jobs # {} => j \in jobs
     /\ plans' = plans \cup {p} /\ freshPlans' = freshPlans \cup {p}
     /\ UNCHANGED <<wf, need, latest, rows, report, freshReports, queue, handling, cut>>

(* The number of the new attempt is unique: the second of two plans from   *)
(* the same template is refused.  So is a plan whose run was written after *)
(* it was read, also by the cancel of the run's group just before.         *)
AttemptUnique(p) == latest[p.run] = p.attempt
RunUnchanged(p) ==
  LET r == p.run
      w == wf[r]
      cancels == Previous(w.group, row, attempt, {r} \X (1..MaxAttempt))
  IN /\ p \in freshPlans
     /\ SameJobs(AfterRunConcurrency(r, w), <<r, latest[r]>>)
     /\ w.whole => r \notin StoppedAgain(cancels)
MayExecute(p) == AttemptUnique(p) /\ RunUnchanged(p)

ExecRerunPlan(p) ==
  LET r == p.run
      w == wf[r]
      x == <<r, p.attempt + 1>>
      again == p.jobs
      start == IF RunBlocked(w) THEN {} ELSE Roots(w, again)
      new == [j \in Name |->
        IF j \in again
        THEN [st |-> IF j \in start THEN "waiting" ELSE "blocked", task |-> "none",
              grp |-> j \in start \cap w.grouped]
        ELSE [p.template[j] EXCEPT !.task = "none"]]
  IN /\ p \in plans /\ MayExecute(p)
     /\ \E rs \in StartInGroup([AfterRunConcurrency(r, w) EXCEPT ![x] = new],
                               w.group, x, start \cap w.grouped) :
          /\ Commit(rs, [latest EXCEPT ![r] = x[2]],
                    IF Awake(r) THEN {"superseded"} ELSE {})
          /\ Outdates(rs, [latest EXCEPT ![r] = x[2]], Rewrites(r, w, start))
          /\ queue' = queue \cup RunsCancelledBy(rs)
     /\ plans' = plans \ {p}
     /\ UNCHANGED <<wf, need, report, handling, asked>>

RerunRefused(p) ==
  /\ p \in plans /\ ~MayExecute(p)
  /\ plans' = plans \ {p} /\ freshPlans' = freshPlans \ {p}
  /\ UNCHANGED <<wf, need, latest, rows, report, freshReports, queue, handling, asked, cut>>
-----------------------------------------------------------------------------
(***************************************************************************)
(* Users approve and cancel runs.                                          *)
(***************************************************************************)

(* ApproveRuns does not test whether the run still needs it.  Jobs without *)
(* needs are prepared one after the other, each of the group cancelling    *)
(* the ones before it, and written whatever their status is.               *)
Waiting(w) == [w EXCEPT !.st = "waiting"]

ApproveRuns(r) ==
  LET w == wf[r]
      x == <<r, latest[r]>>
      first == Roots(w, w.jobs)
      mine == {j \in first \cap w.grouped : row[x][j].grp}
      blocked == ShouldBlock(w.group, row, attempt)
      others == IF mine = {} THEN {} ELSE Previous(w.group, row, attempt, {x})
      written == (first \ w.grouped) \cup (IF blocked THEN {} ELSE mine)
  IN /\ latest[r] # 0
     /\ IF need[r] THEN UNCHANGED asked ELSE Ask
     /\ need' = [need EXCEPT ![r] = FALSE]
     /\ \E last \in IF mine = {} THEN {None} ELSE mine :
          LET kept == IF mine = {last} \/ ~blocked THEN {<<x, last>>} ELSE {}
              rs == [CancelJobs(row, others \ kept) EXCEPT ![x] = [j \in Name |->
                       IF j \notin written THEN @[j]
                       ELSE IF j \in mine \ {last} THEN Cancelled(x, Waiting(row[x][j]))
                       ELSE Waiting(row[x][j])]]
          IN /\ Commit(rs, latest,
                  (IF \A j \in written : row[x][j].st = "blocked" THEN {} ELSE {"revived"})
                  \cup (IF first \cap w.grouped = mine THEN {} ELSE {"unevaluated"}))
             /\ Outdates(rs, latest, {r} \cup StoppedAgain(others))
             /\ queue' = queue \cup RunsCancelledBy(rs)
     /\ UNCHANGED <<wf, report, plans, handling>>

CancelRun(r) ==
  LET rs == CancelJobs(row, {<<r, latest[r]>>} \X Name)
  IN /\ latest[r] # 0 /\ Ask
     /\ Commit(rs, latest, {})
     /\ Outdates(rs, latest, StoppedAgain({<<r, latest[r]>>} \X Name))
     /\ queue' = queue \cup RunsCancelledBy(rs)
     /\ UNCHANGED <<wf, need, report, plans, handling>>
-----------------------------------------------------------------------------
(***************************************************************************)
(* Runners claim jobs and report results.                                  *)
(***************************************************************************)

ClaimJob(x, j) ==
  LET rs == [row EXCEPT ![x][j].st = "running", ![x][j].task = "live"]
  IN /\ row[x][j].st = "waiting" /\ row[x][j].task = "none"
     /\ Commit(rs, latest, {}) /\ Outdates(rs, latest, {})
     /\ UNCHANGED <<wf, need, report, plans, queue, handling, asked>>

(* UpdateTaskByState, under the global lock of the run and outside a       *)
(* transaction: the task and the job are written (a runner may report any  *)
(* result),                                                                *)
ReportJob(x, j) ==
  LET r == x[1]
  IN /\ report[r].pc = "idle" /\ row[x][j].task = "live"
     /\ \E verdict \in IF row[x][j].st = "cancelling" THEN {"cancelled"} ELSE Done :
          row' = [row EXCEPT ![x][j].st = verdict, ![x][j].task = "done"]
     /\ report' = [report EXCEPT ![r] = [pc |-> "aggregate", att |-> x, agg |-> "none"]]
     /\ UNCHANGED <<wf, need, latest, run, attempt, plans, versions, queue, handling, asked, cut>>

(* all jobs of the attempt are read and their status computed,             *)
ReportAggregate(r) ==
  /\ report[r].pc = "aggregate"
  /\ report' = [report EXCEPT ![r].pc = "store",
                              ![r].agg = AggregateJobStatus(JobStatuses(row, report[r].att))]
  /\ UNCHANGED <<wf, need, latest, rows, plans, versions, queue, handling, asked, cut>>

(* it is stored in the attempt,                                            *)
ReportStore(r) ==
  /\ report[r].pc = "store"
  /\ attempt' = [attempt EXCEPT ![report[r].att] = report[r].agg]
  /\ report' = [report EXCEPT ![r].pc = "load"]
  /\ UNCHANGED <<wf, need, latest, run, row, plans, versions, queue, handling, asked, cut>>

(* the run is read, and left alone if the attempt is not its latest,       *)
ReportLoad(r) ==
  /\ report[r].pc = "load"
  /\ IF latest[r] = report[r].att[2]
     THEN /\ report' = [report EXCEPT ![r].pc = "run"]
          /\ freshReports' = freshReports \cup {r} /\ UNCHANGED queue
     ELSE /\ report' = [report EXCEPT ![r] = NoReport]
          /\ queue' = queue \cup {r} /\ UNCHANGED freshReports
  /\ UNCHANGED <<wf, need, latest, rows, plans, freshPlans, handling, asked, cut>>

(* and the status is stored in the run.  The request then asks for a check *)
(* of the run.                                                             *)
ReportRun(r) ==
  /\ report[r].pc = "run" /\ r \in freshReports
  /\ run' = [run EXCEPT ![r] = report[r].agg]
  /\ freshReports' = freshReports \ {r}
  /\ freshPlans' = {p \in freshPlans : p.run # r}
  /\ report' = [report EXCEPT ![r] = NoReport]
  /\ queue' = queue \cup {r}
  /\ UNCHANGED <<wf, need, latest, attempt, row, plans, handling, asked, cut>>

(* "run has changed": the request fails where it is, with task, job and    *)
(* attempt written, and without a check of the run.                        *)
ReportRefused(r) ==
  /\ report[r].pc = "run" /\ r \notin freshReports
  /\ report' = [report EXCEPT ![r] = NoReport]
  /\ cut' = cut \cup {"refused"}
  /\ UNCHANGED <<wf, need, latest, rows, plans, versions, queue, handling, asked>>

(* A runner reports a task again that is done, or was stopped: nothing is  *)
(* written, but the run is checked.                                        *)
ReportAgain(r) ==
  /\ report[r].pc = "idle" /\ Ask
  /\ \E n \in 1..MaxAttempt, j \in Name : row[<<r, n>>][j].task = "done"
  /\ queue' = queue \cup {r}
  /\ UNCHANGED <<wf, need, latest, rows, report, plans, versions, handling, cut>>
-----------------------------------------------------------------------------
(***************************************************************************)
(* The job emitter.                                                        *)
(***************************************************************************)

(* checkJobsByRunID reads the run before its transaction.                  *)
HandlerRead(r) ==
  /\ r \in queue /\ Cardinality(handling) < Handlers
  /\ queue' = queue \ {r}
  /\ handling' = handling \cup
       {[run |-> r, blocked |-> run[r] = "blocked", latest |-> latest[r]]}
  /\ UNCHANGED <<wf, need, latest, rows, report, plans, versions, asked, cut>>

(* The resolver: blocked jobs whose needs are all done start, or are       *)
(* skipped and so let the jobs that need them be skipped.                  *)
WithStatus(rs, x, S) == {j \in Name : rs[x][j].st \in S}
Starts(rs, x) ==
  {j \in WithStatus(rs, x, {"blocked"}) :
     wf[x[1]].needs[j] \subseteq WithStatus(rs, x, {"success"})}
Skips(rs, x) ==
  LET needs == wf[x[1]].needs
      skips(S) == \A j \in S :
        /\ needs[j] \subseteq WithStatus(rs, x, Done) \cup S
        /\ needs[j] \cap (WithStatus(rs, x, Done \ {"success"}) \cup S) # {}
  IN UNION {S \in SUBSET WithStatus(rs, x, {"blocked"}) : skips(S)}

(* What Resolve and the updates after it leave in the rows.  A job of the  *)
(* group that may start cancels all others of the group, blocked ones      *)
(* included; if the resolver has decided on one of these already, the      *)
(* update of that job fails, and with it the transaction.  The rounds of   *)
(* the resolver look again at the jobs that stay blocked.                  *)
Failed == [ok |-> FALSE, rs |-> row]

Resolve(rs, atts, x) ==
  LET w == wf[x[1]]
      starts == Starts(rs, x)
      skips == Skips(rs, x)
      mine == starts \cap w.grouped
      skipped == skips \cap w.grouped
      blocked == ShouldBlock(w.group, rs, atts)
      others == IF mine = {} THEN {}
                ELSE Previous(w.group, rs, atts, {x}) \ ({x} \X (starts \cup skips))
      rows1 == CancelJobs(rs, others)
      \* of the jobs mine all but those of kept are cancelled
      status(kept, j) ==
        IF j \in skips THEN "skipped"
        ELSE IF j \in mine /\ blocked
        THEN IF j \in kept THEN rows1[x][j].st ELSE "cancelled"
        ELSE IF j \in starts THEN "waiting" ELSE rows1[x][j].st
      result(kept) ==
        [ok |-> TRUE, rs |-> [rows1 EXCEPT ![x] = [j \in Name |->
           [rows1[x][j] EXCEPT !.st = status(kept, j), !.grp = @ \/ j \in mine \cup skipped]]]]
      again == (starts \ mine) \cup skips # {}
  IN IF Cardinality(mine) <= 1
     THEN IF mine = {} \/ skipped = {} THEN {result(mine)}
          ELSE IF blocked THEN {Failed} ELSE {result(mine), Failed}
     ELSE IF ~blocked \/ skipped # {} THEN {Failed}
     ELSE IF again THEN {result({})}
     ELSE {result({j \in {last} : ~rs[x][j].grp}) : last \in mine}

(* checkJobsOfCurrentRunAttempt: a blocked run waits for its group.        *)
CheckJobs(rs, atts, x, blocked) ==
  IF blocked /\ wf[x[1]].whole /\ ShouldBlock(wf[x[1]].group, rs, atts)
  THEN {[ok |-> TRUE, rs |-> rs]}
  ELSE Resolve(rs, atts, x)

(* findBlockedRunIDByConcurrency finds any one blocked attempt, or else    *)
(* any one blocked job of the group.                                       *)
FindBlocked(g, rs) ==
  LET as == GroupAttempts(g, AttemptsWith(rs), {"blocked"})
  IN IF as # {} THEN {x[1] : x \in as} ELSE {p[1][1] : p \in GroupJobs(g, rs, {"blocked"})}

(* Mutant: a group of single jobs is not released.                         *)
ReleasesRunGroup(r, rs) == wf[r].whole

(* checkRunConcurrency: the group of the run, or of a job that is done.    *)
ReleasesGroup(r, rs) ==
  \/ wf[r].whole
  \/ \E j \in Name : rs[<<r, latest[r]>>][j].grp /\ rs[<<r, latest[r]>>][j].st \in Done

CheckRunConcurrency(r, o) ==
  IF ~o.ok \/ ~ReleasesGroup(r, o.rs) \/ FindBlocked(wf[r].group, o.rs) = {} THEN {o}
  ELSE UNION {IF need[q] THEN {o}
              ELSE CheckJobs(o.rs, AttemptsWith(o.rs), <<q, latest[q]>>,
                             RunsWith(o.rs, latest)[q] = "blocked") :
              q \in FindBlocked(wf[r].group, o.rs)}

(* Of several blocked runs of the group only one is looked at.             *)
BlockedRuns(g, rs) ==
  {x[1] : x \in GroupAttempts(g, AttemptsWith(rs), {"blocked"})}
  \cup {p[1][1] : p \in GroupJobs(g, rs, {"blocked"})}
PassesOver(r, rs) ==
  ReleasesGroup(r, rs) /\ \E p, q \in BlockedRuns(wf[r].group, rs) : p # q

(* A job of the group that starts has cancelled the others.                *)
StartedInGroup(rs) ==
  \E x \in Attempt, j \in Name :
    rs[x][j].grp /\ rs[x][j].st = "waiting" /\ row[x][j].st # "waiting"

(* The transaction of checkJobsByRunID.  The item of a failed call goes    *)
(* back to the queue.                                                      *)
HandlerCheck(h) ==
  /\ h \in handling
  /\ handling' = handling \ {h}
  /\ \E o1 \in CheckJobs(row, attempt, <<h.run, h.latest>>, h.blocked) :
       \E o \in CheckRunConcurrency(h.run, o1) :
         IF o.ok
         THEN /\ Commit(o.rs, latest, IF PassesOver(h.run, o1.rs) THEN {"passed"} ELSE {})
              /\ Outdates(o.rs, latest, IF StartedInGroup(o.rs)
                                        THEN GroupStoppedAgain(wf[h.run].group) ELSE {})
              /\ queue' = queue \cup RunsCancelledBy(o.rs)
         ELSE /\ queue' = queue \cup {h.run}
              /\ UNCHANGED <<latest, rows, versions, cut>>
  /\ UNCHANGED <<wf, need, report, plans, asked>>

(* The server is killed: what requests and handlers had yet to do is lost, *)
(* with the runs they had yet to push; the rows are on disk.               *)
Crash ==
  /\ Ask
  /\ report' = [r \in Run |-> NoReport] /\ plans' = {}
  /\ freshReports' = {} /\ freshPlans' = {}
  /\ handling' = {} /\ \E lost \in SUBSET queue : queue' = queue \ lost
  /\ cut' = cut \cup {"crash"}
  /\ UNCHANGED <<wf, need, latest, rows>>

Users(r) ==
  \/ \E w \in Workflow : InsertRun(r, w)
  \/ \E jobs \in SUBSET Name : BuildRerunPlan(r, jobs)
  \/ ApproveRuns(r) \/ CancelRun(r)

Reports(r) ==
  \/ ReportAggregate(r) \/ ReportStore(r) \/ ReportLoad(r)
  \/ ReportRun(r) \/ ReportRefused(r) \/ ReportAgain(r)

Next ==
  \/ \E r \in Run : Users(r) \/ Reports(r) \/ HandlerRead(r)
  \/ \E x \in Attempt, j \in Name : ClaimJob(x, j) \/ ReportJob(x, j)
  \/ \E p \in plans : ExecRerunPlan(p) \/ RerunRefused(p)
  \/ \E h \in handling : HandlerCheck(h)
  \/ Crash

Spec == Init /\ [][Next]_vars
-----------------------------------------------------------------------------
(* A run, and an attempt, that is recorded as finished has no job left to  *)
(* run, whatever a report stores late; a rerun could otherwise start       *)
(* beside jobs that still execute.                                         *)
AttemptDone ==
  "revived" \notin cut =>
    \A x \in Attempt : attempt[x] \in Done =>
      \A j \in Name : row[x][j].st \in Done \cup {"none"}

(* The stored statuses agree with the jobs whenever no report about the    *)
(* latest attempt is under way.  Nothing recomputes a status after the last*)
(* job; what the code does about it fails in three cases: a transaction    *)
(* changes the jobs between a report's read and its write, a report finds  *)
(* the run changed and gives up, or the server is killed.                  *)
StatusAgrees ==
  cut \cap {"overtaken", "refused", "crash"} = {} => \A r \in Run : latest[r] # 0 =>
    LET x == <<r, latest[r]>>
    IN \/ report[r].pc # "idle" /\ report[r].att = x
       \/ attempt[x] = AggregateJobStatus(JobStatuses(row, x)) /\ run[r] = attempt[x]

(* Only the latest attempt of a run executes, also when reports come late  *)
(* and reruns were planned before others.                                  *)
OneAttemptAlive ==
  "revived" \notin cut => \A x \in Attempt : x[2] < latest[x[1]] =>
    \A j \in Name : row[x][j].st \in Done \cup {"none"}

(* Of the jobs that are in a group themselves, without cancel-in-progress, *)
(* at most one is on its way to a runner or with one, over all runs and    *)
(* attempts, unless an approval restarts a job.                            *)
GroupExclusive ==
  "revived" \notin cut => \A g \in Group \ InProgress :
    \A p, q \in GroupJobs(g, row, {"waiting"} \cup Active) : p = q

(* A job that starts had all its needs succeed in the same attempt, or its *)
(* need was not run again but passed through from the attempt before.      *)
PassedThrough(x, k) ==
  /\ x[2] > 1 /\ row[x][k].task = "none" /\ row[x][k].st \in Done
  /\ row[x][k].st = row[<<x[1], x[2] - 1>>][k].st
NeedsFirst ==
  "revived" \notin cut =>
    \A x \in Attempt, j \in Name :
      row[x][j].st \in {"waiting"} \cup Active \cup {"success", "failure"} =>
        \A k \in wf[x[1]].needs[j] : row[x][k].st = "success" \/ PassedThrough(x, k)

(* No wake-up is lost: a job that could start is blocked only while its    *)
(* run, or a run of its group, is still to be checked or to end.  All the  *)
(* cuts are excepted (see cut).  A crash, a report that fails, a group that*)
(* several runs waited for when it was released and an approval that meets *)
(* a group not evaluated do lose wake-ups; a check of the attempt before,  *)
(* an approval of a job not blocked and a status overtaken might.          *)
Member(r, g) == wf[r] # None /\ wf[r].group = g /\ g # None
Occupied(r) ==
  \E q \in Run : Member(q, wf[r].group) /\
    \/ Awake(q)
    \/ \E n \in 1..MaxAttempt, j \in Name :
         row[<<q, n>>][j].st \in {"waiting"} \cup Active
NoLostWakeup ==
  cut = {} => \A r \in Run : latest[r] # 0 /\ ~need[r] =>
    LET x == <<r, latest[r]>>
    IN Starts(row, x) \cup Skips(row, x) # {} => Awake(r) \/ Occupied(r)

(* The runs keep RunContract, unless an approval restarts jobs.            *)
Contract == INSTANCE RunContract WITH
  job <- [x \in Attempt |-> [j \in Name |-> row[x][j].st]],
  spoiled <- "revived" \in cut
KeepsRunContract == Contract!Spec
=============================================================================

--------------------------- MODULE ActionsTaskProofs ---------------------------
(***************************************************************************)
(* Proofs about ActionsTask: for any jobs, runners and requests to cancel, *)
(* and any number of tasks.                                                *)
(***************************************************************************)
EXTENDS ActionsTask, TLAPS

Holding == {"claimed", "run"} \cup ReportPc
Stopping == {"stop", "stopJob", "stopBump", "stopTask"}

(* What each runner and each stopper carries between its statements fits   *)
(* the rows: a runner that holds a task owns its row, which nobody else    *)
(* removes, and a stopper's task has once been a task of its job.          *)
Requests ==
  /\ \A r \in Runner :
       /\ runner[r].pc \in Holding =>
            /\ runner[r].task \in Task /\ task[runner[r].task] # "none"
            /\ of[runner[r].task] # None /\ of[runner[r].task].runner = r
       /\ runner[r].pc \in ReportPc => runner[r].verdict \in Final
  /\ \A s \in Stopper :
       /\ stopper[s].pc # "idle" => stopper[s].job \in Job
       /\ stopper[s].pc \in Stopping =>
            /\ stopper[s].task \in Task /\ of[stopper[s].task] # None
            /\ of[stopper[s].task].job = stopper[s].job
            /\ stopper[s].to \in Final \cup {"cancelling"}

(* A task has a row as long as its job names it, and only then.            *)
Rows ==
  /\ \A t \in Task : task[t] # "none" => of[t] # None /\ claim[of[t].job] = t
  /\ \A j \in Job :
       /\ claim[j] # None => of[claim[j]] # None /\ of[claim[j]].job = j /\ task[claim[j]] # "none"
       /\ job[j] \in Pending => claim[j] = None
       /\ job[j] = "running" => claim[j] # None

IInv == TypeOK /\ Requests /\ Rows

(* The inductive invariant holds when the run has been inserted            *)
(* (InsertRun).                                                            *)
LEMMA InitIInv == Init => IInv
BY TaskAssumption DEF Request, StopRequest, Init, IInv, TypeOK, Requests, Rows, Pending, NoRequest, NoStop,
   RunnerPc, StopperPc, Holding, Stopping, ReportPc, Active, Final

(***************************************************************************)
(* What a step of one runner or stopper does to its request.               *)
(***************************************************************************)
Only(r) == runner' \in [Runner -> Request] /\ \A q \in Runner : q # r => runner'[q] = runner[q]
Moves(r, pc) ==
  /\ Only(r) /\ runner'[r].pc = pc
  /\ runner'[r].task = runner[r].task /\ runner'[r].verdict = runner[r].verdict
OnlyStop(s) ==
  stopper' \in [Stopper -> StopRequest] /\ \A q \in Stopper : q # s => stopper'[q] = stopper[q]
StopMoves(s, pc) ==
  /\ OnlyStop(s) /\ stopper'[s].pc = pc /\ stopper'[s].job = stopper[s].job
  /\ stopper'[s].task = stopper[s].task /\ stopper'[s].to = stopper[s].to
  /\ stopper'[s].tx = stopper[s].tx

(* A step of a runner changes its own request only: where it goes and what *)
(* it carries (FetchTask, UpdateTaskByState).                              *)
LEMMA RunnerEffects ==
  ASSUME TypeOK, NEW r \in Runner
  PROVE  /\ FetchVersion(r) => Moves(r, "scan")
         /\ PickScan(r) => /\ Only(r) /\ runner'[r].pc = "pick"
                           /\ runner'[r].cand = {j \in Job : job[j] = "waiting" /\ claim[j] = None}
         /\ \A j \in Job : PickLost(r, j) => /\ Only(r) /\ runner'[r].pc = "pick"
                                           /\ runner'[r].cand = runner[r].cand \ {j}
         /\ \A j \in Job, t \in Task : PickClaim(r, j, t) =>
               Only(r) /\ runner'[r].pc = "claimed" /\ runner'[r].task = t
         /\ PickNone(r) \/ PickReleased(r) \/ RunnerLost(r) \/ ReportBump(r)
               => Only(r) /\ runner'[r].pc = "idle"
         /\ PickDelivered(r) => Moves(r, "run")
         /\ ReportRead(r) /\ task[runner[r].task] \in Final => Only(r) /\ runner'[r].pc = "idle"
         /\ ReportRead(r) /\ task[runner[r].task] \notin Final =>
               /\ Only(r) /\ runner'[r].pc = "reportTask" /\ runner'[r].verdict \in Final
               /\ runner'[r].task = runner[r].task
         /\ ReportTask(r) => Moves(r, "reportJob")
         /\ ReportJob(r) => Moves(r, "reportBump")
         /\ ReportCut(r) => Only(r) /\ runner'[r].pc = "run" /\ runner'[r].task = runner[r].task
<1>0. runner[r] \in Request
  BY DEF TypeOK
<1>1. ASSUME NEW pc \in RunnerPc, runner' = [runner EXCEPT ![r].pc = pc]
      PROVE  Moves(r, pc)
  <2>1. ASSUME NEW q \in Request
        PROVE  LET n == [q EXCEPT !.pc = pc]
               IN n \in Request /\ n.pc = pc /\ n.task = q.task /\ n.verdict = q.verdict
    BY DEF Request
  <2> QED BY <1>0, <1>1, <2>1 DEF TypeOK, Moves, Only
<1>2. ASSUME runner' = [runner EXCEPT ![r] = NoRequest]
      PROVE  Only(r) /\ runner'[r].pc = "idle"
  <2>1. NoRequest \in Request /\ NoRequest.pc = "idle"
    BY DEF Request, NoRequest, RunnerPc
  <2> QED BY <1>2, <2>1 DEF TypeOK, Only
<1>3. /\ FetchVersion(r) => Moves(r, "scan")
      /\ PickDelivered(r) => Moves(r, "run")
      /\ ReportTask(r) => Moves(r, "reportJob")
      /\ ReportJob(r) => Moves(r, "reportBump")
  BY <1>1 DEF FetchVersion, PickDelivered, ReportTask, ReportJob, RunnerPc, ReportPc
<1>4. /\ PickNone(r) \/ PickReleased(r) \/ RunnerLost(r) \/ ReportBump(r)
            => Only(r) /\ runner'[r].pc = "idle"
      /\ ReportRead(r) /\ task[runner[r].task] \in Final => Only(r) /\ runner'[r].pc = "idle"
  BY <1>2 DEF PickNone, PickReleased, RunnerLost, ReportBump, ReportRead
<1>5. ASSUME PickScan(r)
      PROVE  /\ Only(r) /\ runner'[r].pc = "pick"
             /\ runner'[r].cand = {j \in Job : job[j] = "waiting" /\ claim[j] = None}
  <2> DEFINE w == {j \in Job : job[j] = "waiting" /\ claim[j] = None}
  <2>1. runner' = [runner EXCEPT ![r] = [[@ EXCEPT !.pc = "pick"] EXCEPT !.cand = w]]
    BY <1>5 DEF PickScan
  <2>2. ASSUME NEW q \in Request, NEW c \in SUBSET Job
        PROVE  LET n == [[q EXCEPT !.pc = "pick"] EXCEPT !.cand = c]
               IN n \in Request /\ n.pc = "pick" /\ n.cand = c
    BY DEF Request, RunnerPc
  <2>3. w \in SUBSET Job
    OBVIOUS
  <2> HIDE DEF w
  <2>4. runner' = [runner EXCEPT ![r] = runner'[r]] /\ runner'[r] \in Request
        /\ runner'[r].pc = "pick" /\ runner'[r].cand = w
    BY <1>0, <2>1, <2>2, <2>3 DEF TypeOK
  <2> QED BY <2>4 DEF TypeOK, Only, w
<1>6. ASSUME NEW j \in Job, PickLost(r, j)
      PROVE  Only(r) /\ runner'[r].pc = "pick" /\ runner'[r].cand = runner[r].cand \ {j}
  <2>1. ASSUME NEW q \in Request
        PROVE  LET n == [q EXCEPT !.cand = @ \ {j}]
               IN n \in Request /\ n.pc = q.pc /\ n.cand = q.cand \ {j}
    BY DEF Request
  <2> QED BY <1>0, <1>6, <2>1 DEF PickLost, TypeOK, Only
<1>7. ASSUME NEW j \in Job, NEW t \in Task, PickClaim(r, j, t)
      PROVE  Only(r) /\ runner'[r].pc = "claimed" /\ runner'[r].task = t
  <2> DEFINE n == [NoRequest EXCEPT !.pc = "claimed", !.task = t]
  <2>1. n \in Request /\ n.pc = "claimed" /\ n.task = t
    BY DEF Request, NoRequest, RunnerPc
  <2> QED BY <1>7, <2>1 DEF PickClaim, TypeOK, Only
<1>8. ASSUME ReportRead(r), task[runner[r].task] \notin Final
      PROVE  /\ Only(r) /\ runner'[r].pc = "reportTask" /\ runner'[r].verdict \in Final
             /\ runner'[r].task = runner[r].task
  <2> DEFINE v == IF task[runner[r].task] = "cancelling" THEN "cancelled" ELSE "done"
  <2>1. ASSUME NEW q \in Request
        PROVE  LET n == [[q EXCEPT !.pc = "reportTask"] EXCEPT !.verdict = v]
               IN n \in Request /\ n.pc = "reportTask" /\ n.task = q.task /\ n.verdict \in Final
    BY DEF Request, RunnerPc, ReportPc, Final
  <2>2. runner' = [runner EXCEPT ![r] = [[@ EXCEPT !.pc = "reportTask"] EXCEPT !.verdict = v]]
    BY <1>8 DEF ReportRead
  <2> HIDE DEF v
  <2> QED BY <2>1, <2>2 DEF TypeOK, Only
<1>9. ASSUME ReportCut(r)
      PROVE  Only(r) /\ runner'[r].pc = "run" /\ runner'[r].task = runner[r].task
  <2>1. ASSUME NEW q \in Request
        PROVE  LET n == [[q EXCEPT !.pc = "run"] EXCEPT !.verdict = None]
               IN n \in Request /\ n.pc = "run" /\ n.task = q.task
    BY DEF Request, RunnerPc
  <2> QED BY <1>0, <1>9, <2>1 DEF ReportCut, TypeOK, Only
<1> QED BY <1>3, <1>4, <1>5, <1>6, <1>7, <1>8, <1>9

(* A step of a stopper changes its own request only (cancelOneJob,         *)
(* stopTasks, StopTask).                                                   *)
LEMMA StopperEffects ==
  ASSUME TypeOK, NEW s \in Stopper
  PROVE  /\ \A j \in Job, tx \in BOOLEAN : CancelRead(s, j, tx) =>
               /\ OnlyStop(s) /\ stopper'[s].job = j /\ stopper'[s].task = claim[j]
               /\ stopper'[s].pc = IF claim[j] = None THEN "cancelJob" ELSE "stop"
               /\ stopper'[s].to = "cancelling"
         /\ \A t \in Task : ZombieRead(s, t) /\ of[t] # None =>
               /\ OnlyStop(s) /\ stopper'[s].pc = "stop" /\ stopper'[s].job = of[t].job
               /\ stopper'[s].task = t /\ stopper'[s].tx /\ stopper'[s].to \in {"cancelled", "done"}
         /\ CancelUnclaimed(s) => StopMoves(s, "cancelBump") \/ (OnlyStop(s) /\ stopper'[s].pc = "idle")
         /\ StopRead(s) /\ task[stopper[s].task] \notin Active => OnlyStop(s) /\ stopper'[s].pc = "idle"
         /\ StopRead(s) /\ task[stopper[s].task] \in Active /\ stopper[s].to \in Final \cup {"cancelling"} =>
               /\ OnlyStop(s) /\ stopper'[s].pc = "stopJob" /\ stopper'[s].job = stopper[s].job
               /\ stopper'[s].task = stopper[s].task /\ stopper'[s].tx = stopper[s].tx
               /\ stopper'[s].to = IF /\ stopper[s].to = "cancelling"
                                      /\ of[stopper[s].task].runner \notin Cancelling
                                   THEN "cancelled" ELSE stopper[s].to
         /\ StopJob(s) => StopMoves(s, IF stopper[s].tx \/ stopper[s].to \notin Final
                                       THEN "stopTask" ELSE "stopBump")
         /\ StopBump(s) => \/ stopper[s].pc = "stopBump" /\ StopMoves(s, "stopTask")
                           \/ OnlyStop(s) /\ stopper'[s].pc = "idle"
         /\ StopTask(s) \/ StopCut(s) => OnlyStop(s) /\ stopper'[s].pc = "idle"
<1>0. stopper[s] \in StopRequest
  BY DEF TypeOK
<1>1. ASSUME NEW pc \in StopperPc, stopper' = [stopper EXCEPT ![s].pc = pc]
      PROVE  StopMoves(s, pc)
  <2>1. ASSUME NEW q \in StopRequest
        PROVE  LET n == [q EXCEPT !.pc = pc]
               IN /\ n \in StopRequest /\ n.pc = pc /\ n.job = q.job /\ n.task = q.task
                  /\ n.to = q.to /\ n.tx = q.tx
    BY DEF StopRequest
  <2> QED BY <1>0, <1>1, <2>1 DEF TypeOK, StopMoves, OnlyStop
<1>2. ASSUME stopper' = [stopper EXCEPT ![s] = NoStop]
      PROVE  OnlyStop(s) /\ stopper'[s].pc = "idle"
  <2>1. NoStop \in StopRequest /\ NoStop.pc = "idle"
    BY DEF StopRequest, NoStop, StopperPc
  <2> QED BY <1>2, <2>1 DEF TypeOK, OnlyStop
<1>3. ASSUME NEW j \in Job, NEW tx \in BOOLEAN, CancelRead(s, j, tx)
      PROVE  /\ OnlyStop(s) /\ stopper'[s].job = j /\ stopper'[s].task = claim[j]
             /\ stopper'[s].pc = IF claim[j] = None THEN "cancelJob" ELSE "stop"
             /\ stopper'[s].to = "cancelling"
  <2> DEFINE n == [pc |-> IF claim[j] = None THEN "cancelJob" ELSE "stop",
                   job |-> j, task |-> claim[j], to |-> "cancelling", tx |-> tx]
  <2>1. n \in StopRequest
    BY DEF StopRequest, StopperPc, TypeOK, Active
  <2> QED BY <1>3, <2>1 DEF CancelRead, TypeOK, OnlyStop
<1>4. ASSUME NEW t \in Task, ZombieRead(s, t), of[t] # None
      PROVE  /\ OnlyStop(s) /\ stopper'[s].pc = "stop" /\ stopper'[s].job = of[t].job
             /\ stopper'[s].task = t /\ stopper'[s].tx /\ stopper'[s].to \in {"cancelled", "done"}
  <2> DEFINE n == [pc |-> "stop", job |-> of[t].job, task |-> t,
                   to |-> IF task[t] = "cancelling" THEN "cancelled" ELSE "done", tx |-> TRUE]
  <2>1. n \in StopRequest
    BY <1>4 DEF StopRequest, StopperPc, Final, TypeOK
  <2> QED BY <1>4, <2>1 DEF ZombieRead, TypeOK, OnlyStop
<1>5. CancelUnclaimed(s) => StopMoves(s, "cancelBump") \/ (OnlyStop(s) /\ stopper'[s].pc = "idle")
  BY <1>1, <1>2 DEF CancelUnclaimed, StopperPc
<1>6. StopRead(s) /\ task[stopper[s].task] \notin Active => OnlyStop(s) /\ stopper'[s].pc = "idle"
  BY <1>2 DEF StopRead
<1>7. ASSUME StopRead(s), task[stopper[s].task] \in Active, stopper[s].to \in Final \cup {"cancelling"}
      PROVE  /\ OnlyStop(s) /\ stopper'[s].pc = "stopJob" /\ stopper'[s].job = stopper[s].job
             /\ stopper'[s].task = stopper[s].task /\ stopper'[s].tx = stopper[s].tx
             /\ stopper'[s].to = IF /\ stopper[s].to = "cancelling"
                                    /\ of[stopper[s].task].runner \notin Cancelling
                                 THEN "cancelled" ELSE stopper[s].to
  <2> DEFINE to == IF stopper[s].to = "cancelling" /\ of[stopper[s].task].runner \notin Cancelling
                   THEN "cancelled" ELSE stopper[s].to
  <2>1. to \in Final \cup {"cancelling"}
    BY <1>7 DEF Final
  <2>2. stopper' = [stopper EXCEPT ![s] = [[@ EXCEPT !.pc = "stopJob"] EXCEPT !.to = to]]
    BY <1>7 DEF StopRead
  <2> HIDE DEF to
  <2>3. ASSUME NEW q \in StopRequest
        PROVE  LET n == [[q EXCEPT !.pc = "stopJob"] EXCEPT !.to = to]
               IN /\ n \in StopRequest /\ n.pc = "stopJob" /\ n.to = to /\ n.job = q.job
                  /\ n.task = q.task /\ n.tx = q.tx
    BY <2>1 DEF StopRequest, StopperPc, Active
  <2>4. /\ OnlyStop(s) /\ stopper'[s].pc = "stopJob" /\ stopper'[s].job = stopper[s].job
        /\ stopper'[s].task = stopper[s].task /\ stopper'[s].tx = stopper[s].tx
        /\ stopper'[s].to = to
    BY <1>0, <2>2, <2>3 DEF TypeOK, OnlyStop
  <2> QED BY <2>4 DEF to
<1>8. StopJob(s) => StopMoves(s, IF stopper[s].tx \/ stopper[s].to \notin Final
                                THEN "stopTask" ELSE "stopBump")
  BY <1>1 DEF StopJob, StopperPc
<1>9. StopBump(s) => \/ stopper[s].pc = "stopBump" /\ StopMoves(s, "stopTask")
                     \/ OnlyStop(s) /\ stopper'[s].pc = "idle"
  <2>1. ASSUME StopBump(s), stopper[s].pc = "stopBump" PROVE StopMoves(s, "stopTask")
    <3>1. stopper' = [stopper EXCEPT ![s].pc = "stopTask"] /\ "stopTask" \in StopperPc
      BY <2>1 DEF StopBump, StopperPc
    <3> QED BY <1>1, <2>1, <3>1
  <2>2. CASE stopper[s].pc # "stopBump"
    BY <1>2, <2>2 DEF StopBump
  <2> QED BY <2>1, <2>2
<1>10. StopTask(s) \/ StopCut(s) => OnlyStop(s) /\ stopper'[s].pc = "idle"
  BY <1>2 DEF StopTask, StopCut
<1> QED BY <1>3, <1>4, <1>5, <1>6, <1>7, <1>8, <1>9, <1>10

(* A step that leaves the rows alone.                                      *)
LEMMA LocalStep ==
  ASSUME IInv, UNCHANGED <<rows, stopper>>, NEW r \in Runner, Only(r),
         version' \in [Runner -> {"latest", "old", "read"}], cut' \subseteq {"write", "release"},
         runner'[r].pc \in Holding => runner[r].pc \in Holding /\ runner'[r].task = runner[r].task,
         runner'[r].pc \in ReportPc => runner'[r].verdict \in Final
  PROVE  IInv'
<1>1. TypeOK'
  BY DEF IInv, TypeOK, Only, rows
<1>2. Requests'
  BY DEF IInv, Requests, Only, rows
<1>3. Rows'
  BY DEF IInv, Rows, rows
<1> QED BY <1>1, <1>2, <1>3 DEF IInv

(* A step of a stopper that leaves the rows and the runners alone.         *)
LEMMA LocalStopStep ==
  ASSUME IInv, UNCHANGED <<rows, runner>>, NEW s \in Stopper, OnlyStop(s),
         version' \in [Runner -> {"latest", "old", "read"}], cut' \subseteq {"write", "release"},
         stopper'[s].pc # "idle" => stopper'[s].job \in Job,
         stopper'[s].pc \in Stopping =>
            /\ stopper'[s].task \in Task /\ of[stopper'[s].task] # None
            /\ of[stopper'[s].task].job = stopper'[s].job
            /\ stopper'[s].to \in Final \cup {"cancelling"}
  PROVE  IInv'
<1>1. TypeOK'
  BY DEF IInv, TypeOK, OnlyStop, rows
<1>2. Requests'
  BY DEF IInv, Requests, OnlyStop, rows
<1>3. Rows'
  BY DEF IInv, Rows, rows
<1> QED BY <1>1, <1>2, <1>3 DEF IInv

(* The job emitter (checkJobsOfCurrentRunAttempt).                         *)
LEMMA EmitterIInv ==
  ASSUME IInv, NEW j \in Job, JobReady(j) \/ JobSkipped(j)
  PROVE  IInv'
<1> USE DEF IInv, JobReady, JobSkipped, WakeIfWaiting, IncreaseTaskVersion
<1>1. TypeOK'
  BY DEF TypeOK, Pending, Final
<1>2. Requests'
  BY DEF Requests
<1>3. Rows'
  BY DEF TypeOK, Rows, Pending
<1> QED BY <1>1, <1>2, <1>3

(* FetchTask up to the claim, and after it (PickTask).                     *)
LEMMA FetchIInv ==
  ASSUME IInv, NEW r \in Runner, Fetch(r)
  PROVE  IInv'
<1> USE DEF IInv
<1>0. /\ version' = [version EXCEPT ![r] = "read"] \/ version' = [version EXCEPT ![r] = "old"]
         \/ TakeVersion(r) \/ UNCHANGED version
           => version' \in [Runner -> {"latest", "old", "read"}]
      /\ UNCHANGED cut => cut' \subseteq {"write", "release"}
  BY DEF TypeOK, TakeVersion
<1>1. ASSUME FetchVersion(r) \/ PickScan(r) \/ PickNone(r) \/ PickDelivered(r) \/ RunnerLost(r)
             \/ \E j \in Job : PickLost(r, j)
      PROVE  IInv'
  <2>1. UNCHANGED <<rows, stopper, cut>> /\ version' \in [Runner -> {"latest", "old", "read"}]
    BY <1>0, <1>1 DEF FetchVersion, PickScan, PickNone, PickDelivered, RunnerLost, PickLost
  <2>2. /\ Only(r) /\ runner'[r].pc \notin ReportPc
        /\ runner'[r].pc \in Holding => runner[r].pc \in Holding /\ runner'[r].task = runner[r].task
    BY <1>1, RunnerEffects DEF PickDelivered, Moves, Holding, ReportPc
  <2> QED BY <1>0, <2>1, <2>2, LocalStep
<1>2. ASSUME NEW j \in Job, NEW t \in Task, PickClaim(r, j, t) PROVE IInv'
  <2>1. Only(r) /\ runner'[r].pc = "claimed" /\ runner'[r].task = t
    BY <1>2, RunnerEffects
  <2> USE <1>2, <2>1 DEF PickClaim, Claimable
  <2>2. TypeOK'
    BY DEF TypeOK, Active, Only
  <2>3. Requests'
    BY TaskAssumption DEF TypeOK, Requests, Only, ReportPc, Holding
  <2>4. Rows'
    BY TaskAssumption DEF TypeOK, Rows, Pending
  <2> QED BY <2>2, <2>3, <2>4
<1>3. CASE PickReleased(r)
  <2> DEFINE t == runner[r].task
             j == of[t].job
  <2>1. t \in Task /\ of[t] # None /\ j \in Job /\ of[t].runner = r
    BY <1>3 DEF PickReleased, Requests, TypeOK, Holding
  <2>2. Only(r) /\ runner'[r].pc = "idle"
    BY <1>3, RunnerEffects DEF PickReleased
  <2>3. cut' \subseteq {"write", "release"}
    BY <1>3 DEF PickReleased, TypeOK
  <2>4. CASE Releasable(r)
    <3>1. /\ job' = [job EXCEPT ![j] = "waiting"]
          /\ claim' = [claim EXCEPT ![j] = None]
          /\ task' = [task EXCEPT ![t] = "none"]
          /\ version' = [q \in Runner |-> "old"]
          /\ UNCHANGED <<of, stopper>>
          /\ claim[j] = t
      BY <1>3, <2>4 DEF PickReleased, Releasable, IncreaseTaskVersion
    <3> HIDE DEF j, t
    <3>2. TypeOK'
      BY <2>1, <2>2, <2>3, <3>1 DEF TypeOK, Pending, Only
    <3>3. Requests'
      <4>1. \A q \in Runner : runner'[q].pc \in Holding => q # r /\ runner'[q].task # t
        BY <2>1, <2>2 DEF Requests, Only, Holding, ReportPc
      <4>2. runner'[r].pc \notin ReportPc
        BY <2>2 DEF ReportPc
      <4> QED BY <2>1, <2>2, <3>1, <4>1, <4>2 DEF TypeOK, Requests, Only
    <3>4. Rows'
      BY <2>1, <3>1 DEF TypeOK, Rows, Pending
    <3> QED BY <3>2, <3>3, <3>4
  <2>5. CASE ~Releasable(r)
    <3>1. UNCHANGED <<rows, stopper>> /\ version' = [version EXCEPT ![r] = "old"]
      BY <1>3, <2>5 DEF PickReleased, rows
    <3> QED BY <1>0, <2>2, <2>3, <3>1, LocalStep DEF Holding, ReportPc
  <2> QED BY <2>4, <2>5
<1> QED BY <1>1, <1>2, <1>3 DEF Fetch

(* UpdateTaskByState.                                                      *)
LEMMA ReportIInv ==
  ASSUME IInv, NEW r \in Runner, Report(r)
  PROVE  IInv'
<1> USE DEF IInv
<1>1. CASE ReportRead(r)
  <2>1. UNCHANGED <<rows, version, stopper, cut>> /\ runner[r].pc \in Holding
    BY <1>1 DEF ReportRead, Holding
  <2>2. /\ Only(r)
        /\ \/ runner'[r].pc = "idle"
           \/ runner'[r].verdict \in Final /\ runner'[r].task = runner[r].task
    BY <1>1, RunnerEffects
  <2> QED BY <2>1, <2>2, LocalStep DEF TypeOK, Holding, ReportPc
<1>2. CASE ReportCut(r)
  <2>1. Only(r) /\ runner'[r].pc = "run" /\ runner'[r].task = runner[r].task
    BY <1>2, RunnerEffects
  <2>2. cut' \subseteq {"write", "release"}
    BY <1>2 DEF ReportCut, TypeOK
  <2> QED BY <1>2, <2>1, <2>2, LocalStep DEF ReportCut, TypeOK, Holding, ReportPc
<1>3. ASSUME ReportTask(r) \/ ReportJob(r) PROVE IInv'
  <2>1. /\ runner[r].task \in Task /\ runner[r].verdict \in Final
        /\ runner[r].pc \in Holding /\ of[runner[r].task].job \in Job
    BY <1>3 DEF ReportTask, ReportJob, Requests, TypeOK, Holding, ReportPc
  <2>2. Moves(r, "reportJob") \/ Moves(r, "reportBump")
    BY <1>3, RunnerEffects
  <2>3. CASE ReportTask(r)
    <3> USE <2>1, <2>2, <2>3 DEF ReportTask
    <3>1. TypeOK'
      BY DEF TypeOK, Moves, Only
    <3>2. Requests'
      BY DEF TypeOK, Requests, Moves, Only, Final
    <3>3. Rows'
      BY DEF TypeOK, Requests, Rows, Holding, Final
    <3> QED BY <3>1, <3>2, <3>3
  <2>4. CASE ReportJob(r)
    <3> USE <2>1, <2>2, <2>4 DEF ReportJob
    <3>1. TypeOK'
      BY DEF TypeOK, Moves, Only
    <3>2. Requests'
      BY DEF TypeOK, Requests, Moves, Only
    <3>3. Rows'
      BY DEF TypeOK, Rows, Pending, Final
    <3> QED BY <3>1, <3>2, <3>3
  <2> QED BY <1>3, <2>3, <2>4
<1>4. CASE ReportBump(r)
  <2>1. Only(r) /\ runner'[r].pc = "idle"
    BY <1>4, RunnerEffects
  <2>2. version' \in [Runner -> {"latest", "old", "read"}]
    BY <1>4 DEF ReportBump, WakeIfStillDone, WakeIfWaiting, IncreaseTaskVersion, TypeOK
  <2> QED BY <1>4, <2>1, <2>2, LocalStep DEF ReportBump, TypeOK, Holding, ReportPc
<1> QED BY <1>1, <1>2, <1>3, <1>4 DEF Report

(* CancelJobs, the cron tasks and StopTask.                                *)
LEMMA StopIInv ==
  ASSUME IInv, NEW s \in Stopper, Stop(s)
  PROVE  IInv'
<1> USE DEF IInv
<1>1. ASSUME NEW j \in Job, NEW tx \in BOOLEAN, CancelRead(s, j, tx) PROVE IInv'
  <2>1. /\ OnlyStop(s) /\ stopper'[s].job = j /\ stopper'[s].task = claim[j]
        /\ stopper'[s].pc \in Stopping => claim[j] # None
        /\ stopper'[s].to = "cancelling"
    BY <1>1, StopperEffects DEF Stopping
  <2> QED BY <1>1, <2>1, LocalStopStep DEF CancelRead, Rows, TypeOK, runnerVars
<1>2. ASSUME NEW t \in Task, ZombieRead(s, t) PROVE IInv'
  <2>1. of[t] # None /\ of[t].job \in Job
    BY <1>2 DEF ZombieRead, TypeOK, Rows, Active
  <2>2. /\ OnlyStop(s) /\ stopper'[s].job = of[t].job
        /\ stopper'[s].task = t /\ stopper'[s].to \in Final
    BY <1>2, <2>1, StopperEffects DEF Final
  <2> QED BY <1>2, <2>1, <2>2, LocalStopStep DEF ZombieRead, TypeOK, runnerVars
<1>3. CASE CancelUnclaimed(s)
  <2> DEFINE j == stopper[s].job
  <2>1. j \in Job
    BY <1>3 DEF CancelUnclaimed, Requests
  <2>2. StopMoves(s, "cancelBump") \/ (OnlyStop(s) /\ stopper'[s].pc = "idle")
    BY <1>3, StopperEffects
  <2>3. /\ UNCHANGED <<claim, task, of, runner, cut>>
        /\ UNCHANGED job \/ job' = [job EXCEPT ![j] = "cancelled"]
        /\ UNCHANGED version \/ version' = [q \in Runner |-> "old"]
    BY <1>3 DEF CancelUnclaimed, WakeIfWaiting, IncreaseTaskVersion
  <2> HIDE DEF j
  <2>4. TypeOK'
    BY <2>1, <2>2, <2>3 DEF TypeOK, StopMoves, OnlyStop, Final
  <2>5. Requests'
    BY <1>3, <2>2, <2>3 DEF Requests, StopMoves, OnlyStop, Stopping, CancelUnclaimed
  <2>6. Rows'
    BY <2>1, <2>3 DEF TypeOK, Rows, Pending
  <2> QED BY <2>4, <2>5, <2>6
<1>4. CASE StopRead(s)
  <2>1. /\ stopper[s].task \in Task /\ of[stopper[s].task] # None
        /\ of[stopper[s].task].job = stopper[s].job /\ stopper[s].job \in Job
        /\ stopper[s].to \in Final \cup {"cancelling"}
    BY <1>4 DEF StopRead, Requests, Stopping
  <2>2. /\ OnlyStop(s)
        /\ \/ stopper'[s].pc = "idle"
           \/ /\ stopper'[s].to \in Final \cup {"cancelling"}
              /\ stopper'[s].job = stopper[s].job /\ stopper'[s].task = stopper[s].task
    BY <1>4, <2>1, StopperEffects DEF Final
  <2> QED BY <1>4, <2>1, <2>2, LocalStopStep DEF StopRead, TypeOK, Stopping, runnerVars
<1>5. CASE StopJob(s)
  <2> DEFINE j == stopper[s].job
  <2>1. j \in Job /\ stopper[s].pc \in Stopping /\ stopper[s].to \in Final \cup {"cancelling"}
    BY <1>5 DEF StopJob, Requests, Stopping
  <2>2. StopMoves(s, "stopTask") \/ StopMoves(s, "stopBump")
    BY <1>5, StopperEffects
  <2>3. /\ UNCHANGED <<claim, task, of, version, runner, cut>>
        /\ UNCHANGED job \/ job' = [job EXCEPT ![j] = stopper[s].to]
    BY <1>5 DEF StopJob, runnerVars
  <2> HIDE DEF j
  <2>4. TypeOK'
    BY <2>1, <2>2, <2>3 DEF TypeOK, StopMoves, OnlyStop, Active
  <2>5. Requests'
    BY <2>1, <2>2, <2>3 DEF Requests, StopMoves, OnlyStop, Stopping
  <2>6. Rows'
    BY <2>1, <2>3 DEF TypeOK, Rows, Pending, Final
  <2> QED BY <2>4, <2>5, <2>6
<1>6. CASE StopBump(s) \/ StopCut(s)
  <2>1. version' \in [Runner -> {"latest", "old", "read"}] /\ cut' \subseteq {"write", "release"}
    BY <1>6 DEF StopBump, StopCut, WakeIfStillDone, WakeIfWaiting, IncreaseTaskVersion, TypeOK, runnerVars
  <2>2. CASE stopper[s].pc = "stopBump" /\ StopMoves(s, "stopTask")
    BY <1>6, <2>1, <2>2, LocalStopStep DEF StopBump, StopCut, StopMoves, Requests, Stopping, runnerVars
  <2>3. CASE OnlyStop(s) /\ stopper'[s].pc = "idle"
    BY <1>6, <2>1, <2>3, LocalStopStep DEF StopBump, StopCut, Stopping, runnerVars
  <2> QED BY <1>6, <2>2, <2>3, StopperEffects
<1>7. CASE StopTask(s)
  <2> DEFINE j == stopper[s].job
             t == stopper[s].task
             to == stopper[s].to
  <2>1. j \in Job /\ t \in Task /\ to \in Final \cup {"cancelling"}
    BY <1>7 DEF StopTask, Requests, Stopping
  <2>2. OnlyStop(s) /\ stopper'[s].pc = "idle"
    BY <1>7, StopperEffects
  <2>3. /\ UNCHANGED <<claim, of, runner, cut>>
        /\ UNCHANGED job \/ job' = [job EXCEPT ![j] = to]
        /\ task' = [task EXCEPT ![t] = IF @ = "none" THEN @ ELSE to]
        /\ UNCHANGED version \/ version' = [q \in Runner |-> "old"]
    BY <1>7 DEF StopTask, WakeIfWaiting, IncreaseTaskVersion
  <2> HIDE DEF j, t, to
  <2>4. TypeOK'
    BY <2>1, <2>2, <2>3 DEF TypeOK, OnlyStop, Active
  <2>5. Requests'
    BY <2>1, <2>2, <2>3 DEF TypeOK, Requests, OnlyStop, Stopping, Final
  <2>6. Rows'
    BY <2>1, <2>3 DEF TypeOK, Rows, Pending, Final
  <2> QED BY <2>4, <2>5, <2>6
<1> QED BY <1>1, <1>2, <1>3, <1>4, <1>5, <1>6, <1>7 DEF Stop

(* Nothing changes.                                                        *)
LEMMA StutterIInv == IInv /\ UNCHANGED vars => IInv'
BY DEF IInv, vars, rows, runnerVars, TypeOK, Requests, Rows

(* The inductive invariant holds in every reachable state.                 *)
LEMMA IInvHolds == Spec => []IInv
<1>1. IInv /\ [Next]_vars => IInv'
  BY EmitterIInv, FetchIInv, ReportIInv, StopIInv, StutterIInv DEF Next, Emitter
<1> QED BY InitIInv, <1>1, PTL DEF Spec

(* The rows and requests keep their types.                                 *)
THEOREM TypeCorrect == Spec => []TypeOK
BY IInvHolds, PTL DEF IInv

(* At most one task of a job may run, and the job names it                 *)
(* (claimJobForRunner, ReleaseTaskForRunner).                              *)
THEOREM AtMostOneTask == Spec => []OneLiveTask
<1>1. IInv => OneLiveTask
  BY DEF IInv, TypeOK, Rows, OneLiveTask, Active, Final
<1> QED BY IInvHolds, <1>1, PTL

(* A job that is done is not handed out again.                             *)
THEOREM NotRestarted == Spec => DoneIsNotRestarted
<1> DEFINE Kept == \A j \in Job : job[j] \in Final => job'[j] \notin Pending /\ claim'[j] = claim[j]
<1>1. IInv /\ [Next]_vars => [Kept]_vars
  <2> SUFFICES ASSUME IInv, [Next]_vars PROVE Kept
    OBVIOUS
  <2> USE DEF IInv, TypeOK, Final, Pending, Active, rows, runnerVars
  <2>1. CASE Emitter
    BY <2>1 DEF Emitter, JobReady, JobSkipped
  <2>2. ASSUME NEW r \in Runner, Fetch(r) PROVE Kept
    <3>1. CASE PickReleased(r)
      BY <3>1 DEF PickReleased, Releasable
    <3> QED BY <2>2, <3>1 DEF Fetch, FetchVersion, PickScan, PickNone, PickDelivered, RunnerLost,
               PickLost, PickClaim, Claimable
  <2>3. ASSUME NEW r \in Runner, Report(r) PROVE Kept
    BY <2>3 DEF Report, ReportRead, ReportTask, ReportJob, ReportBump, ReportCut, Requests, ReportPc
  <2>4. ASSUME NEW s \in Stopper, Stop(s) PROVE Kept
    BY <2>4 DEF Stop, CancelRead, ZombieRead, CancelUnclaimed, StopRead, StopJob, StopBump,
       StopTask, StopCut, Requests, Stopping
  <2>5. CASE UNCHANGED vars
    BY <2>5 DEF vars
  <2> QED BY <2>1, <2>2, <2>3, <2>4, <2>5 DEF Next
<1> QED BY IInvHolds, <1>1, PTL DEF Spec, DoneIsNotRestarted
-----------------------------------------------------------------------------
(***************************************************************************)
(* No job is stranded.                                                     *)
(***************************************************************************)

(* What a stopper that is past its reading of the task can rely on, as     *)
(* long as no task is released under it: the task has its row, and whether *)
(* it is to clean up was decided by its runner, the same for everyone.     *)
Sure(s) ==
  /\ stopper[s].pc = "stop" /\ ~stopper[s].tx => stopper[s].to = "cancelling"
  /\ stopper[s].pc \in {"stopJob", "stopBump", "stopTask"} =>
       /\ task[stopper[s].task] # "none"
       /\ stopper[s].to = "cancelling" => of[stopper[s].task].runner \in Cancelling
       /\ ~stopper[s].tx /\ stopper[s].to \in Final => of[stopper[s].task].runner \notin Cancelling
       /\ ~stopper[s].tx /\ stopper[s].pc # "stopJob" => job[stopper[s].job] # "running"
Safe(j) ==
  /\ job[j] = "cancelling" => claim[j] # None /\ of[claim[j]].runner \in Cancelling
  /\ job[j] \in Active => Tracked(j) \/ HalfWritten(j)
Tended == cut = {} => (\A s \in Stopper : Sure(s)) /\ (\A j \in Job : Safe(j))

(* A step that leaves a job, and who is at work on it, as they were.       *)
LEMMA StaysSafe ==
  ASSUME IInv, NEW j \in Job, Safe(j), job'[j] = job[j], claim'[j] = claim[j],
         claim[j] # None => of'[claim[j]] = of[claim[j]] /\ task'[claim[j]] = task[claim[j]],
         \A r \in Runner : runner[r].pc = "reportJob" /\ runner[r].task = claim[j]
                             => runner'[r].pc = "reportJob" /\ runner'[r].task = claim[j],
         \A s \in Stopper : stopper[s].pc \in {"stopTask", "stopBump"} /\ ~stopper[s].tx
                              /\ stopper[s].task = claim[j]
                                => /\ stopper'[s].pc \in {"stopTask", "stopBump"} /\ ~stopper'[s].tx
                                   /\ stopper'[s].task = claim[j]
  PROVE  Safe(j)'
BY DEF Safe, Tracked, HalfWritten

(* FetchTask leaves every job tended: a claim and a release change job and *)
(* task together.                                                          *)
LEMMA FetchTended ==
  ASSUME IInv, Tended, NEW r \in Runner, Fetch(r)
  PROVE  Tended'
<1> SUFFICES ASSUME cut' = {} PROVE (\A s \in Stopper : Sure(s)') /\ (\A j \in Job : Safe(j)')
  BY DEF Tended
<1>1. TypeOK
  BY DEF IInv
<1>2. /\ Only(r) /\ UNCHANGED stopper /\ runner[r].pc # "reportJob" /\ cut = {}
  <2>1. Only(r)
    BY <1>1, RunnerEffects DEF Fetch, Moves
  <2> QED BY <2>1 DEF Fetch, FetchVersion, PickScan, PickNone, PickDelivered, PickReleased, RunnerLost,
             PickLost, PickClaim
<1>3. (\A s \in Stopper : Sure(s)) /\ (\A j \in Job : Safe(j))
  BY <1>2 DEF Tended
<1>4. ASSUME NEW j \in Job, NEW t \in Task, PickClaim(r, j, t)
      PROVE  (\A s \in Stopper : Sure(s)') /\ (\A i \in Job : Safe(i)')
  <2>1. /\ of[t] = None /\ claim[j] = None
        /\ task' = [task EXCEPT ![t] = "running"] /\ job' = [job EXCEPT ![j] = "running"]
        /\ claim' = [claim EXCEPT ![j] = t] /\ of' = [of EXCEPT ![t] = [job |-> j, runner |-> r]]
    BY <1>4 DEF PickClaim, Claimable
  <2>2. ASSUME NEW s \in Stopper PROVE Sure(s)'
    <3>1. stopper[s].pc \in Stopping =>
            /\ stopper[s].task \in Task /\ stopper[s].task # t /\ stopper[s].job \in Job
            /\ task[stopper[s].task] # "none" => stopper[s].job # j
      BY <2>1, TaskAssumption DEF IInv, Requests, Rows, Stopping
    <3> QED BY <1>1, <1>2, <1>3, <2>1, <3>1 DEF Sure, TypeOK, Stopping
  <2>3. Safe(j)'
    BY <1>1, <2>1, TaskAssumption DEF Safe, Tracked, TypeOK, Active
  <2>4. ASSUME NEW i \in Job, i # j PROVE Safe(i)'
    <3>1. claim[i] # None => claim[i] \in Task /\ claim[i] # t
      BY <1>1, <2>1 DEF IInv, Rows, TypeOK
    <3> QED BY <1>1, <1>2, <1>3, <2>1, <2>4, <3>1, StaysSafe DEF TypeOK, Only
  <2> QED BY <2>2, <2>3, <2>4
<1>5. ASSUME PickReleased(r), Releasable(r)
      PROVE  (\A s \in Stopper : Sure(s)') /\ (\A i \in Job : Safe(i)')
  <2> DEFINE t == runner[r].task
             j == of[t].job
  <2>1. /\ t \in Task /\ of[t] # None /\ j \in Job
    BY <1>5 DEF PickReleased, IInv, Requests, TypeOK, Holding
  <2>2. /\ job' = [job EXCEPT ![j] = "waiting"] /\ claim' = [claim EXCEPT ![j] = None]
        /\ task' = [task EXCEPT ![t] = "none"] /\ UNCHANGED of /\ claim[j] = t
    BY <1>5 DEF PickReleased, Releasable
  <2>3. ~BeingStopped(t)
    BY <1>5 DEF PickReleased
  <2>4. \A i \in Job : i # j => claim[i] # t
    BY <2>1, TaskAssumption DEF IInv, Rows
  <2> HIDE DEF t, j
  <2>5. ASSUME NEW s \in Stopper PROVE Sure(s)'
    <3>1. stopper[s].pc \in {"stopJob", "stopBump", "stopTask"} =>
            /\ stopper[s].task \in Task /\ stopper[s].task # t /\ stopper[s].job \in Job
      BY <2>3 DEF IInv, Requests, Stopping, BeingStopped
    <3> QED BY <1>1, <1>2, <1>3, <2>1, <2>2, <3>1 DEF Sure, TypeOK
  <2>6. ASSUME NEW i \in Job, i = j PROVE Safe(i)'
    BY <1>1, <2>1, <2>2, <2>6 DEF Safe, TypeOK, Active
  <2>7. ASSUME NEW i \in Job, i # j PROVE Safe(i)'
    <3>1. /\ job'[i] = job[i] /\ claim'[i] = claim[i]
          /\ claim[i] # None => task'[claim[i]] = task[claim[i]]
      BY <1>1, <2>1, <2>2, <2>4, <2>7 DEF TypeOK
    <3> QED BY <1>2, <1>3, <2>2, <3>1, StaysSafe DEF Only
  <2> QED BY <2>5, <2>6, <2>7
<1>6. ASSUME UNCHANGED rows
      PROVE  (\A s \in Stopper : Sure(s)') /\ (\A j \in Job : Safe(j)')
  <2>1. \A s \in Stopper : Sure(s)'
    BY <1>2, <1>3, <1>6 DEF Sure, rows
  <2>2. ASSUME NEW j \in Job PROVE Safe(j)'
    BY <1>2, <1>3, <1>6, StaysSafe DEF Only, rows
  <2> QED BY <2>1, <2>2
<1>7. CASE PickReleased(r) /\ ~Releasable(r)
  BY <1>6, <1>7 DEF PickReleased, rows
<1> QED BY <1>4, <1>5, <1>6, <1>7
        DEF Fetch, FetchVersion, PickScan, PickNone, PickDelivered, RunnerLost, PickLost

(* UpdateTaskByState leaves every job tended, between its two writes too.  *)
LEMMA ReportTended ==
  ASSUME IInv, Tended, NEW r \in Runner, Report(r)
  PROVE  Tended'
<1> SUFFICES ASSUME cut' = {} PROVE (\A s \in Stopper : Sure(s)') /\ (\A j \in Job : Safe(j)')
  BY DEF Tended
<1>1. TypeOK
  BY DEF IInv
<1>2. Only(r) /\ UNCHANGED <<claim, of, stopper>> /\ cut = {}
  <2>1. Only(r)
    BY <1>1, RunnerEffects DEF Report, Moves
  <2> QED BY <2>1 DEF Report, ReportRead, ReportTask, ReportJob, ReportBump, ReportCut, rows
<1>3. (\A s \in Stopper : Sure(s)) /\ (\A j \in Job : Safe(j))
  BY <1>2 DEF Tended
<1> DEFINE t == runner[r].task
           j == of[t].job
<1>4. /\ t \in Task /\ j \in Job
      /\ runner[r].pc \in ReportPc => runner[r].verdict \in Final
      /\ \A i \in Job : claim[i] = t => i = j
  <2>1. runner[r].pc \in Holding
    BY DEF Report, ReportRead, ReportTask, ReportJob, ReportBump, ReportCut, Holding, ReportPc
  <2> QED BY <1>1, <2>1, TaskAssumption DEF IInv, Requests, Rows, TypeOK
<1>5. CASE ReportTask(r)
  <2>1. task' = [task EXCEPT ![t] = runner[r].verdict] /\ runner[r].verdict \in Final /\ UNCHANGED job
    BY <1>4, <1>5 DEF ReportTask, ReportPc
  <2>2. runner[r].pc = "reportTask" /\ runner'[r].pc = "reportJob" /\ runner'[r].task = t
    BY <1>1, <1>5, RunnerEffects DEF ReportTask, Moves
  <2> HIDE DEF t, j
  <2>3. \A s \in Stopper : Sure(s)'
    BY <1>1, <1>2, <1>3, <1>4, <2>1 DEF Sure, TypeOK, Final
  <2>4. ASSUME NEW i \in Job PROVE Safe(i)'
    <3>1. CASE claim[i] = t
      BY <1>2, <1>3, <2>1, <2>2, <3>1 DEF Safe, HalfWritten
    <3>2. CASE claim[i] # t
      BY <1>1, <1>2, <1>3, <2>1, <2>2, <3>2, StaysSafe DEF TypeOK, Only
    <3> QED BY <3>1, <3>2
  <2> QED BY <2>3, <2>4
<1>6. CASE ReportJob(r)
  <2>1. job' = [job EXCEPT ![j] = runner[r].verdict] /\ runner[r].verdict \in Final /\ UNCHANGED task
    BY <1>4, <1>6 DEF ReportJob, ReportPc
  <2> HIDE DEF t, j
  <2>2. \A s \in Stopper : Sure(s)'
    BY <1>1, <1>2, <1>3, <1>4, <2>1 DEF Sure, TypeOK, Final
  <2>3. ASSUME NEW i \in Job, i = j PROVE Safe(i)'
    BY <1>1, <1>4, <2>1, <2>3 DEF Safe, TypeOK, Final, Active
  <2>4. ASSUME NEW i \in Job, i # j PROVE Safe(i)'
    <3>1. claim[i] # runner[r].task
      BY <1>4, <2>4 DEF t
    <3>2. job'[i] = job[i]
      BY <1>1, <2>1, <2>4 DEF TypeOK
    <3> QED BY <1>2, <1>3, <2>1, <3>1, <3>2, StaysSafe DEF Only
  <2> QED BY <2>2, <2>3, <2>4
<1>7. CASE ReportRead(r) \/ ReportBump(r) \/ ReportCut(r)
  <2>1. UNCHANGED rows /\ runner[r].pc # "reportJob"
    BY <1>2, <1>7 DEF ReportRead, ReportBump, ReportCut
  <2>2. \A s \in Stopper : Sure(s)'
    BY <1>2, <1>3, <2>1 DEF Sure, rows
  <2>3. ASSUME NEW i \in Job PROVE Safe(i)'
    BY <1>2, <1>3, <2>1, StaysSafe DEF Only, rows
  <2> QED BY <2>2, <2>3
<1> QED BY <1>5, <1>6, <1>7 DEF Report

(* StopTask leaves every job tended, whatever it overwrites, unless the    *)
(* task was released.                                                      *)
LEMMA StopTended ==
  ASSUME IInv, Tended, NEW s \in Stopper, Stop(s)
  PROVE  Tended'
<1> SUFFICES ASSUME cut' = {} PROVE (\A q \in Stopper : Sure(q)') /\ (\A j \in Job : Safe(j)')
  BY DEF Tended
<1>1. TypeOK
  BY DEF IInv
<1>2. UNCHANGED <<claim, of, runner>> /\ cut = {}
  BY DEF Stop, CancelRead, ZombieRead, CancelUnclaimed, StopRead, StopJob, StopBump, StopTask, StopCut,
     rows, runnerVars
<1>3. (\A q \in Stopper : Sure(q)) /\ (\A j \in Job : Safe(j))
  BY <1>2 DEF Tended
<1> DEFINE t == stopper[s].task
           j == stopper[s].job
           to == stopper[s].to
<1>4. stopper[s].pc \in Stopping => /\ t \in Task /\ j \in Job /\ of[t] # None /\ of[t].job = j
                                    /\ to \in Final \cup {"cancelling"}
                                    /\ task[t] # "none" => claim[j] = t
                                    /\ \A i \in Job : claim[i] = t => i = j
  BY TaskAssumption DEF IInv, Requests, Rows, Stopping
<1>5. ASSUME UNCHANGED rows, OnlyStop(s), Sure(s)',
             stopper[s].pc \in {"stopTask", "stopBump"} /\ ~stopper[s].tx
               => /\ stopper'[s].pc \in {"stopTask", "stopBump"} /\ ~stopper'[s].tx
                  /\ stopper'[s].task = t
      PROVE  (\A q \in Stopper : Sure(q)') /\ (\A i \in Job : Safe(i)')
  <2>1. ASSUME NEW q \in Stopper, q # s PROVE Sure(q)'
    BY <1>3, <1>5, <2>1 DEF Sure, OnlyStop, rows
  <2>2. ASSUME NEW i \in Job PROVE Safe(i)'
    BY <1>2, <1>3, <1>5, StaysSafe DEF OnlyStop, rows
  <2> QED BY <1>5, <2>1, <2>2
<1>6. ASSUME NEW i \in Job, NEW tx \in BOOLEAN, CancelRead(s, i, tx)
      PROVE  (\A q \in Stopper : Sure(q)') /\ (\A k \in Job : Safe(k)')
  <2>1. /\ OnlyStop(s) /\ stopper'[s].pc \in {"cancelJob", "stop"} /\ stopper'[s].to = "cancelling"
    BY <1>1, <1>6, StopperEffects
  <2> QED BY <1>5, <1>6, <2>1 DEF CancelRead, Sure
<1>7. ASSUME NEW u \in Task, ZombieRead(s, u)
      PROVE  (\A q \in Stopper : Sure(q)') /\ (\A k \in Job : Safe(k)')
  <2>1. of[u] # None
    BY <1>7 DEF ZombieRead, IInv, Rows, Active
  <2>2. /\ OnlyStop(s) /\ stopper'[s].pc = "stop" /\ stopper'[s].tx
    BY <1>1, <1>7, <2>1, StopperEffects
  <2> QED BY <1>5, <1>7, <2>2 DEF ZombieRead, Sure
<1>8. ASSUME CancelUnclaimed(s)
      PROVE  (\A q \in Stopper : Sure(q)') /\ (\A k \in Job : Safe(k)')
  <2>1. OnlyStop(s) /\ stopper'[s].pc \in {"cancelBump", "idle"} /\ stopper[s].pc = "cancelJob"
    BY <1>1, <1>8, StopperEffects DEF StopMoves, CancelUnclaimed
  <2>2. /\ UNCHANGED task /\ j \in Job
        /\ UNCHANGED job \/ job' = [job EXCEPT ![j] = "cancelled"]
    BY <1>8 DEF CancelUnclaimed, IInv, Requests
  <2> HIDE DEF j, t, to
  <2>3. ASSUME NEW q \in Stopper PROVE Sure(q)'
    <3>1. CASE q = s
      BY <2>1, <3>1 DEF Sure
    <3>2. CASE q # s
      <4>1. stopper[q].pc # "idle" => stopper[q].job \in Job
        BY DEF IInv, Requests
      <4> QED BY <1>1, <1>2, <1>3, <2>1, <2>2, <3>2, <4>1 DEF Sure, OnlyStop, TypeOK
    <3> QED BY <3>1, <3>2
  <2>4. ASSUME NEW k \in Job PROVE Safe(k)'
    <3>1. CASE job'[k] = "cancelled"
      BY <3>1 DEF Safe, Active
    <3>2. CASE job'[k] # "cancelled"
      <4>1. job'[k] = job[k]
        BY <1>1, <2>2, <3>2 DEF TypeOK
      <4> QED BY <1>2, <1>3, <2>1, <2>2, <4>1, StaysSafe DEF OnlyStop
    <3> QED BY <3>1, <3>2
  <2> QED BY <2>3, <2>4
<1>9. ASSUME StopRead(s)
      PROVE  (\A q \in Stopper : Sure(q)') /\ (\A k \in Job : Safe(k)')
  <2>1. UNCHANGED rows /\ stopper[s].pc = "stop" /\ to \in Final \cup {"cancelling"}
    BY <1>4, <1>9 DEF StopRead, Stopping
  <2>2. CASE task[t] \notin Active
    <3>1. OnlyStop(s) /\ stopper'[s].pc = "idle"
      BY <1>1, <1>9, <2>2, StopperEffects
    <3> QED BY <1>5, <2>1, <3>1 DEF Sure
  <2>3. CASE task[t] \in Active
    <3>1. /\ OnlyStop(s) /\ stopper'[s].pc = "stopJob" /\ stopper'[s].task = t
          /\ stopper'[s].tx = stopper[s].tx
          /\ stopper'[s].to = IF to = "cancelling" /\ of[t].runner \notin Cancelling
                              THEN "cancelled" ELSE to
      BY <1>1, <1>9, <2>1, <2>3, StopperEffects
    <3>2. Sure(s)'
      <4>1. ~stopper[s].tx => to = "cancelling"
        BY <1>3, <2>1 DEF Sure
      <4>2. task'[t] # "none" /\ UNCHANGED of
        BY <2>1, <2>3 DEF rows, Active, Final
      <4> HIDE DEF t, to
      <4> QED BY <3>1, <4>1, <4>2 DEF Sure, Final
    <3> QED BY <1>5, <2>1, <3>1, <3>2
  <2> QED BY <2>2, <2>3
<1>10. ASSUME StopJob(s)
       PROVE  (\A q \in Stopper : Sure(q)') /\ (\A k \in Job : Safe(k)')
  <2>1. /\ stopper[s].pc = "stopJob" /\ UNCHANGED task
        /\ IF stopper[s].tx THEN UNCHANGED job ELSE job' = [job EXCEPT ![j] = to]
    BY <1>10 DEF StopJob
  <2>2. /\ OnlyStop(s) /\ stopper'[s].pc \in {"stopTask", "stopBump"} /\ stopper'[s].task = t
        /\ stopper'[s].job = j /\ stopper'[s].to = to /\ stopper'[s].tx = stopper[s].tx
    BY <1>1, <1>10, StopperEffects DEF StopMoves
  <2>3. /\ t \in Task /\ j \in Job /\ claim[j] = t /\ to \in Final \cup {"cancelling"}
        /\ \A i \in Job : claim[i] = t => i = j
        /\ task[t] # "none"
        /\ to = "cancelling" => of[t].runner \in Cancelling
        /\ ~stopper[s].tx /\ to \in Final => of[t].runner \notin Cancelling
    BY <1>3, <1>4, <2>1 DEF Sure, Stopping
  <2> HIDE DEF t, j, to
  <2>4. Sure(s)'
    BY <1>1, <1>2, <2>1, <2>2, <2>3 DEF Sure, TypeOK, Final
  <2>5. ASSUME NEW q \in Stopper, q # s PROVE Sure(q)'
    <3>1. \A k \in Job : job'[k] = "running" => job[k] = "running"
      BY <1>1, <2>1, <2>3 DEF TypeOK, Final
    <3>2. stopper[q].pc # "idle" => stopper[q].job \in Job
      BY DEF IInv, Requests
    <3> QED BY <1>2, <1>3, <2>1, <2>2, <2>5, <3>1, <3>2 DEF Sure, OnlyStop
  <2>6. ASSUME NEW k \in Job PROVE Safe(k)'
    <3>1. CASE job'[k] = job[k]
      BY <1>2, <1>3, <2>1, <2>2, <3>1, StaysSafe DEF OnlyStop
    <3>2. CASE job'[k] # job[k]
      <4>1. k = j /\ job'[k] = to /\ ~stopper[s].tx
        BY <1>1, <2>1, <2>3, <3>2 DEF TypeOK
      <4> QED BY <1>1, <1>2, <2>2, <2>3, <4>1, TaskAssumption DEF Safe, HalfWritten, Active, Final
    <3> QED BY <3>1, <3>2
  <2> QED BY <2>4, <2>5, <2>6
<1>11. ASSUME StopBump(s) \/ StopCut(s)
       PROVE  (\A q \in Stopper : Sure(q)') /\ (\A k \in Job : Safe(k)')
  <2>1. UNCHANGED rows
    BY <1>11 DEF StopBump, StopCut
  <2>2. CASE stopper[s].pc = "stopBump" /\ StopMoves(s, "stopTask")
    <3>1. Sure(s)'
      BY <1>3, <2>1, <2>2 DEF Sure, StopMoves, rows
    <3> QED BY <1>5, <2>1, <2>2, <3>1 DEF StopMoves
  <2>3. CASE /\ OnlyStop(s) /\ stopper'[s].pc = "idle"
             /\ ~(stopper[s].pc \in {"stopTask", "stopBump"} /\ ~stopper[s].tx)
    BY <1>5, <2>1, <2>3 DEF Sure
  <2>4. StopCut(s) => stopper[s].tx
    BY DEF StopCut
  <2>5. StopBump(s) => stopper[s].pc = "cancelBump" \/ (stopper[s].pc = "stopBump" /\ StopMoves(s, "stopTask"))
    <3>1. ASSUME StopBump(s), stopper[s].pc = "stopBump" PROVE StopMoves(s, "stopTask")
      <4>1. stopper'[s].pc = "stopTask"
        BY <1>1, <3>1 DEF StopBump, TypeOK, StopRequest
      <4> QED BY <1>1, <3>1, <4>1, StopperEffects
    <3> QED BY <3>1 DEF StopBump
  <2> QED BY <1>1, <1>11, <2>2, <2>3, <2>4, <2>5, StopperEffects
<1>12. ASSUME StopTask(s)
       PROVE  (\A q \in Stopper : Sure(q)') /\ (\A k \in Job : Safe(k)')
  <2>1. /\ stopper[s].pc = "stopTask"
        /\ task' = [task EXCEPT ![t] = IF task[t] = "none" THEN task[t] ELSE to]
        /\ IF stopper[s].tx THEN job' = [job EXCEPT ![j] = to] ELSE UNCHANGED job
    BY <1>12 DEF StopTask
  <2>2. OnlyStop(s) /\ stopper'[s].pc = "idle"
    BY <1>1, <1>12, StopperEffects
  <2>3. /\ t \in Task /\ j \in Job /\ claim[j] = t /\ to \in Final \cup {"cancelling"}
        /\ \A i \in Job : claim[i] = t => i = j
        /\ task[t] # "none"
        /\ to = "cancelling" => of[t].runner \in Cancelling
        /\ ~stopper[s].tx /\ to \in Final => of[t].runner \notin Cancelling
        /\ ~stopper[s].tx => job[j] # "running"
    BY <1>3, <1>4, <2>1 DEF Sure, Stopping
  <2> HIDE DEF t, j, to
  <2>4. Sure(s)'
    BY <2>2 DEF Sure
  <2>5. ASSUME NEW q \in Stopper, q # s PROVE Sure(q)'
    <3>1. \A k \in Job : job'[k] = "running" => job[k] = "running"
      BY <1>1, <2>1, <2>3 DEF TypeOK, Final
    <3>2. \A u \in Task : task[u] # "none" => task'[u] # "none"
      BY <1>1, <2>1, <2>3 DEF TypeOK, Final
    <3>3. /\ stopper[q].pc # "idle" => stopper[q].job \in Job
          /\ stopper[q].pc \in Stopping => stopper[q].task \in Task
      BY DEF IInv, Requests
    <3> QED BY <1>2, <1>3, <2>2, <2>5, <3>1, <3>2, <3>3 DEF Sure, OnlyStop, Stopping
  <2>6. ASSUME NEW k \in Job, k = j PROVE Safe(k)'
    <3>1. task'[t] = to
      BY <1>1, <2>1, <2>3 DEF TypeOK
    <3>2. CASE to = "cancelling"
      BY <1>1, <1>2, <1>3, <2>1, <2>3, <2>6, <3>1, <3>2, TaskAssumption DEF Safe, Tracked, Active, TypeOK
    <3>3. CASE to \in Final
      <4>1. job'[k] \notin Active
        BY <1>1, <1>3, <2>1, <2>3, <2>6, <3>3 DEF Safe, Active, Final, TypeOK
      <4> QED BY <4>1 DEF Safe, Active
    <3> QED BY <2>3, <3>2, <3>3
  <2>7. ASSUME NEW k \in Job, k # j PROVE Safe(k)'
    <3>1. /\ job'[k] = job[k] /\ claim[k] # t
          /\ claim[k] # None => task'[claim[k]] = task[claim[k]]
      BY <1>1, <2>1, <2>3, <2>7 DEF TypeOK
    <3>2. claim[k] # stopper[s].task
      BY <3>1 DEF t
    <3> QED BY <1>2, <1>3, <2>2, <3>1, <3>2, StaysSafe DEF OnlyStop
  <2> QED BY <2>4, <2>5, <2>6, <2>7
<1> QED BY <1>6, <1>7, <1>8, <1>9, <1>10, <1>11, <1>12 DEF Stop

(* Every job stays tended (UpdateTaskByState, StopTask).                   *)
LEMMA TendedHolds == Spec => []Tended
<1>1. Init => Tended
  BY DEF Init, Tended, Sure, Safe, NoStop, Pending, Active
<1>2. IInv /\ Tended /\ [Next]_vars => Tended'
  <2> SUFFICES ASSUME IInv, Tended, [Next]_vars PROVE Tended'
    OBVIOUS
  <2>1. ASSUME NEW j \in Job, JobReady(j) \/ JobSkipped(j) PROVE Tended'
    <3> SUFFICES ASSUME cut' = {} PROVE (\A s \in Stopper : Sure(s)') /\ (\A i \in Job : Safe(i)')
      BY DEF Tended
    <3>1. /\ UNCHANGED <<claim, task, of, runner, stopper>> /\ cut = {}
          /\ job' = [job EXCEPT ![j] = "waiting"] \/ job' = [job EXCEPT ![j] = "skipped"]
      BY <2>1 DEF JobReady, JobSkipped
    <3>2. (\A s \in Stopper : Sure(s)) /\ (\A i \in Job : Safe(i)) /\ TypeOK
      BY <3>1 DEF Tended, IInv
    <3>3. \A s \in Stopper : Sure(s)'
      <4>1. \A s \in Stopper : stopper[s].pc # "idle" => stopper[s].job \in Job
        BY DEF IInv, Requests
      <4> QED BY <3>1, <3>2, <4>1 DEF Sure, TypeOK
    <3>4. ASSUME NEW i \in Job PROVE Safe(i)'
      <4>1. CASE i = j
        BY <3>1, <3>2, <4>1 DEF Safe, TypeOK, Active
      <4>2. CASE i # j
        BY <3>1, <3>2, <4>2, StaysSafe DEF TypeOK
      <4> QED BY <4>1, <4>2
    <3> QED BY <3>3, <3>4
  <2>2. CASE UNCHANGED vars
    BY <2>2 DEF vars, rows, runnerVars, Tended, Sure, Safe, Tracked, HalfWritten
  <2> QED BY <2>1, <2>2, FetchTended, ReportTended, StopTended DEF Next, Emitter
<1> QED BY IInvHolds, <1>1, <1>2, PTL DEF Spec

(* No job is stranded (UpdateTaskByState, StopTask).                       *)
THEOREM NotStranded == Spec => []StrandedOnlyIfCut
<1>1. Tended => StrandedOnlyIfCut
  BY DEF Tended, Safe, StrandedOnlyIfCut, Stranded
<1> QED BY TendedHolds, <1>1, PTL
-----------------------------------------------------------------------------
(***************************************************************************)
(* No wake-up is lost.                                                     *)
(***************************************************************************)

(* A stopper outside a transaction that has already woken the runners.     *)
PastBump(t) == \E s \in Stopper : /\ stopper[s].pc = "stopTask" /\ ~stopper[s].tx
                                /\ stopper[s].task = t /\ stopper[s].to \in Final

(* Why a runner may know the latest version while a job waits: its         *)
(* FetchTask will see the job, or the task it holds will be ended by       *)
(* someone who wakes it.                                                   *)
WillSee(r) ==
  \/ runner[r].pc = "scan"
  \/ runner[r].pc = "pick" /\ {j \in Job : job[j] = "waiting"} \subseteq runner[r].cand
  \/ /\ runner[r].pc \in {"claimed", "run", "reportTask"}
     /\ task[runner[r].task] \in Active /\ ~PastBump(runner[r].task)
  \/ runner[r].pc \in {"reportJob", "reportBump"}
Wakeful ==
  cut = {} => \A r \in Runner :
    version[r] # "old" /\ (\E j \in Job : job[j] = "waiting") => WillSee(r) \/ Owed(r)

(* What a request that is about to wake the runners has written: no other  *)
(* one makes the job run again.                                            *)
Written ==
  /\ \A r \in Runner : runner[r].pc = "reportBump" => job[of[runner[r].task].job] # "running"
  /\ \A s \in Stopper : stopper[s].pc = "stopBump" => ~stopper[s].tx /\ stopper[s].to \in Final

(* What was written is still there at the wake-up (UpdateTaskByState,      *)
(* StopTask).                                                              *)
LEMMA WrittenHolds == Spec => []Written
<1>1. Init => Written
  BY DEF Init, Written, NoRequest, NoStop
<1>2. IInv /\ Written /\ [Next]_vars => Written'
  <2> SUFFICES ASSUME IInv, Written, [Next]_vars PROVE Written'
    OBVIOUS
  <2>0. TypeOK
    BY DEF IInv
  <2>1. ASSUME NEW r \in Runner, runner[r].pc = "reportBump", runner'[r] = runner[r],
               \A j \in Job : job'[j] = "running" => job[j] = "running" \/ claim[j] = None,
               \A t \in Task : of[t] # None => of'[t] = of[t]
        PROVE  job'[of'[runner'[r].task].job] # "running"
    <3>1. /\ runner[r].task \in Task /\ task[runner[r].task] # "none" /\ of[runner[r].task] # None
          /\ of[runner[r].task].job \in Job
      BY <2>0, <2>1 DEF IInv, Requests, Holding, ReportPc, TypeOK
    <3>2. claim[of[runner[r].task].job] # None
      BY <3>1, TaskAssumption DEF IInv, Rows
    <3> QED BY <2>1, <3>1, <3>2 DEF Written
  <2>2. ASSUME NEW j \in Job, JobReady(j) \/ JobSkipped(j) PROVE Written'
    <3>1. /\ UNCHANGED <<of, runner, stopper>>
          /\ \A i \in Job : job'[i] = "running" => job[i] = "running"
      BY <2>0, <2>2 DEF JobReady, JobSkipped, TypeOK
    <3> QED BY <2>1, <3>1 DEF Written
  <2>3. ASSUME NEW r \in Runner, Fetch(r) PROVE Written'
    <3>1. Only(r) /\ runner'[r].pc # "reportBump" /\ UNCHANGED stopper
      BY <2>0, <2>3, RunnerEffects DEF Fetch, Moves, FetchVersion, PickScan, PickNone, PickDelivered,
         PickReleased, RunnerLost, PickLost, PickClaim
    <3>2. /\ \A j \in Job : job'[j] = "running" => job[j] = "running" \/ claim[j] = None
          /\ \A t \in Task : of[t] # None => of'[t] = of[t]
      BY <2>0, <2>3 DEF Fetch, FetchVersion, PickScan, PickNone, PickDelivered, RunnerLost, PickLost,
         PickReleased, PickClaim, Claimable, rows, TypeOK
    <3> QED BY <2>1, <3>1, <3>2 DEF Written, Only
  <2>4. ASSUME NEW r \in Runner, Report(r) PROVE Written'
    <3>1. Only(r) /\ UNCHANGED <<of, claim, stopper>>
      <4>1. Only(r)
        BY <2>0, <2>4, RunnerEffects DEF Report, Moves
      <4> QED BY <2>4, <4>1 DEF Report, ReportRead, ReportTask, ReportJob, ReportBump, ReportCut, rows
    <3>2. ReportJob(r) => runner[r].verdict \in Final
      BY DEF ReportJob, IInv, Requests, ReportPc
    <3>3. \A j \in Job : job'[j] = "running" => job[j] = "running"
      BY <2>0, <2>4, <3>2 DEF Report, ReportRead, ReportTask, ReportJob, ReportBump, ReportCut, rows, TypeOK, Final
    <3>4. runner'[r].pc = "reportBump" => job'[of'[runner'[r].task].job] # "running"
      <4>1. CASE ReportJob(r)
        <5>1. runner'[r].task = runner[r].task /\ of[runner[r].task].job \in Job
          BY <2>0, <4>1, RunnerEffects DEF Moves, ReportJob, IInv, Requests, TypeOK, Holding, ReportPc
        <5> QED BY <2>0, <3>1, <3>2, <4>1, <5>1 DEF ReportJob, TypeOK, Final
      <4>2. CASE ~ReportJob(r)
        BY <2>0, <2>4, <4>2, RunnerEffects DEF Report, Moves
      <4> QED BY <4>1, <4>2
    <3> QED BY <2>1, <3>1, <3>3, <3>4 DEF Written, Only
  <2>5. ASSUME NEW s \in Stopper, Stop(s) PROVE Written'
    <3>1. UNCHANGED <<of, claim, runner>>
      BY <2>5 DEF Stop, CancelRead, ZombieRead, CancelUnclaimed, StopRead, StopJob, StopBump, StopTask, StopCut,
         rows, runnerVars
    <3>2. OnlyStop(s) /\ (stopper'[s].pc = "stopBump" => ~stopper'[s].tx /\ stopper'[s].to \in Final)
      <4>1. \A t \in Task : ZombieRead(s, t) => of[t] # None
        BY DEF ZombieRead, IInv, Rows, Active
      <4>2. StopRead(s) => stopper[s].to \in Final \cup {"cancelling"}
        BY DEF StopRead, IInv, Requests, Stopping
      <4> QED BY <2>0, <2>5, <4>1, <4>2, StopperEffects DEF Stop, StopMoves
    <3>3. StopJob(s) \/ StopTask(s) => stopper[s].to \in Final \cup {"cancelling"}
      BY DEF StopJob, StopTask, IInv, Requests, Stopping
    <3>4. \A j \in Job : job'[j] = "running" => job[j] = "running"
      BY <2>0, <2>5, <3>3 DEF Stop, CancelRead, ZombieRead, CancelUnclaimed, StopRead, StopJob, StopBump,
         StopTask, StopCut, rows, TypeOK, Final
    <3> QED BY <2>1, <3>1, <3>2, <3>4 DEF Written, OnlyStop
  <2>6. CASE UNCHANGED vars
    BY <2>6 DEF vars, rows, runnerVars, Written
  <2> QED BY <2>2, <2>3, <2>4, <2>5, <2>6 DEF Next, Emitter
<1> QED BY IInvHolds, <1>1, <1>2, PTL DEF Spec

(* A step that bumps the version for everybody, or leaves no job waiting,  *)
(* owes no runner a wake-up (UpdateRunJob).                                *)
LEMMA Awake ==
  ASSUME \/ version' = [r \in Runner |-> "old"]
         \/ \A j \in Job : job'[j] # "waiting"
  PROVE  Wakeful'
BY DEF Wakeful

(* Whoever is not concerned stays as it was, when no job starts to wait.   *)
LEMMA StaysAwake ==
  ASSUME IInv, Wakeful, cut' = {} => cut = {}, NEW q \in Runner,
         runner'[q] = runner[q], version'[q] # "old" => version[q] # "old",
         \A j \in Job : job'[j] = "waiting" => job[j] = "waiting",
         \A t \in Task : task[t] \in Active /\ runner[q].pc \in Holding /\ t = runner[q].task =>
                        task'[t] \in Active,
         \A t \in Task : PastBump(t)' => PastBump(t), cut' = {} /\ Owed(q) => Owed(q)'
  PROVE  cut' = {} /\ version'[q] # "old" /\ (\E j \in Job : job'[j] = "waiting")
           => (WillSee(q) \/ Owed(q))'
<1> SUFFICES ASSUME cut' = {}, version'[q] # "old", \E j \in Job : job'[j] = "waiting", ~Owed(q)'
             PROVE  WillSee(q)'
  OBVIOUS
<1>1. WillSee(q)
  BY DEF Wakeful
<1>2. runner[q].pc \in Holding => runner[q].task \in Task
  BY DEF IInv, Requests
<1>3. CASE runner[q].pc \in {"claimed", "run", "reportTask"}
  <2>1. runner[q].pc \in Holding /\ task[runner[q].task] \in Active /\ ~PastBump(runner[q].task)
    BY <1>1, <1>3 DEF WillSee, Holding, ReportPc
  <2>2. task'[runner[q].task] \in Active /\ ~PastBump(runner[q].task)'
    BY <1>2, <2>1
  <2> QED BY <1>3, <2>2 DEF WillSee
<1>4. CASE runner[q].pc \notin {"claimed", "run", "reportTask"}
  BY <1>1, <1>4 DEF WillSee
<1> QED BY <1>3, <1>4

(* A claim and a release leave a job that is being cancelled alone         *)
(* (claimJobForRunner, ReleaseTaskForRunner).                              *)
LEMMA FetchOwed ==
  ASSUME IInv, NEW r \in Runner, Fetch(r), NEW q \in Runner, Owed(q)
  PROVE  Owed(q)'
<1>1. TypeOK
  BY DEF IInv
<1>2. PICK t \in Task : /\ of[t] # None /\ of[t].runner = q
                        /\ claim[of[t].job] = t /\ job[of[t].job] = "cancelling"
  BY DEF Owed
<1> DEFINE j == of[t].job
<1>3. j \in Job /\ claim[j] # None
  BY <1>1, <1>2, TaskAssumption DEF TypeOK
<1>4. of'[t] = of[t] /\ claim'[j] = claim[j] /\ job'[j] = job[j]
  <2>1. ASSUME NEW i \in Job, NEW u \in Task, PickClaim(r, i, u) PROVE of'[t] = of[t] /\ claim'[j] = claim[j] /\ job'[j] = job[j]
    <3>1. i # j /\ u # t
      BY <1>2, <1>3, <2>1 DEF PickClaim, Claimable
    <3> QED BY <1>1, <1>2, <1>3, <2>1, <3>1 DEF PickClaim, TypeOK
  <2>2. CASE PickReleased(r)
    <3>1. CASE Releasable(r)
      <4>1. of[runner[r].task].job # j
        BY <1>2, <3>1 DEF Releasable
      <4> QED BY <1>1, <1>3, <2>2, <3>1, <4>1 DEF PickReleased, TypeOK
    <3>2. CASE ~Releasable(r)
      BY <2>2, <3>2 DEF PickReleased
    <3> QED BY <3>1, <3>2
  <2> QED BY <2>1, <2>2 DEF Fetch, FetchVersion, PickScan, PickNone, PickDelivered, RunnerLost, PickLost, rows
<1> QED BY <1>2, <1>4 DEF Owed

(* FetchTask keeps every runner wakeful: the version is read before the    *)
(* jobs, and a release bumps it.                                           *)
LEMMA FetchAwake ==
  ASSUME IInv, Wakeful, NEW r \in Runner, Fetch(r)
  PROVE  Wakeful'
<1>1. TypeOK
  BY DEF IInv
<1>2. CASE PickReleased(r)
  <2>1. CASE Releasable(r)
    BY <1>2, <2>1, Awake DEF PickReleased, IncreaseTaskVersion
  <2>2. CASE ~Releasable(r)
    <3>1. /\ UNCHANGED <<job, task, stopper>> /\ version' = [version EXCEPT ![r] = "old"]
          /\ cut' = {} => cut = {}
      BY <1>2, <2>2 DEF PickReleased
    <3>2. Only(r)
      BY <1>1, <1>2, RunnerEffects
    <3>3. ASSUME NEW q \in Runner, q # r
          PROVE  cut' = {} /\ version'[q] # "old" /\ (\E j \in Job : job'[j] = "waiting")
                   => (WillSee(q) \/ Owed(q))'
      BY <1>1, <3>1, <3>2, <3>3, FetchOwed, StaysAwake DEF Only, PastBump, TypeOK
    <3> QED BY <1>1, <3>1, <3>3 DEF Wakeful, TypeOK
  <2> QED BY <2>1, <2>2
<1>3. CASE ~PickReleased(r)
  <2>1. /\ Only(r) /\ UNCHANGED <<stopper, cut>>
        /\ \A q \in Runner : q # r => version'[q] = version[q]
        /\ \A j \in Job : job'[j] = "waiting" => job[j] = "waiting"
        /\ \A t \in Task : task[t] \in Active => task'[t] \in Active
    <3>1. ASSUME NEW j \in Job, NEW t \in Task, PickClaim(r, j, t)
          PROVE  /\ UNCHANGED <<stopper, cut, version>>
                 /\ job' = [job EXCEPT ![j] = "running"] /\ task' = [task EXCEPT ![t] = "running"]
      BY <3>1 DEF PickClaim
    <3>2. ASSUME ~ \E j \in Job, t \in Task : PickClaim(r, j, t)
          PROVE  /\ UNCHANGED <<stopper, cut, job, task>>
                 /\ \A q \in Runner : q # r => version'[q] = version[q]
      BY <1>1, <1>3, <3>2 DEF Fetch, FetchVersion, PickScan, PickNone, PickDelivered, RunnerLost, PickLost,
         TakeVersion, rows, TypeOK
    <3>3. Only(r)
      BY <1>1, <1>3, RunnerEffects DEF Fetch, Moves
    <3> QED BY <1>1, <3>1, <3>2, <3>3 DEF TypeOK, Active
  <2>2. ASSUME NEW q \in Runner, q # r
        PROVE  cut' = {} /\ version'[q] # "old" /\ (\E j \in Job : job'[j] = "waiting")
                   => (WillSee(q) \/ Owed(q))'
    BY <2>1, <2>2, FetchOwed, StaysAwake DEF Only, PastBump
  <2>3. ASSUME cut' = {}, version'[r] # "old", \E j \in Job : job'[j] = "waiting", ~Owed(r)'
        PROVE  WillSee(r)'
    <3>0. ~Owed(r)
      BY <2>3, FetchOwed
    <3>1. CASE FetchVersion(r)
      BY <1>1, <3>1, RunnerEffects DEF WillSee, Moves
    <3>2. CASE PickScan(r)
      <4>1. UNCHANGED job /\ runner'[r].pc = "pick"
            /\ runner'[r].cand = {j \in Job : job[j] = "waiting" /\ claim[j] = None}
        BY <1>1, <3>2, RunnerEffects DEF PickScan, rows
      <4>2. \A j \in Job : job[j] = "waiting" => claim[j] = None
        BY DEF IInv, Rows, Pending
      <4> QED BY <4>1, <4>2 DEF WillSee
    <3>3. ASSUME NEW j \in Job, PickLost(r, j) PROVE WillSee(r)'
      <4>1. /\ UNCHANGED <<job, version>> /\ runner'[r].pc = "pick" /\ runner'[r].cand = runner[r].cand \ {j}
            /\ runner[r].pc = "pick" /\ ~Claimable(j)
        BY <1>1, <3>3, RunnerEffects DEF PickLost, rows
      <4>2. job[j] # "waiting"
        BY <4>1 DEF Claimable, IInv, Rows, Pending
      <4>3. {i \in Job : job[i] = "waiting"} \subseteq runner[r].cand
        BY <2>1, <2>3, <3>0, <4>1 DEF Wakeful, WillSee
      <4> QED BY <4>1, <4>2, <4>3 DEF WillSee
    <3>4. ASSUME NEW j \in Job, NEW t \in Task, PickClaim(r, j, t) PROVE WillSee(r)'
      <4>1. runner'[r].pc = "claimed" /\ runner'[r].task = t
        BY <1>1, <3>4, RunnerEffects
      <4>2. task'[t] \in Active
        BY <1>1, <3>4 DEF PickClaim, TypeOK, Active
      <4>3. ~PastBump(t)'
        BY <2>1, <3>4 DEF PickClaim, PastBump, IInv, Requests, Stopping
      <4> QED BY <4>1, <4>2, <4>3 DEF WillSee
    <3>5. CASE PickNone(r)
      <4>1. runner[r].pc = "pick" /\ runner[r].cand = {} /\ UNCHANGED job /\ version[r] # "old"
        BY <1>1, <2>3, <3>5 DEF PickNone, TakeVersion, rows, TypeOK
      <4> QED BY <2>1, <2>3, <3>0, <4>1 DEF Wakeful, WillSee
    <3>6. CASE PickDelivered(r)
      <4>1. runner[r].pc = "claimed" /\ UNCHANGED <<job, task, stopper>> /\ version[r] # "old"
        BY <1>1, <2>3, <3>6 DEF PickDelivered, TakeVersion, rows, TypeOK
      <4>2. runner'[r].pc = "run" /\ runner'[r].task = runner[r].task
        BY <1>1, <3>6, RunnerEffects DEF Moves
      <4>3. task[runner[r].task] \in Active /\ ~PastBump(runner[r].task)
        BY <2>1, <2>3, <3>0, <4>1 DEF Wakeful, WillSee
      <4> QED BY <4>1, <4>2, <4>3 DEF WillSee, PastBump
    <3>7. CASE RunnerLost(r)
      BY <1>1, <2>3, <3>7 DEF RunnerLost, TypeOK
    <3> QED BY <1>3, <3>1, <3>2, <3>3, <3>4, <3>5, <3>6, <3>7 DEF Fetch
  <2> QED BY <2>2, <2>3 DEF Wakeful
<1> QED BY <1>2, <1>3

(* A report changes no job but the runner's own (UpdateTaskByState).       *)
LEMMA ReportOwed ==
  ASSUME IInv, NEW r \in Runner, Report(r), NEW q \in Runner, Owed(q), ReportJob(r) => q # r
  PROVE  Owed(q)'
<1>1. TypeOK
  BY DEF IInv
<1>2. PICK t \in Task : /\ of[t] # None /\ of[t].runner = q
                        /\ claim[of[t].job] = t /\ job[of[t].job] = "cancelling"
  BY DEF Owed
<1>3. UNCHANGED <<of, claim>>
  BY DEF Report, ReportRead, ReportTask, ReportJob, ReportBump, ReportCut, rows
<1>4. CASE ReportJob(r)
  <2>1. /\ runner[r].task \in Task /\ task[runner[r].task] # "none"
        /\ of[runner[r].task].runner = r /\ of[runner[r].task] # None
    BY <1>4 DEF ReportJob, IInv, Requests, Holding, ReportPc
  <2>2. claim[of[runner[r].task].job] = runner[r].task
    BY <2>1 DEF IInv, Rows
  <2>3. of[t].job # of[runner[r].task].job
    BY <1>2, <1>4, <2>1, <2>2
  <2>4. job'[of[t].job] = job[of[t].job]
    BY <1>1, <1>2, <1>4, <2>3 DEF ReportJob, TypeOK
  <2> QED BY <1>2, <1>3, <2>4 DEF Owed
<1>5. CASE ~ReportJob(r)
  <2>1. UNCHANGED job
    BY <1>5 DEF Report, ReportRead, ReportTask, ReportBump, ReportCut, rows
  <2> QED BY <1>3, <2>1 DEF Owed
<1> QED BY <1>4, <1>5

(* UpdateTaskByState keeps every runner wakeful: the bump comes after the  *)
(* job was written.                                                        *)
LEMMA ReportAwake ==
  ASSUME IInv, Wakeful, Written, NEW r \in Runner, Report(r)
  PROVE  Wakeful'
<1>1. TypeOK
  BY DEF IInv
<1>2. CASE ReportBump(r)
  <2> DEFINE t == runner[r].task
             j == of[t].job
  <2>1. CASE job[j] \notin Active
    BY <1>2, <2>1, Awake DEF ReportBump, WakeIfStillDone, WakeIfWaiting, IncreaseTaskVersion
  <2>2. CASE job[j] \in Active
    <3>1. /\ UNCHANGED <<rows, version, stopper, cut>> /\ Only(r)
      BY <1>1, <1>2, <2>2, RunnerEffects DEF ReportBump, WakeIfStillDone
    <3>2. Owed(r)
      <4>1. /\ t \in Task /\ task[t] # "none" /\ of[t] # None /\ of[t].runner = r
            /\ claim[j] = t
        BY <1>2 DEF ReportBump, IInv, Requests, Rows, Holding, ReportPc
      <4>2. job[j] = "cancelling"
        BY <1>2, <2>2 DEF ReportBump, Written, Active
      <4> QED BY <4>1, <4>2 DEF Owed
    <3>3. \A q \in Runner : Owed(q) => Owed(q)'
      BY <3>1 DEF Owed, rows
    <3>4. ASSUME NEW q \in Runner, q # r
          PROVE  cut' = {} /\ version'[q] # "old" /\ (\E i \in Job : job'[i] = "waiting")
                   => (WillSee(q) \/ Owed(q))'
      BY <3>1, <3>3, <3>4, StaysAwake DEF Only, PastBump, rows
    <3> QED BY <3>2, <3>3, <3>4 DEF Wakeful
  <2> QED BY <2>1, <2>2
<1>3. CASE ~ReportBump(r)
  <2>1. /\ Only(r) /\ UNCHANGED <<stopper, version>> /\ (cut' = {} => cut = {})
        /\ runner[r].pc \in Holding
    <3>1. Only(r)
      BY <1>1, <1>3, RunnerEffects DEF Report, Moves
    <3> QED BY <1>3, <3>1 DEF Report, ReportRead, ReportTask, ReportJob, ReportCut, Holding, ReportPc
  <2>2. \A j \in Job : job'[j] = "waiting" => job[j] = "waiting"
    <3>1. ReportJob(r) => runner[r].verdict \in Final
      BY DEF ReportJob, IInv, Requests, ReportPc
    <3> QED BY <1>1, <1>3, <3>1 DEF Report, ReportRead, ReportTask, ReportJob, ReportCut, rows, TypeOK, Final
  <2>3. \A t \in Task : t # runner[r].task => task'[t] = task[t]
    BY <1>1, <1>3 DEF Report, ReportRead, ReportTask, ReportJob, ReportCut, rows, TypeOK
  <2>4. ASSUME NEW q \in Runner, q # r
        PROVE  cut' = {} /\ version'[q] # "old" /\ (\E j \in Job : job'[j] = "waiting")
                   => (WillSee(q) \/ Owed(q))'
    <3>1. runner[q].pc \in Holding => runner[q].task # runner[r].task
      BY <2>1, <2>4 DEF IInv, Requests
    <3> QED BY <2>1, <2>2, <2>3, <2>4, <3>1, ReportOwed, StaysAwake DEF Only, PastBump
  <2>5. ASSUME cut' = {}, version'[r] # "old", \E j \in Job : job'[j] = "waiting", ~Owed(r)'
        PROVE  WillSee(r)'
    <3>1. ASSUME ~ReportJob(r) PROVE WillSee(r)
      BY <2>1, <2>2, <2>5, <3>1, ReportOwed DEF Wakeful
    <3>2. CASE ReportRead(r)
      <4>1. runner[r].pc = "run" /\ UNCHANGED <<task, stopper>>
        BY <3>2 DEF ReportRead, rows
      <4>2. task[runner[r].task] \in Active /\ ~PastBump(runner[r].task)
        BY <3>1, <4>1 DEF WillSee, ReportJob
      <4>3. runner'[r].pc = "reportTask" /\ runner'[r].task = runner[r].task
        BY <1>1, <3>2, <4>2, RunnerEffects DEF Active, Final
      <4> QED BY <4>1, <4>2, <4>3 DEF WillSee, PastBump
    <3>3. CASE ReportTask(r) \/ ReportJob(r)
      BY <1>1, <3>3, RunnerEffects DEF Moves, WillSee
    <3>4. CASE ReportCut(r)
      <4>1. runner[r].pc = "reportTask" /\ UNCHANGED <<task, stopper>>
        BY <2>5, <3>4 DEF ReportCut, rows
      <4>2. runner'[r].pc = "run" /\ runner'[r].task = runner[r].task
        BY <1>1, <3>4, RunnerEffects
      <4> QED BY <3>1, <4>1, <4>2 DEF WillSee, PastBump, ReportJob
    <3> QED BY <1>3, <3>2, <3>3, <3>4 DEF Report
  <2> QED BY <2>4, <2>5 DEF Wakeful
<1> QED BY <1>2, <1>3

(* A cancel that does not end a job leaves it to be cancelled: whether the *)
(* runner cleans up is decided the same way every time (StopTask).         *)
LEMMA StopOwed ==
  ASSUME IInv, Tended, cut = {}, NEW s \in Stopper, Stop(s), ~WakeIfWaiting,
         NEW q \in Runner, Owed(q)
  PROVE  Owed(q)'
<1>1. TypeOK
  BY DEF IInv
<1>2. PICK t \in Task : /\ of[t] # None /\ of[t].runner = q
                        /\ claim[of[t].job] = t /\ job[of[t].job] = "cancelling"
  BY DEF Owed
<1> DEFINE j == of[t].job
<1>3. UNCHANGED <<of, claim>> /\ j \in Job /\ claim[j] # None
  <2>1. UNCHANGED <<of, claim>>
    BY DEF Stop, CancelRead, ZombieRead, CancelUnclaimed, StopRead, StopJob, StopBump, StopTask, StopCut, rows
  <2> QED BY <1>1, <1>2, <2>1, TaskAssumption DEF TypeOK
<1>4. job'[j] = "cancelling"
  <2>1. CASE CancelUnclaimed(s)
    <3>1. stopper[s].job # j \/ UNCHANGED job
      BY <1>3, <2>1 DEF CancelUnclaimed
    <3> QED BY <1>1, <1>2, <1>3, <2>1, <3>1 DEF CancelUnclaimed, TypeOK
  <2>2. CASE StopJob(s) \/ StopTask(s)
    <3> DEFINE u == stopper[s].task
               i == stopper[s].job
               to == stopper[s].to
    <3>1. /\ u \in Task /\ of[u] # None /\ of[u].job = i /\ task[u] # "none"
          /\ to \in Final \cup {"cancelling"}
          /\ ~stopper[s].tx /\ to \in Final => of[u].runner \notin Cancelling
      BY <2>2 DEF StopJob, StopTask, IInv, Requests, Stopping, Tended, Sure
    <3>2. claim[i] = u
      BY <3>1 DEF IInv, Rows
    <3>3. UNCHANGED job \/ (job' = [job EXCEPT ![i] = to] /\ (stopper[s].tx => to \notin Final))
      BY <2>2 DEF StopJob, StopTask
    <3>4. of[t].runner \in Cancelling
      BY <1>2, <1>3 DEF Tended, Safe
    <3> HIDE DEF u, i, to
    <3>5. CASE i = j /\ (stopper[s].tx => to \notin Final)
      <4>1. to = "cancelling"
        BY <1>2, <3>1, <3>2, <3>4, <3>5
      <4> QED BY <1>1, <1>2, <1>3, <3>3, <4>1 DEF TypeOK
    <3> QED BY <1>1, <1>2, <1>3, <3>3, <3>5 DEF TypeOK
  <2>3. CASE ~CancelUnclaimed(s) /\ ~StopJob(s) /\ ~StopTask(s)
    BY <1>2, <2>3 DEF Stop, CancelRead, ZombieRead, StopRead, StopBump, StopCut, rows
  <2> QED BY <2>1, <2>2, <2>3
<1> QED BY <1>2, <1>3, <1>4 DEF Owed

(* StopTask wakes the runners for the job it ended: nobody has made the    *)
(* job unfinished since it was written.                                    *)
LEMMA StopBumps ==
  ASSUME IInv, Tended, Written, cut = {}, NEW s \in Stopper, StopBump(s)
  PROVE  WakeIfWaiting
<1>1. CASE stopper[s].pc = "cancelBump"
  BY <1>1 DEF StopBump
<1>2. CASE stopper[s].pc = "stopBump"
  <2> DEFINE u == stopper[s].task
             i == stopper[s].job
  <2>1. /\ u \in Task /\ of[u] # None /\ of[u].job = i /\ i \in Job /\ task[u] # "none"
        /\ of[u].runner \notin Cancelling /\ job[i] # "running"
    BY <1>2 DEF IInv, Requests, Stopping, Tended, Sure, Written
  <2>2. claim[i] = u
    BY <2>1 DEF IInv, Rows
  <2>3. job[i] \notin Active
    BY <2>1, <2>2 DEF Tended, Safe, Active
  <2> QED BY <1>2, <2>3 DEF StopBump, WakeIfStillDone
<1> QED BY <1>1, <1>2 DEF StopBump

(* Cancels and cron tasks keep every runner wakeful: a job they end is     *)
(* followed by a bump.                                                     *)
LEMMA StopAwake ==
  ASSUME IInv, Tended, Written, Wakeful, NEW s \in Stopper, Stop(s)
  PROVE  Wakeful'
<1> SUFFICES ASSUME cut = {} PROVE Wakeful'
  <2>1. cut' = {} => cut = {}
    BY DEF Stop, CancelRead, ZombieRead, CancelUnclaimed, StopRead, StopJob, StopBump, StopTask, StopCut
  <2> QED BY <2>1 DEF Wakeful
<1>1. TypeOK
  BY DEF IInv
<1>2. ASSUME WakeIfWaiting PROVE Wakeful'
  BY <1>2, Awake DEF WakeIfWaiting, IncreaseTaskVersion
<1>3. ASSUME ~WakeIfWaiting PROVE Wakeful'
  <2>1. UNCHANGED <<runner, version>> /\ (cut' = {} => cut = {})
    BY <1>3, StopBumps DEF Stop, CancelRead, ZombieRead, CancelUnclaimed, StopRead, StopJob, StopBump, StopTask, StopCut,
       runnerVars
  <2>2. \A j \in Job : job'[j] = "waiting" => job[j] = "waiting"
    <3>1. StopJob(s) \/ StopTask(s) => stopper[s].to \in Final \cup {"cancelling"}
      BY DEF StopJob, StopTask, IInv, Requests, Stopping
    <3> QED BY <1>1, <3>1 DEF Stop, CancelRead, ZombieRead, CancelUnclaimed, StopRead, StopJob, StopBump,
               StopTask, StopCut, rows, TypeOK, Final
  <2>3. OnlyStop(s)
    <3>1. \A t \in Task : ZombieRead(s, t) => of[t] # None
      BY DEF ZombieRead, IInv, Rows, Active
    <3>2. StopRead(s) => stopper[s].to \in Final \cup {"cancelling"}
      BY DEF StopRead, IInv, Requests, Stopping
    <3> QED BY <1>1, <3>1, <3>2, StopperEffects DEF Stop, StopMoves
  <2>4. stopper'[s].pc = "stopTask" => stopper'[s].tx \/ stopper'[s].to \notin Final
    <3>1. ~StopBump(s)
      BY <1>3, StopBumps
    <3>2. StopJob(s) => StopMoves(s, IF stopper[s].tx \/ stopper[s].to \notin Final
                                    THEN "stopTask" ELSE "stopBump")
      BY <1>1, StopperEffects
    <3>3. ~StopJob(s) => stopper'[s].pc # "stopTask"
      <4>1. \A t \in Task : ZombieRead(s, t) => of[t] # None
        BY DEF ZombieRead, IInv, Rows, Active
      <4>2. StopRead(s) => stopper[s].to \in Final \cup {"cancelling"}
        BY DEF StopRead, IInv, Requests, Stopping
      <4> QED BY <1>1, <3>1, <4>1, <4>2, StopperEffects DEF Stop, StopMoves
    <3> QED BY <3>2, <3>3 DEF StopMoves
  <2>5. \A t \in Task : PastBump(t)' => PastBump(t)
    BY <2>3, <2>4 DEF PastBump, OnlyStop
  <2>6. ASSUME NEW q \in Runner, runner[q].pc \in Holding, task[runner[q].task] \in Active,
               ~PastBump(runner[q].task)
        PROVE  task'[runner[q].task] \in Active
    <3>1. CASE StopTask(s) /\ stopper[s].task = runner[q].task
      <4>1. stopper[s].tx \/ stopper[s].to \notin Final
        BY <2>6, <3>1 DEF PastBump, StopTask
      <4>2. stopper[s].to \notin Final
        BY <1>3, <3>1, <4>1 DEF StopTask
      <4>3. stopper[s].to = "cancelling" /\ runner[q].task \in Task
        BY <2>6, <3>1, <4>2 DEF StopTask, IInv, Requests, Stopping
      <4> DEFINE t == runner[q].task
      <4>4. task' = [task EXCEPT ![t] = IF task[t] = "none" THEN task[t] ELSE "cancelling"]
        BY <3>1, <4>3 DEF StopTask
      <4>5. task[t] # "none" /\ t \in Task
        BY <2>6, <4>3 DEF Active, Final
      <4> QED BY <1>1, <4>4, <4>5 DEF TypeOK, Active
    <3>2. CASE StopTask(s) /\ stopper[s].task # runner[q].task
      <4>1. runner[q].task \in Task
        BY <2>6 DEF IInv, Requests
      <4> QED BY <1>1, <2>6, <3>2, <4>1 DEF StopTask, TypeOK
    <3>3. CASE ~StopTask(s)
      <4>1. UNCHANGED task
        BY <3>3 DEF Stop, CancelRead, ZombieRead, CancelUnclaimed, StopRead, StopJob, StopBump,
                    StopCut, rows
      <4> QED BY <2>6, <4>1
    <3> QED BY <3>1, <3>2, <3>3
  <2>7. ASSUME NEW q \in Runner, cut' = {}, version'[q] # "old", \E j \in Job : job'[j] = "waiting",
               ~Owed(q)'
        PROVE  WillSee(q)'
    <3>1. WillSee(q)
      BY <1>3, <2>1, <2>2, <2>7, StopOwed DEF Wakeful
    <3>2. CASE runner[q].pc \in {"claimed", "run", "reportTask"}
      <4>1. /\ runner[q].pc \in Holding /\ task[runner[q].task] \in Active
            /\ ~PastBump(runner[q].task) /\ runner[q].task \in Task
        BY <3>1, <3>2 DEF WillSee, Holding, ReportPc, IInv, Requests
      <4>2. task'[runner[q].task] \in Active /\ ~PastBump(runner[q].task)'
        BY <2>1, <2>5, <2>6, <4>1
      <4> QED BY <2>1, <3>2, <4>2 DEF WillSee
    <3>3. CASE runner[q].pc \notin {"claimed", "run", "reportTask"}
      BY <2>1, <2>2, <3>1, <3>3 DEF WillSee
    <3> QED BY <3>2, <3>3
  <2> QED BY <2>7 DEF Wakeful
<1> QED BY <1>2, <1>3

(* No wake-up is lost (UpdateRunJob, FetchTask).                           *)
THEOREM NoLostWakeup == Spec => []WaitingIsOffered
<1>1. Init => Wakeful
  BY DEF Init, Wakeful
<1>2. IInv /\ Tended /\ Written /\ Wakeful /\ [Next]_vars => Wakeful'
  <2> SUFFICES ASSUME IInv, Tended, Written, Wakeful, [Next]_vars PROVE Wakeful'
    OBVIOUS
  <2>1. ASSUME NEW j \in Job, JobReady(j) \/ JobSkipped(j) PROVE Wakeful'
    BY <2>1, Awake DEF JobReady, JobSkipped, WakeIfWaiting, IncreaseTaskVersion
  <2>2. CASE UNCHANGED vars
    BY <2>2 DEF vars, rows, runnerVars, Wakeful, WillSee, PastBump, Owed
  <2> QED BY <2>1, <2>2, FetchAwake, ReportAwake, StopAwake DEF Next, Emitter
<1>3. IInv /\ Wakeful => WaitingIsOffered
  BY DEF Wakeful, WillSee, WaitingIsOffered
<1> QED BY IInvHolds, TendedHolds, WrittenHolds, <1>1, <1>2, <1>3, PTL DEF Spec
=============================================================================

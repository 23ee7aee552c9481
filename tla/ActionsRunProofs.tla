---------------------------- MODULE ActionsRunProofs ----------------------------
(***************************************************************************)
(* Proofs about ActionsRun: for any runs, workflows and groups, and any    *)
(* number of attempts, handlers and requests.                              *)
(***************************************************************************)
EXTENDS ActionsRun, TLAPS

Rows == [Attempt -> [Name -> Row]]
Ended(rs, x) == \A j \in Name : rs[x][j].st \in Done \cup {"none"}

(* Attempts that are not inserted have no rows; a report is about an       *)
(* attempt of its run; only inserted runs are queued.                      *)
Inserted ==
  /\ \A x \in Attempt : x[2] > latest[x[1]] =>
       attempt[x] = "none" /\ \A j \in Name : row[x][j].st = "none"
  /\ \A r \in Run : report[r].pc # "idle" =>
       report[r].att \in Attempt /\ report[r].att[1] = r /\ report[r].att[2] <= latest[r]
  /\ \A r \in queue \cup {h.run : h \in handling} : latest[r] # 0

TypeInv == TypeOK /\ Inserted

(* A request whose version is still the run's: the report is about the     *)
(* latest attempt, the plan was made from it when the run was done.        *)
Fresh ==
  /\ \A r \in freshReports : report[r].pc = "run" /\ report[r].att[2] = latest[r]
  /\ \A p \in freshPlans : p.attempt = latest[p.run] /\ run[p.run] \in Done

(* A report that is going to store a final status read only finished jobs. *)
ReportDone ==
  "revived" \notin cut =>
    \A r \in Run : report[r].pc \in {"store", "load", "run"} /\ report[r].agg \in Done =>
      Ended(row, report[r].att)

(* A run that is done has no job to run.                                   *)
RunDone ==
  "revived" \notin cut =>
    \A r \in Run : latest[r] # 0 /\ run[r] \in Done => Ended(row, <<r, latest[r]>>)

(* Reports hold what the jobs say, and so do the attempts they wrote to.   *)
Losses == {"overtaken", "refused", "crash"}
InSync ==
  cut \cap Losses = {} =>
    /\ \A r \in Run : report[r].pc \in {"store", "load"} \/ r \in freshReports =>
         report[r].agg = AggregateJobStatus(JobStatuses(row, report[r].att))
    /\ \A r \in Run : report[r].pc = "load" \/ r \in freshReports =>
         attempt[report[r].att] = report[r].agg

Statuses == AttemptDone /\ ReportDone /\ RunDone /\ OneAttemptAlive /\ StatusAgrees /\ InSync
IInv == TypeInv /\ Fresh /\ Statuses
-----------------------------------------------------------------------------
(***************************************************************************)
(* AggregateJobStatus and what a transaction stores.                       *)
(***************************************************************************)

Stored == Status \cup {"unknown", "none"}

(* The aggregate of any set of statuses is a status, "unknown" included.   *)
LEMMA AggregateType == ASSUME NEW S PROVE AggregateJobStatus(S) \in Status \cup {"unknown"}
BY DEF AggregateJobStatus, Status, Pending, Active, Done

(* A final aggregate means that every job is final (AggregateJobStatus).   *)
LEMMA AggregateDone ==
  ASSUME NEW S \in SUBSET Status, AggregateJobStatus(S) \in Done
  PROVE  S \subseteq Done
<1>1. CASE S = {"skipped"} \/ S \subseteq {"success", "skipped"}
  BY <1>1 DEF Done
<1>2. CASE ~(S = {"skipped"} \/ S \subseteq {"success", "skipped"})
  <2>1. "cancelling" \notin S /\ "running" \notin S /\ "waiting" \notin S /\ "blocked" \notin S
    BY <1>2 DEF AggregateJobStatus, Done
  <2> QED BY <2>1 DEF Status, Pending, Active, Done
<1> QED BY <1>1, <1>2

(* What the jobs of an attempt say.                                        *)
LEMMA DoneEnds ==
  ASSUME NEW rs \in Rows, NEW x \in Attempt,
         AggregateJobStatus(JobStatuses(rs, x)) \in Done
  PROVE  Ended(rs, x)
<1>1. JobStatuses(rs, x) \subseteq Status
  BY DEF JobStatuses, Rows, Row, NoRow
<1>2. JobStatuses(rs, x) \subseteq Done
  BY <1>1, AggregateDone
<1> QED BY <1>2 DEF Ended, JobStatuses

(* An attempt with the same jobs has the same statuses, and ends with      *)
(* them.                                                                   *)
LEMMA SameStatuses ==
  ASSUME NEW rs, NEW x, SameJobs(rs, x)
  PROVE  JobStatuses(rs, x) = JobStatuses(row, x) /\ (Ended(rs, x) <=> Ended(row, x))
BY DEF SameJobs, JobStatuses, Ended

(* A transaction leaves jobs that are done as they are, inserts none and   *)
(* deletes none.                                                           *)
Kept(u, v) == (u.st \in Done => v.st = u.st) /\ (u.st = "none" <=> v.st = "none")
Keeps(old, rs) == rs \in Rows /\ \A x \in Attempt, j \in Name : Kept(old[x][j], rs[x][j])

(* What two transactions keep one after the other, both keep together.     *)
LEMMA KeepsTrans ==
  ASSUME NEW r1, NEW r2, NEW r3, Keeps(r1, r2), Keeps(r2, r3)
  PROVE  Keeps(r1, r3)
BY DEF Keeps, Kept

(* A transaction that writes no job keeps them all.                        *)
LEMMA KeepsSelf == ASSUME NEW rs \in Rows PROVE Keeps(rs, rs)
BY DEF Keeps, Kept

(* An attempt that has ended is not revived by a transaction that keeps    *)
(* jobs that are done.                                                     *)
LEMMA KeepsEnded ==
  ASSUME NEW old, NEW rs, Keeps(old, rs), NEW x \in Attempt, Ended(old, x)
  PROVE  Ended(rs, x)
BY DEF Keeps, Kept, Ended

(* A row keeps its type when its status, its task or its group is written. *)
Full == [st : Status, task : {"none", "live", "done"}, grp : BOOLEAN]
Wide == [st : Status \cup {"none"}, task : {"none", "live", "done"}, grp : BOOLEAN]

Out == {"waiting"} \cup Active

(* The fields of a row: a job that is not there, or one with its status.   *)
LEMMA RowFields ==
  ASSUME NEW u \in Row
  PROVE  /\ u \in Wide /\ (u.st = "none" => u = NoRow) /\ (u.st # "none" => u \in Full)
         /\ u.task = "live" => u.st \in Out
<1>1. CASE u = NoRow
  BY <1>1 DEF NoRow, Wide
<1>2. CASE u \in Full /\ (u.task = "live" => u.st \in Out)
  BY <1>2 DEF Full, Wide, Status, Pending, Active, Done
<1> QED BY <1>1, <1>2 DEF Row, Full, Out

(* A job with a status is a row, if its task is in line with the status.   *)
LEMMA FullRow == ASSUME NEW u \in Full, u.task = "live" => u.st \in Out PROVE u \in Row
BY DEF Full, Row, Out

(* Writing the status of a job.                                            *)
LEMMA WriteStatus ==
  ASSUME NEW u \in Row, NEW s \in Status, u.task = "live" => s \in Out
  PROVE  [u EXCEPT !.st = s] \in Row /\ [u EXCEPT !.st = s].st = s
         /\ [u EXCEPT !.st = s].task = u.task
<1>1. u \in Wide
  BY RowFields
<1>2. [u EXCEPT !.st = s] \in Full /\ [u EXCEPT !.st = s].st = s
      /\ [u EXCEPT !.st = s].task = u.task
  BY <1>1 DEF Wide, Full
<1> QED BY <1>2, FullRow

(* Writing the status and the task of a job.                               *)
LEMMA WriteBoth ==
  ASSUME NEW u \in Row, NEW s \in Status, NEW t \in {"none", "live", "done"},
         t = "live" => s \in Out
  PROVE  [u EXCEPT !.st = s, !.task = t] \in Row /\ [u EXCEPT !.st = s, !.task = t].st = s
<1>1. u \in Wide
  BY RowFields
<1>2. [u EXCEPT !.st = s, !.task = t] \in Full /\ [u EXCEPT !.st = s, !.task = t].st = s
      /\ [u EXCEPT !.st = s, !.task = t].task = t
  BY <1>1 DEF Wide, Full
<1> QED BY <1>2, FullRow

(* Writing the status of a job and whether its group was evaluated.        *)
LEMMA WriteGroup ==
  ASSUME NEW u \in Row, NEW s \in Status \cup {"none"}, NEW g \in BOOLEAN,
         u.task = "live" => s \in Out,
         s = "none" => u.st = "none" /\ g = u.grp
  PROVE  [u EXCEPT !.st = s, !.grp = g] \in Row /\ [u EXCEPT !.st = s, !.grp = g].st = s
<1>1. u \in Wide
  BY RowFields
<1> DEFINE v == [u EXCEPT !.st = s, !.grp = g]
<1>2. v \in Wide /\ v.st = s /\ v.task = u.task /\ v.grp = g
  BY <1>1 DEF Wide
<1> HIDE DEF v
<1>3. CASE s = "none"
  <2>1. u = NoRow
    BY <1>3, RowFields
  <2>2. v = NoRow
    BY <1>2, <1>3, <2>1 DEF NoRow, Wide
  <2> QED BY <1>2, <2>2 DEF Row, v
<1>4. CASE s # "none"
  <2>1. v \in Full
    BY <1>2, <1>4 DEF Wide, Full
  <2> QED BY <1>2, <2>1, FullRow DEF v
<1> QED BY <1>3, <1>4

(* A job whose task is taken away is still a row.                          *)
LEMMA DropTask == ASSUME NEW u \in Row PROVE [u EXCEPT !.task = "none"] \in Row
<1>1. CASE u.st = "none"
  <2>1. u = NoRow
    BY <1>1, RowFields
  <2>2. [NoRow EXCEPT !.task = "none"] = NoRow
    BY DEF NoRow
  <2> QED BY <2>1, <2>2 DEF Row
<1>2. CASE u.st # "none"
  <2>1. u \in Full
    BY <1>2, RowFields
  <2>2. [u EXCEPT !.task = "none"] \in Full /\ [u EXCEPT !.task = "none"].task = "none"
    BY <2>1 DEF Full
  <2> QED BY <2>2, FullRow
<1> QED BY <1>1, <1>2

(* Cancelling one job (cancelOneJob).                                      *)
LEMMA CancelledKept ==
  ASSUME NEW x, NEW u \in Row
  PROVE  /\ Cancelled(x, u) \in Row /\ Kept(u, Cancelled(x, u))
         /\ u.task # "live" => Cancelled(x, u).task # "live"
<1>1. CASE u.st \notin Pending \cup Active \/ u.task = "done"
  BY <1>1 DEF Cancelled, Kept
<1>2. CASE u.st \in Pending \cup Active /\ u.task # "done"
  <2>1. u.st \notin Done /\ u.st # "none"
    BY <1>2 DEF Pending, Active, Done
  <2>2. /\ "cancelled" \in Status /\ "cancelling" \in Status /\ "cancelling" \in Out
        /\ u.task \in {"none", "live"}
    BY <1>2, RowFields DEF Status, Active, Done, Out, Wide
  <2>3. CASE u.task = "none"
    <3>1. Cancelled(x, u) = [u EXCEPT !.st = "cancelled"]
      BY <1>2, <2>3 DEF Cancelled
    <3> QED BY <2>1, <2>2, <2>3, <3>1, WriteStatus DEF Kept
  <2>4. CASE u.task = "live"
    <3>1. \/ Cancelled(x, u) = [u EXCEPT !.st = "cancelling"]
          \/ Cancelled(x, u) = [u EXCEPT !.st = "cancelled", !.task = "done"]
      BY <1>2, <2>4 DEF Cancelled
    <3>2. CASE Cancelled(x, u) = [u EXCEPT !.st = "cancelling"]
      BY <2>1, <2>2, <2>4, <3>2, WriteStatus DEF Kept
    <3>3. CASE Cancelled(x, u) = [u EXCEPT !.st = "cancelled", !.task = "done"]
      <4>1. [u EXCEPT !.st = "cancelled", !.task = "done"] \in Row
            /\ [u EXCEPT !.st = "cancelled", !.task = "done"].st = "cancelled"
        BY <2>2, WriteBoth
      <4> QED BY <2>1, <2>4, <3>3, <4>1 DEF Kept
    <3> QED BY <3>1, <3>2, <3>3
  <2> QED BY <2>2, <2>3, <2>4
<1> QED BY <1>1, <1>2

(* Cancelling jobs of other attempts (CancelJobs).                         *)
LEMMA CancelJobsKeeps ==
  ASSUME NEW rs \in Rows, NEW V
  PROVE  /\ Keeps(rs, CancelJobs(rs, V))
         /\ \A x \in Attempt, j \in Name :
              rs[x][j].task # "live" => CancelJobs(rs, V)[x][j].task # "live"
<1>1. ASSUME NEW x \in Attempt, NEW j \in Name
      PROVE  LET v == IF <<x, j>> \in V THEN Cancelled(x, rs[x][j]) ELSE rs[x][j]
             IN /\ v \in Row /\ Kept(rs[x][j], v)
                /\ rs[x][j].task # "live" => v.task # "live"
  <2>1. rs[x][j] \in Row
    BY DEF Rows
  <2>2. Kept(rs[x][j], rs[x][j])
    BY DEF Kept
  <2> QED BY <2>1, <2>2, CancelledKept
<1> QED BY <1>1 DEF Keeps, CancelJobs, Rows
-----------------------------------------------------------------------------
(***************************************************************************)
(* What the transactions leave in the rows.                                *)
(***************************************************************************)

(* The rows of one attempt are written on top of what was cancelled.       *)
LEMMA WriteKeeps ==
  ASSUME NEW old, NEW rs, Keeps(old, rs), NEW x \in Attempt, NEW f \in [Name -> Row],
         \A j \in Name : Kept(old[x][j], f[j])
  PROVE  Keeps(old, [rs EXCEPT ![x] = f])
BY DEF Keeps, Rows

(* Jobs of a new attempt that are in its group (StartInGroup).             *)
LEMMA StartInGroupKeeps ==
  ASSUME NEW rs \in Rows, NEW g, NEW x \in Attempt, NEW SG \in SUBSET Name,
         \A j \in SG : rs[x][j].st \in Pending /\ rs[x][j].task # "live", NEW new \in StartInGroup(rs, g, x, SG)
  PROVE  Keeps(rs, new)
<1> DEFINE others == Previous(g, rs, AttemptsWith(rs), {x}) \ ({x} \X SG)
           st == IF ShouldBlock(g, rs, AttemptsWith(rs)) THEN "blocked" ELSE "waiting"
           c == CancelJobs(rs, others)
           f(last) == [j \in Name |->
              IF j \notin SG THEN c[x][j]
              ELSE [c[x][j] EXCEPT !.st = IF j = last THEN st ELSE "cancelled"]]
<1>1. CASE SG = {}
  BY <1>1, KeepsSelf DEF StartInGroup
<1>2. CASE SG # {}
  <2>1. PICK last \in SG : new = [c EXCEPT ![x] = f(last)]
    BY <1>2 DEF StartInGroup
  <2>2. Keeps(rs, c) /\ \A j \in SG : c[x][j].task # "live"
    BY CancelJobsKeeps
  <2>3. ASSUME NEW j \in Name
        PROVE  f(last)[j] \in Row /\ Kept(rs[x][j], f(last)[j])
    <3>1. c[x][j] \in Row /\ Kept(rs[x][j], c[x][j])
      BY <2>2 DEF Keeps, Rows
    <3>2. (IF j = last THEN st ELSE "cancelled") \in {"blocked", "waiting", "cancelled"}
      OBVIOUS
    <3>3. CASE j \notin SG
      BY <3>1, <3>3
    <3>4. CASE j \in SG
      <4>1. (IF j = last THEN st ELSE "cancelled") \in Status
        BY <3>2 DEF Status, Pending, Done
      <4>2. f(last)[j] = [c[x][j] EXCEPT !.st = IF j = last THEN st ELSE "cancelled"]
        BY <3>4
      <4>3. f(last)[j] \in Row /\ f(last)[j].st = IF j = last THEN st ELSE "cancelled"
        BY <2>2, <3>1, <3>4, <4>1, <4>2, WriteStatus
      <4>4. rs[x][j].st \notin Done \cup {"none"} /\ f(last)[j].st # "none"
        BY <3>2, <3>4, <4>3 DEF Pending, Done
      <4> QED BY <4>3, <4>4 DEF Kept
    <3> QED BY <3>3, <3>4
  <2> HIDE DEF f, c
  <2>4. f(last) \in [Name -> Row]
    BY <2>3 DEF f
  <2> QED BY <2>1, <2>2, <2>3, <2>4, WriteKeeps
<1> QED BY <1>1, <1>2

(* The run-level group of a new attempt cancels in other attempts only.    *)
LEMMA RunConcurrencyKeeps ==
  ASSUME row \in Rows, NEW r, NEW w
  PROVE  Keeps(row, AfterRunConcurrency(r, w))
BY CancelJobsKeeps, KeepsSelf DEF AfterRunConcurrency

(* A new attempt x: its rows are new, those of all others are kept.        *)
Starts_(x, rs) ==
  /\ rs \in Rows
  /\ \A y \in Attempt \ {x} : \A j \in Name : Kept(row[y][j], rs[y][j])
  /\ \E j \in Name : rs[x][j].st # "none"

(* What StartInGroup makes of the rows that are inserted.                  *)
LEMMA NewAttempt ==
  ASSUME row \in Rows, NEW r, NEW w, NEW g, NEW x \in Attempt, NEW new \in [Name -> Row],
         NEW SG \in SUBSET Name,
         \A j \in SG : new[j].st \in Pending /\ new[j].task # "live",
         \E j \in Name : new[j].st # "none",
         NEW rs \in StartInGroup([AfterRunConcurrency(r, w) EXCEPT ![x] = new], g, x, SG)
  PROVE  Starts_(x, rs)
<1> DEFINE c == AfterRunConcurrency(r, w)
           base == [c EXCEPT ![x] = new]
<1>1. Keeps(row, c)
  BY RunConcurrencyKeeps
<1>2. base \in Rows /\ base[x] = new /\ \A y \in Attempt \ {x} : base[y] = c[y]
  BY <1>1 DEF Keeps, Rows
<1> HIDE DEF c
<1>3. Keeps(base, rs)
  BY <1>2, StartInGroupKeeps DEF c
<1>4. \A y \in Attempt \ {x} : \A j \in Name : Kept(row[y][j], rs[y][j])
  BY <1>1, <1>2, <1>3 DEF Keeps, Kept
<1>5. \E j \in Name : rs[x][j].st # "none"
  BY <1>2, <1>3 DEF Keeps, Kept
<1> QED BY <1>3, <1>4, <1>5 DEF Keeps, Starts_

(* The resolver writes only blocked jobs, cancels others (Resolve).        *)
LEMMA ResolveKeeps ==
  ASSUME NEW rs \in Rows, NEW atts, NEW x \in Attempt, NEW o \in Resolve(rs, atts, x)
  PROVE  o.ok \in BOOLEAN /\ (o.ok => Keeps(rs, o.rs))
<1> DEFINE w == wf[x[1]]
           starts == Starts(rs, x)
           skips == Skips(rs, x)
           mine == starts \cap w.grouped
           skipped == skips \cap w.grouped
           blocked == ShouldBlock(w.group, rs, atts)
           others == IF mine = {} THEN {}
                     ELSE Previous(w.group, rs, atts, {x}) \ ({x} \X (starts \cup skips))
           c == CancelJobs(rs, others)
           st(kept, j) == IF j \in skips THEN "skipped"
                          ELSE IF j \in mine /\ blocked
                          THEN IF j \in kept THEN c[x][j].st ELSE "cancelled"
                          ELSE IF j \in starts THEN "waiting" ELSE c[x][j].st
           f(kept) == [j \in Name |->
              [c[x][j] EXCEPT !.st = st(kept, j), !.grp = @ \/ j \in mine \cup skipped]]
           result(kept) == [ok |-> TRUE, rs |-> [c EXCEPT ![x] = f(kept)]]
<1>1. o = Failed \/ \E kept : o = result(kept)
  <2> SUFFICES o \in {Failed, result(mine), result({})}
                    \cup {result({j \in {last} : ~rs[x][j].grp}) : last \in mine}
    OBVIOUS
  <2> HIDE DEF f
  <2> QED BY DEF Resolve, f
<1>2. Keeps(rs, c) /\ \A j \in Name : rs[x][j].task # "live" => c[x][j].task # "live"
  BY CancelJobsKeeps
<1>3. \A j \in starts \cup skips : j \in Name /\ rs[x][j].st = "blocked"
  BY DEF Starts, Skips, WithStatus
<1>4. mine \subseteq starts /\ skipped \subseteq skips
  OBVIOUS
<1> HIDE DEF starts, skips, mine, skipped, blocked, c
<1>5. ASSUME NEW kept, NEW j \in Name
      PROVE  f(kept)[j] \in Row /\ Kept(rs[x][j], f(kept)[j])
  <2>1. c[x][j] \in Row /\ Kept(rs[x][j], c[x][j])
    BY <1>2 DEF Keeps, Rows
  <2>2. \/ st(kept, j) \in {"skipped", "cancelled", "waiting"} /\ j \in starts \cup skips
        \/ st(kept, j) = c[x][j].st
    BY <1>4
  <2> HIDE DEF st
  <2>3. st(kept, j) \in Status \cup {"none"} /\ Kept(rs[x][j], [st |-> st(kept, j)])
    <3>1. CASE st(kept, j) = c[x][j].st
      BY <2>1, <3>1 DEF Kept, Row, NoRow
    <3>2. CASE st(kept, j) \in {"skipped", "cancelled", "waiting"} /\ j \in starts \cup skips
      BY <1>3, <3>2 DEF Kept, Status, Pending, Done
    <3> QED BY <2>2, <3>1, <3>2
  <2>4. f(kept)[j] \in Row /\ f(kept)[j].st = st(kept, j)
    <3> DEFINE g == j \in mine \cup skipped
    <3>1. st(kept, j) = "none" => c[x][j].st = "none" /\ ~g
      <4> SUFFICES ASSUME st(kept, j) = "none" PROVE c[x][j].st = "none" /\ ~g
        OBVIOUS
      <4>1. c[x][j].st = "none" /\ rs[x][j].st = "none"
        BY <2>1, <2>2 DEF Kept
      <4> QED BY <1>3, <1>4, <4>1
    <3> HIDE DEF g
    <3>2. g \in BOOLEAN
      BY DEF g
    <3>3. f(kept)[j] = [c[x][j] EXCEPT !.st = st(kept, j), !.grp = c[x][j].grp \/ g]
      BY DEF g
    <3>5. (c[x][j].grp \/ g) \in BOOLEAN
      OBVIOUS
    <3>6. st(kept, j) = "none" => (c[x][j].grp \/ g) = c[x][j].grp
      <4> SUFFICES ASSUME st(kept, j) = "none" PROVE (c[x][j].grp \/ g) = c[x][j].grp
        OBVIOUS
      <4>1. c[x][j] = NoRow /\ g = FALSE
        BY <2>1, <3>1, <3>2, RowFields
      <4>2. c[x][j].grp = FALSE
        BY <4>1 DEF NoRow
      <4> QED BY <4>1, <4>2, Zenon
    <3> DEFINE b == c[x][j].grp \/ g
    <3> HIDE DEF b, c, g
    <3>7. \A bb \in BOOLEAN : (st(kept, j) = "none" => bb = c[x][j].grp) =>
             /\ [c[x][j] EXCEPT !.st = st(kept, j), !.grp = bb] \in Row
             /\ [c[x][j] EXCEPT !.st = st(kept, j), !.grp = bb].st = st(kept, j)
      <4> TAKE bb \in BOOLEAN
      <4> HAVE st(kept, j) = "none" => bb = c[x][j].grp
      <4> DEFINE u == c[x][j]
                 t == st(kept, j)
      <4>2. u.task = "live" => t \in Out
        <5>1. CASE t = u.st
          BY <2>1, <5>1, RowFields
        <5>2. CASE j \in starts \cup skips
          <6>1. rs[x][j].st = "blocked" /\ rs[x][j] \in Row
            BY <1>3, <5>2 DEF Rows
          <6>2. rs[x][j].task # "live"
            BY <6>1, RowFields DEF Out, Active
          <6> QED BY <1>2, <6>2
        <5> QED BY <2>2, <5>1, <5>2
      <4>1. u \in Row /\ t \in Status \cup {"none"} /\ (t = "none" => u.st = "none" /\ bb = u.grp)
        BY <2>1, <2>3, <3>1
      <4> SUFFICES [u EXCEPT !.st = t, !.grp = bb] \in Row
                   /\ [u EXCEPT !.st = t, !.grp = bb].st = t
        OBVIOUS
      <4> HIDE DEF u, t
      <4> QED BY <4>1, <4>2, WriteGroup
    <3>8. b \in BOOLEAN /\ (st(kept, j) = "none" => b = c[x][j].grp)
      BY <3>5, <3>6 DEF b
    <3>9. f(kept)[j] = [c[x][j] EXCEPT !.st = st(kept, j), !.grp = b]
      BY <3>3 DEF b
    <3> QED BY <3>7, <3>8, <3>9
  <2> QED BY <2>3, <2>4 DEF Kept
<1>6. ASSUME NEW kept, o = result(kept)
      PROVE  o.ok \in BOOLEAN /\ Keeps(rs, o.rs)
  <2>1. f(kept) \in [Name -> Row] /\ \A j \in Name : Kept(rs[x][j], f(kept)[j])
    BY <1>5
  <2> HIDE DEF f
  <2>2. Keeps(rs, [c EXCEPT ![x] = f(kept)])
    BY <1>2, <2>1, WriteKeeps
  <2> QED BY <1>6, <2>2
<1>7. Failed.ok = FALSE
  BY DEF Failed
<1> HIDE DEF result
<1> QED BY <1>1, <1>6, <1>7

(* The check of the jobs of one attempt (checkJobsOfCurrentRunAttempt)     *)
(* keeps jobs that are done.                                               *)
LEMMA CheckJobsKeeps ==
  ASSUME NEW rs \in Rows, NEW atts, NEW x \in Attempt, NEW blocked,
         NEW o \in CheckJobs(rs, atts, x, blocked)
  PROVE  o.ok \in BOOLEAN /\ (o.ok => Keeps(rs, o.rs))
<1>1. o \in Resolve(rs, atts, x) \/ o = [ok |-> TRUE, rs |-> rs]
  BY DEF CheckJobs
<1>2. CASE o = [ok |-> TRUE, rs |-> rs]
  <2>1. o.ok = TRUE /\ o.rs = rs
    BY <1>2
  <2> QED BY <2>1, KeepsSelf
<1> QED BY <1>1, <1>2, ResolveKeeps

(* The run or job that is woken with a group has been inserted.            *)
LEMMA BlockedInserted ==
  ASSUME TypeInv, NEW rs, Keeps(row, rs), NEW g, NEW q \in FindBlocked(g, rs)
  PROVE  <<q, latest[q]>> \in Attempt
<1>1. \A x \in Attempt : x \in Run \X (1..MaxAttempt) /\ x = <<x[1], x[2]>>
      /\ latest[x[1]] \in 0..MaxAttempt
  BY DEF Attempt, TypeInv, TypeOK
<1>2. ASSUME NEW x \in Attempt, x[2] > latest[x[1]]
      PROVE  AttemptsWith(rs)[x] = "none" /\ \A j \in Name : rs[x][j].st = "none"
  <2>1. attempt[x] = "none" /\ \A j \in Name : row[x][j].st = "none"
    BY <1>2 DEF TypeInv, Inserted
  <2>2. \A j \in Name : rs[x][j].st = "none"
    BY <2>1 DEF Keeps, Kept
  <2>3. SameJobs(rs, x)
    BY <2>1, <2>2 DEF SameJobs
  <2> QED BY <2>1, <2>2, <2>3 DEF AttemptsWith
<1>3. PICK x \in Attempt : q = x[1] /\ \/ AttemptsWith(rs)[x] = "blocked"
                                       \/ \E j \in Name : rs[x][j].st = "blocked"
  <2>1. CASE GroupAttempts(g, AttemptsWith(rs), {"blocked"}) # {}
    BY <2>1 DEF FindBlocked, GroupAttempts
  <2>2. CASE GroupAttempts(g, AttemptsWith(rs), {"blocked"}) = {}
    <3>1. PICK p \in GroupJobs(g, rs, {"blocked"}) : q = p[1][1]
      BY <2>2 DEF FindBlocked
    <3>2. p[1] \in Attempt /\ p[2] \in Name /\ rs[p[1]][p[2]].st = "blocked"
      BY DEF GroupJobs
    <3> QED BY <3>1, <3>2
  <2> QED BY <2>1, <2>2
<1>4. x[2] <= latest[x[1]]
  BY <1>1, <1>2, <1>3 DEF Attempt
<1> QED BY <1>1, <1>3, <1>4, ActionsRunAssumption DEF Attempt

(* So does the check of the attempts of a concurrency group                *)
(* (checkRunConcurrency).                                                  *)
LEMMA CheckRunConcurrencyKeeps ==
  ASSUME TypeInv, NEW h \in handling,
         NEW o1 \in CheckJobs(row, attempt, <<h.run, h.latest>>, h.blocked),
         NEW o \in CheckRunConcurrency(h.run, o1)
  PROVE  o.ok \in BOOLEAN /\ (o.ok => Keeps(row, o.rs))
<1>1. row \in Rows /\ <<h.run, h.latest>> \in Attempt
  BY DEF TypeInv, TypeOK, Rows, Call, Attempt
<1>2. o1.ok \in BOOLEAN /\ (o1.ok => Keeps(row, o1.rs))
  BY <1>1, CheckJobsKeeps
<1>3. CASE o = o1
  BY <1>2, <1>3
<1>4. ASSUME o1.ok, NEW q \in FindBlocked(wf[h.run].group, o1.rs),
             o \in CheckJobs(o1.rs, AttemptsWith(o1.rs), <<q, latest[q]>>,
                             RunsWith(o1.rs, latest)[q] = "blocked")
      PROVE  o.ok \in BOOLEAN /\ (o.ok => Keeps(row, o.rs))
  <2>1. o1.rs \in Rows /\ <<q, latest[q]>> \in Attempt
    BY <1>2, <1>4, BlockedInserted DEF Keeps
  <2>2. o.ok \in BOOLEAN /\ (o.ok => Keeps(o1.rs, o.rs))
    BY <1>4, <2>1, CheckJobsKeeps
  <2> QED BY <1>2, <1>4, <2>2, KeepsTrans
<1>5. o = o1 \/ (o1.ok /\ \E q \in FindBlocked(wf[h.run].group, o1.rs) :
        o \in CheckJobs(o1.rs, AttemptsWith(o1.rs), <<q, latest[q]>>,
                        RunsWith(o1.rs, latest)[q] = "blocked"))
  BY <1>2 DEF CheckRunConcurrency
<1> QED BY <1>3, <1>4, <1>5

(* An approval writes the latest attempt of its run.                       *)
Waits(r, rs) ==
  /\ rs \in Rows
  /\ \A y \in Attempt \ {<<r, latest[r]>>} : \A j \in Name : Kept(row[y][j], rs[y][j])

(* A job that is let go is a row with status "waiting".                    *)
LEMMA WaitingType ==
  ASSUME NEW u \in Row PROVE Waiting(u) \in Row /\ Waiting(u).st = "waiting"
BY WriteStatus DEF Waiting, Status, Pending, Out

(* An approval commits rows in which the jobs of the run wait; with        *)
(* nothing revived, it keeps the jobs that are done.                       *)
LEMMA ApproveWaits ==
  ASSUME TypeInv, NEW r \in Run, ApproveRuns(r)
  PROVE  \E rs, more, writes :
           /\ Commit(rs, latest, more) /\ Outdates(rs, latest, writes)
           /\ queue' = queue \cup RunsCancelledBy(rs)
           /\ more \subseteq {"revived", "unevaluated"}
           /\ Waits(r, rs) /\ ("revived" \notin more => Keeps(row, rs))
<1> DEFINE w == wf[r]
           x == <<r, latest[r]>>
           first == Roots(w, w.jobs)
           mine == {j \in first \cap w.grouped : row[x][j].grp}
           blocked == ShouldBlock(w.group, row, attempt)
           others == IF mine = {} THEN {} ELSE Previous(w.group, row, attempt, {x})
           written == (first \ w.grouped) \cup (IF blocked THEN {} ELSE mine)
           kept(last) == IF mine = {last} \/ ~blocked THEN {<<x, last>>} ELSE {}
           c(last) == CancelJobs(row, others \ kept(last))
           f(last) == [j \in Name |->
                       IF j \notin written THEN c(last)[x][j]
                       ELSE IF j \in mine \ {last} THEN Cancelled(x, Waiting(row[x][j]))
                       ELSE Waiting(row[x][j])]
           rs(last) == [c(last) EXCEPT ![x] = f(last)]
           more == (IF \A j \in written : row[x][j].st = "blocked" THEN {} ELSE {"revived"})
                   \cup (IF first \cap w.grouped = mine THEN {} ELSE {"unevaluated"})
           writes == {r} \cup StoppedAgain(others)
<1>1. PICK last : /\ Commit(rs(last), latest, more) /\ Outdates(rs(last), latest, writes)
                  /\ queue' = queue \cup RunsCancelledBy(rs(last))
  BY DEF ApproveRuns
<1>2. row \in Rows /\ x \in Attempt
  <2>1. latest[r] # 0
    BY DEF ApproveRuns
  <2>2. latest[r] \in 0..MaxAttempt /\ row \in Rows
    BY DEF TypeInv, TypeOK, Rows
  <2>3. latest[r] \in 1..MaxAttempt
    BY <2>1, <2>2, ActionsRunAssumption
  <2> QED BY <2>2, <2>3 DEF Attempt
<1>3. Keeps(row, c(last))
  BY <1>2, CancelJobsKeeps
<1> HIDE DEF c, written, mine, x, writes
<1>4. ASSUME NEW j \in Name
      PROVE  /\ f(last)[j] \in Row
             /\ (j \in written => row[x][j].st = "blocked") => Kept(row[x][j], f(last)[j])
  <2>1. row[x][j] \in Row /\ c(last)[x][j] \in Row /\ Kept(row[x][j], c(last)[x][j])
    BY <1>2, <1>3 DEF Keeps, Rows
  <2>2. Waiting(row[x][j]) \in Row /\ Waiting(row[x][j]).st = "waiting"
    BY <2>1, WaitingType
  <2>3. Cancelled(x, Waiting(row[x][j])) \in Row /\ Cancelled(x, Waiting(row[x][j])).st # "none"
    BY <2>2, CancelledKept DEF Kept
  <2> QED BY <2>1, <2>2, <2>3 DEF Kept, Done
<1> HIDE DEF f
<1>5. f(last) \in [Name -> Row]
  BY <1>4 DEF f
<1>6. rs(last) \in Rows /\ rs(last)[x] = f(last) /\ \A y \in Attempt \ {x} : rs(last)[y] = c(last)[y]
  BY <1>2, <1>3, <1>5 DEF Keeps, Rows
<1> HIDE DEF rs
<1>7. Waits(r, rs(last))
  BY <1>3, <1>6 DEF Waits, Keeps, x
<1>8. "revived" \notin more => Keeps(row, rs(last))
  BY <1>3, <1>4, <1>6 DEF Keeps
<1>9. more \subseteq {"revived", "unevaluated"}
  OBVIOUS
<1> HIDE DEF more
<1> QED BY <1>1, <1>7, <1>8, <1>9

(* A run is inserted with the rows of its first attempt.                   *)
LEMMA InsertStarts ==
  ASSUME TypeInv, NEW r \in Run, NEW w \in Workflow, InsertRun(r, w)
  PROVE  /\ latest[r] = 0 /\ <<r, 1>> \in Attempt
         /\ \E rs, others :
              /\ Commit(rs, [latest EXCEPT ![r] = 1], {})
              /\ Outdates(rs, [latest EXCEPT ![r] = 1], others) /\ r \in others
              /\ queue' = queue \cup RunsCancelledBy(rs) /\ Starts_(<<r, 1>>, rs)
<1> DEFINE x == <<r, 1>>
           first == Roots(w, w.jobs)
           start == IF RunBlocked(w) \/ w.approval THEN {} ELSE first
           new == [j \in Name |->
             IF j \notin w.jobs THEN NoRow
             ELSE [st |-> IF j \in start THEN "waiting" ELSE "blocked", task |-> "none",
                   grp |-> j \in first \cap w.grouped]]
           SG == start \cap w.grouped
           others == Rewrites(r, w, start)
<1>1. PICK rs \in StartInGroup([AfterRunConcurrency(r, w) EXCEPT ![x] = new], w.group, x, SG) :
        /\ Commit(rs, [latest EXCEPT ![r] = 1], {})
        /\ Outdates(rs, [latest EXCEPT ![r] = 1], others)
        /\ queue' = queue \cup RunsCancelledBy(rs)
  BY DEF InsertRun
<1>9. r \in others
  BY DEF Rewrites
<1> HIDE DEF others
<1>2. w.jobs \subseteq Name /\ w.jobs # {}
  BY ActionsRunAssumption DEF Definition
<1>3. first \subseteq w.jobs
  BY DEF Roots
<1>4. ASSUME NEW j \in Name
      PROVE  /\ new[j] \in Row
             /\ j \in w.jobs => new[j].st \in Pending
             /\ j \in SG => new[j].st \in Pending /\ new[j].task # "live"
  <2>1. NoRow \in Row
    BY DEF NoRow, Row
  <2>2. j \in SG => j \in w.jobs
    BY <1>3
  <2> QED BY <2>1, <2>2 DEF Row, Status, Pending, NoRow
<1>5. SG \in SUBSET Name
  BY <1>2, <1>3
<1> HIDE DEF first, start, SG
<1>6. new \in [Name -> Row] /\ \E j \in Name : new[j].st # "none"
  BY <1>2, <1>4 DEF Pending
<1> HIDE DEF new
<1>7. x \in Attempt /\ row \in Rows /\ latest[r] = 0
  <2>1. latest[r] = 0
    BY DEF InsertRun
  <2>2. MaxAttempt \in Nat /\ MaxAttempt # 0
    BY ActionsRunAssumption
  <2> QED BY <2>1, <2>2 DEF Attempt, TypeInv, TypeOK, Rows
<1>8. Starts_(x, rs)
  BY <1>1, <1>4, <1>5, <1>6, <1>7, NewAttempt
<1> QED BY <1>1, <1>7, <1>8, <1>9

(* A rerun adds the rows of the attempt after its template.                *)
LEMMA RerunStarts ==
  ASSUME TypeInv, NEW p \in plans, ExecRerunPlan(p)
  PROVE  /\ p.run \in Run /\ latest[p.run] = p.attempt /\ <<p.run, p.attempt>> \in Attempt
         /\ <<p.run, p.attempt + 1>> \in Attempt
         /\ \E rs, others :
              /\ Commit(rs, [latest EXCEPT ![p.run] = p.attempt + 1],
                        IF Awake(p.run) THEN {"superseded"} ELSE {})
              /\ Outdates(rs, [latest EXCEPT ![p.run] = p.attempt + 1], others)
              /\ p.run \in others /\ queue' = queue \cup RunsCancelledBy(rs)
              /\ Starts_(<<p.run, p.attempt + 1>>, rs)
<1> DEFINE r == p.run
           w == wf[r]
           x == <<r, p.attempt + 1>>
           old == p.template
           again == p.jobs
           start == IF RunBlocked(w) THEN {} ELSE Roots(w, again)
           new == [j \in Name |->
             IF j \in again
             THEN [st |-> IF j \in start THEN "waiting" ELSE "blocked", task |-> "none",
                   grp |-> j \in start \cap w.grouped]
             ELSE [old[j] EXCEPT !.task = "none"]]
           SG == start \cap w.grouped
           others == Rewrites(r, w, start)
<1>1. PICK rs \in StartInGroup([AfterRunConcurrency(r, w) EXCEPT ![x] = new], w.group, x, SG) :
        /\ Commit(rs, [latest EXCEPT ![r] = x[2]], IF Awake(r) THEN {"superseded"} ELSE {})
        /\ Outdates(rs, [latest EXCEPT ![r] = x[2]], others)
        /\ queue' = queue \cup RunsCancelledBy(rs)
  BY DEF ExecRerunPlan
<1>9. r \in others
  BY DEF Rewrites
<1> HIDE DEF others
<1>2. r \in Run /\ p.attempt \in 1..(MaxAttempt - 1) /\ again \subseteq Name /\ again # {}
  BY DEF TypeInv, TypeOK, Plan
<1>3. <<r, p.attempt>> \in Attempt /\ x \in Attempt /\ row \in Rows /\ latest[r] = p.attempt
  BY <1>2, ActionsRunAssumption DEF ExecRerunPlan, MayExecute, AttemptUnique, Attempt, TypeInv, TypeOK, Rows
<1>4. start \subseteq again
  BY DEF Roots
<1>5. ASSUME NEW j \in Name
      PROVE  /\ new[j] \in Row
             /\ j \in again => new[j].st \in Pending
             /\ j \in SG => new[j].st \in Pending /\ new[j].task # "live"
  <2>1. old[j] \in Row /\ [old[j] EXCEPT !.task = "none"] \in Row
    <3>1. old \in [Name -> Row]
      BY DEF TypeInv, TypeOK, Plan
    <3> QED BY <3>1, DropTask
  <2>2. j \in SG => j \in again
    BY <1>4
  <2> QED BY <2>1, <2>2 DEF Row, Status, Pending, NoRow
<1>6. SG \in SUBSET Name
  BY <1>2, <1>4
<1> HIDE DEF start, SG, old
<1>7. new \in [Name -> Row] /\ \E j \in Name : new[j].st # "none"
  BY <1>2, <1>5 DEF Pending
<1> HIDE DEF new
<1>8. Starts_(x, rs)
  BY <1>1, <1>3, <1>5, <1>6, <1>7, NewAttempt
<1> QED BY <1>1, <1>2, <1>3, <1>8, <1>9
-----------------------------------------------------------------------------
(***************************************************************************)
(* Types, and which attempts exist.                                        *)
(***************************************************************************)

(* What an approval or a check adds to what was cut.                       *)
Marks == {"revived", "unevaluated", "passed"}

(* A commit of rows leaves the tables in their types.                      *)
LEMMA CommitType ==
  ASSUME TypeOK, NEW rs \in Rows, NEW lat \in [Run -> 0..MaxAttempt], NEW more, Commit(rs, lat, more),
         more \subseteq {"superseded"} \cup Marks
  PROVE  /\ run' \in [Run -> Stored] /\ attempt' \in [Attempt -> Stored]
         /\ row' \in Rows /\ latest' \in [Run -> 0..MaxAttempt] /\ cut \subseteq cut'
         /\ more \subseteq cut'
         /\ cut' \subseteq {"overtaken", "refused", "superseded", "crash"} \cup Marks
<1>1. AttemptsWith(rs) \in [Attempt -> Stored]
  BY AggregateType DEF AttemptsWith, TypeOK, Stored
<1>2. RunsWith(rs, lat) \in [Run -> Stored]
  BY AggregateType DEF RunsWith, TypeOK, Stored
<1> QED BY <1>1, <1>2 DEF Commit, TypeOK, Marks

(* Only runs that have been inserted are queued (RunsCancelledBy).         *)
LEMMA CancelledInserted ==
  ASSUME TypeInv, NEW rs, NEW r \in RunsCancelledBy(rs)
  PROVE  r \in Run /\ latest[r] # 0
<1>1. PICK n \in 1..MaxAttempt, j \in Name : row[<<r, n>>][j].st \in Pending \cup Active
  BY DEF RunsCancelledBy
<1>2. r \in Run /\ <<r, n>> \in Attempt
  BY DEF RunsCancelledBy, Attempt
<1>3. row[<<r, n>>][j].st # "none"
  BY <1>1 DEF Pending, Active
<1>4. ~(n > latest[r])
  BY <1>2, <1>3 DEF TypeInv, Inserted
<1> QED BY <1>2, <1>4, ActionsRunAssumption

(* Only the steps of the emitter and of the users touch the queue.         *)
LEMMA QueueInserted ==
  ASSUME TypeInv, NEW rs, latest' \in [Run -> 0..MaxAttempt],
         \A r \in Run : latest[r] # 0 => latest'[r] # 0,
         queue' = queue \cup RunsCancelledBy(rs)
  PROVE  queue' \subseteq Run /\ \A r \in queue' : latest'[r] # 0
BY CancelledInserted DEF TypeInv, TypeOK, Inserted

(* A commit of rows of attempts that exist keeps the types.                *)
LEMMA CommitTypeInv ==
  ASSUME TypeInv, NEW rs \in Rows, NEW lat \in [Run -> 0..MaxAttempt], NEW more,
         more \subseteq {"superseded"} \cup Marks, Commit(rs, lat, more),
         \A r \in Run : latest[r] <= lat[r],
         \A x \in Attempt : x[2] > lat[x[1]] => \A j \in Name : Kept(row[x][j], rs[x][j]),
         wf' \in [Run -> Workflow \cup {None}], need' \in [Run -> BOOLEAN],
         report' = report, plans' \subseteq plans, asked' \in 0..Requests,
         freshReports' \subseteq Run, freshPlans' \subseteq plans',
         queue' = queue \cup RunsCancelledBy(rs), handling' \subseteq handling
  PROVE  TypeInv'
<1>1. /\ run' \in [Run -> Stored] /\ attempt' \in [Attempt -> Stored] /\ row' \in Rows
      /\ latest' \in [Run -> 0..MaxAttempt]
      /\ cut' \subseteq {"overtaken", "refused", "superseded", "crash"} \cup Marks
  BY CommitType DEF TypeInv
<1>2. latest' = lat /\ row' = rs /\ attempt' = AttemptsWith(rs)
  BY DEF Commit
<1>3. \A r \in Run : latest[r] \in Nat /\ latest'[r] \in Nat /\ (latest[r] # 0 => latest'[r] # 0)
  BY <1>1, <1>2, ActionsRunAssumption DEF TypeInv, TypeOK
<1>4. queue' \subseteq Run /\ \A r \in queue' : latest'[r] # 0
  BY <1>1, <1>3, QueueInserted
<1>5. TypeOK'
  BY <1>1, <1>4 DEF TypeInv, TypeOK, Stored, Rows, Marks
<1>6. ASSUME NEW x \in Attempt, x[2] > latest'[x[1]]
      PROVE  attempt'[x] = "none" /\ \A j \in Name : row'[x][j].st = "none"
  <2>1. x[1] \in Run /\ x[2] \in Nat
    BY ActionsRunAssumption DEF Attempt
  <2>2. x[2] > latest[x[1]]
    BY <1>2, <1>3, <1>6, <2>1
  <2>3. attempt[x] = "none" /\ \A j \in Name : row[x][j].st = "none"
    BY <2>2 DEF TypeInv, Inserted
  <2>4. \A j \in Name : rs[x][j].st = "none"
    BY <1>2, <1>6, <2>3 DEF Kept
  <2>5. SameJobs(rs, x)
    BY <2>3, <2>4 DEF SameJobs
  <2> QED BY <1>2, <2>3, <2>4, <2>5 DEF AttemptsWith
<1>7. ASSUME NEW r \in Run, report'[r].pc # "idle"
      PROVE  report'[r].att \in Attempt /\ report'[r].att[1] = r /\ report'[r].att[2] <= latest'[r]
  <2>1. report[r].att \in Attempt /\ report[r].att[1] = r /\ report[r].att[2] <= latest[r]
    BY <1>7 DEF TypeInv, Inserted
  <2>2. report[r].att[2] \in Nat
    BY <2>1, ActionsRunAssumption DEF Attempt
  <2> QED BY <1>2, <1>3, <2>1, <2>2
<1>8. \A r \in queue' \cup {h.run : h \in handling'} : latest'[r] # 0
  <2>1. ASSUME NEW h \in handling' PROVE latest'[h.run] # 0
    <3>1. h \in handling /\ h.run \in Run /\ latest[h.run] # 0
      BY DEF TypeInv, TypeOK, Inserted, Call
    <3> QED BY <1>3, <3>1
  <2> QED BY <1>4, <2>1
<1> QED BY <1>5, <1>6, <1>7, <1>8 DEF TypeInv, Inserted
-----------------------------------------------------------------------------
(***************************************************************************)
(* What a transaction means for the statuses.                              *)
(***************************************************************************)

(* What a commit writes, and what it says was cut.                         *)
LEMMA CommitCut ==
  ASSUME NEW rs, NEW lat, NEW more, Commit(rs, lat, more)
  PROVE  /\ cut \subseteq cut' /\ more \subseteq cut'
         /\ row' = rs /\ attempt' = AttemptsWith(rs) /\ run' = RunsWith(rs, lat) /\ latest' = lat
         /\ cut' \cap Losses = {} => cut \cap Losses = {} /\ ~Overtakes(rs)
BY DEF Commit, Losses

(* A transaction adds an attempt to a run only when the one before has     *)
(* ended.                                                                  *)
Adds(r, rs, lat) ==
  /\ lat[r] = latest[r] + 1 /\ <<r, lat[r]>> \in Attempt
  /\ ~SameJobs(rs, <<r, lat[r]>>)
  /\ latest[r] # 0 /\ "revived" \notin cut => Ended(row, <<r, latest[r]>>)

(* Unless it revives jobs, a transaction records an attempt, or a run, as  *)
(* done only when its jobs are, and spoils no report.                      *)
LEMMA CommitDone ==
  ASSUME TypeInv, AttemptDone, ReportDone, RunDone, NEW rs \in Rows,
         NEW lat \in [Run -> 0..MaxAttempt], NEW more,
         Commit(rs, lat, more), report' = report,
         \A r \in Run : lat[r] = latest[r] \/ Adds(r, rs, lat),
         "revived" \notin cut' => \A r \in Run : report[r].pc # "idle" =>
           \A j \in Name : Kept(row[report[r].att][j], rs[report[r].att][j])
  PROVE  AttemptDone' /\ ReportDone' /\ RunDone'
<1>1. AttemptDone'
  <2> SUFFICES ASSUME "revived" \notin cut', NEW x \in Attempt, attempt'[x] \in Done
               PROVE  Ended(row', x)
    BY DEF AttemptDone, Ended
  <2>1. "revived" \notin cut /\ row' = rs /\ attempt' = AttemptsWith(rs)
    BY CommitCut
  <2>2. CASE SameJobs(rs, x)
    <3>1. attempt[x] \in Done
      BY <2>1, <2>2 DEF AttemptsWith
    <3>2. Ended(row, x)
      BY <2>1, <3>1 DEF AttemptDone, Ended
    <3> QED BY <2>1, <2>2, <3>2, SameStatuses
  <2>3. CASE ~SameJobs(rs, x)
    BY <2>1, <2>3, DoneEnds DEF AttemptsWith
  <2> QED BY <2>2, <2>3
<1>2. ReportDone'
  <2> SUFFICES ASSUME "revived" \notin cut', NEW r \in Run,
                      report[r].pc \in {"store", "load", "run"}, report[r].agg \in Done
               PROVE  Ended(rs, report[r].att)
    BY CommitCut DEF ReportDone, Ended
  <2>1. "revived" \notin cut
    BY CommitCut
  <2>2. Ended(row, report[r].att)
    BY <2>1 DEF ReportDone
  <2> QED BY <2>2 DEF Ended, Kept
<1>3. RunDone'
  <2> SUFFICES ASSUME "revived" \notin cut', NEW r \in Run, lat[r] # 0, run'[r] \in Done
               PROVE  Ended(rs, <<r, lat[r]>>)
    BY CommitCut DEF RunDone, Ended
  <2>1. "revived" \notin cut /\ run' = RunsWith(rs, lat)
    BY CommitCut
  <2>2. <<r, lat[r]>> \in Attempt
    BY ActionsRunAssumption DEF Attempt
  <2>3. CASE SameJobs(rs, <<r, lat[r]>>)
    <3>1. lat[r] = latest[r] /\ run[r] \in Done
      BY <2>1, <2>3 DEF Adds, RunsWith
    <3>2. Ended(row, <<r, lat[r]>>)
      BY <2>1, <3>1 DEF RunDone
    <3> QED BY <2>3, <3>2, SameStatuses
  <2>4. CASE ~SameJobs(rs, <<r, lat[r]>>)
    BY <2>1, <2>2, <2>4, DoneEnds DEF RunsWith
  <2> QED BY <2>3, <2>4
<1> QED BY <1>1, <1>2, <1>3

(* Nor does it let a job of an attempt run that has a successor.           *)
LEMMA CommitAlive ==
  ASSUME TypeInv, OneAttemptAlive, NEW rs \in Rows, NEW lat \in [Run -> 0..MaxAttempt], NEW more,
         Commit(rs, lat, more),
         "revived" \notin cut' =>
           \A x \in Attempt : x[2] <= latest[x[1]] => \A j \in Name : Kept(row[x][j], rs[x][j]),
         \A r \in Run : lat[r] = latest[r] \/ Adds(r, rs, lat)
  PROVE  OneAttemptAlive'
<1> SUFFICES ASSUME "revived" \notin cut', NEW x \in Attempt, x[2] < lat[x[1]]
             PROVE  Ended(rs, x)
  BY CommitCut DEF OneAttemptAlive, Ended
<1>1. "revived" \notin cut
  BY CommitCut
<1>2. /\ x[1] \in Run /\ x[2] \in Nat /\ x[2] # 0 /\ x = <<x[1], x[2]>>
      /\ lat[x[1]] \in Nat /\ latest[x[1]] \in Nat
  <2>1. x[1] \in Run /\ x[2] \in 1..MaxAttempt /\ x = <<x[1], x[2]>>
    BY DEF Attempt
  <2>2. lat[x[1]] \in 0..MaxAttempt /\ latest[x[1]] \in 0..MaxAttempt
    BY <2>1 DEF TypeInv, TypeOK
  <2> QED BY <2>1, <2>2, ActionsRunAssumption
<1>3. lat[x[1]] = latest[x[1]] \/ (lat[x[1]] = latest[x[1]] + 1 /\ Adds(x[1], rs, lat))
  BY <1>2 DEF Adds
<1>4. x[2] <= latest[x[1]]
  BY <1>2, <1>3
<1>5. Ended(row, x)
  <2>1. CASE x[2] < latest[x[1]]
    BY <1>1, <2>1 DEF OneAttemptAlive, Ended
  <2>2. CASE x[2] = latest[x[1]]
    <3>1. Adds(x[1], rs, lat) /\ latest[x[1]] # 0
      BY <1>2, <1>3, <2>2
    <3>2. Ended(row, <<x[1], latest[x[1]]>>)
      BY <1>1, <3>1 DEF Adds
    <3> QED BY <1>2, <2>2, <3>2
  <2> QED BY <1>2, <1>4, <2>1, <2>2
<1> QED BY <1>4, <1>5 DEF Ended, Kept

(* Who read a run that is not written holds its version.                   *)
LEMMA CommitFresh ==
  ASSUME TypeInv, Fresh, NEW rs, NEW lat \in [Run -> 0..MaxAttempt], NEW more, NEW others,
         Commit(rs, lat, more), Outdates(rs, lat, others), report' = report,
         \A r \in Run : lat[r] = latest[r] \/ r \in others
  PROVE  /\ Fresh' /\ freshReports' \subseteq freshReports /\ freshPlans' \subseteq freshPlans
         /\ \A r \in freshReports' : SameJobs(rs, report[r].att)
<1>1. /\ freshReports' \subseteq freshReports /\ freshPlans' \subseteq freshPlans
      /\ \A r \in freshReports' : ~Writes(r, rs, lat, others)
      /\ \A p \in freshPlans' : ~Writes(p.run, rs, lat, others)
  BY DEF Outdates
<1>2. freshReports \subseteq Run /\ \A p \in freshPlans : p.run \in Run
  BY DEF TypeInv, TypeOK, Plan
<1>3. ASSUME NEW r \in Run, ~Writes(r, rs, lat, others)
      PROVE  /\ lat[r] = latest[r] /\ run'[r] = run[r]
             /\ latest[r] # 0 => SameJobs(rs, <<r, latest[r]>>)
  <2>1. lat[r] = latest[r] /\ (lat[r] # 0 => SameJobs(rs, <<r, lat[r]>>))
    BY <1>3 DEF Writes
  <2>2. run'[r] = RunsWith(rs, lat)[r]
    BY CommitCut
  <2> QED BY <2>1, <2>2 DEF RunsWith
<1>4. ASSUME NEW r \in freshReports' PROVE SameJobs(rs, report[r].att)
  <2>1. r \in Run /\ r \in freshReports /\ report[r].pc = "run" /\ report[r].att[2] = latest[r]
    BY <1>1, <1>2 DEF Fresh
  <2>2. report[r].att \in Attempt /\ report[r].att[1] = r
    BY <2>1 DEF TypeInv, Inserted
  <2>3. report[r].att = <<r, latest[r]>> /\ latest[r] # 0
    BY <2>1, <2>2, ActionsRunAssumption DEF Attempt
  <2> QED BY <1>1, <1>3, <2>1, <2>3
<1>5. latest' = lat
  BY CommitCut
<1>6. Fresh'
  <2>1. \A r \in freshReports' : report'[r].pc = "run" /\ report'[r].att[2] = latest'[r]
    BY <1>1, <1>2, <1>3, <1>5 DEF Fresh
  <2>2. \A p \in freshPlans' : p.attempt = latest'[p.run] /\ run'[p.run] \in Done
    BY <1>1, <1>2, <1>3, <1>5 DEF Fresh
  <2> QED BY <2>1, <2>2 DEF Fresh
<1> QED BY <1>1, <1>4, <1>6

(* A transaction that overtakes no report stores in attempts and runs what *)
(* their jobs say.                                                         *)
LEMMA CommitSync ==
  ASSUME TypeInv, Fresh, StatusAgrees, InSync, NEW rs \in Rows, NEW lat \in [Run -> 0..MaxAttempt],
         NEW more, Commit(rs, lat, more), report' = report, freshReports' \subseteq freshReports,
         \A r \in freshReports' : SameJobs(rs, report[r].att),
         \A r \in Run : lat[r] = latest[r] \/ Adds(r, rs, lat)
  PROVE  StatusAgrees' /\ InSync'
<1> SUFFICES ASSUME cut' \cap Losses = {} PROVE StatusAgrees' /\ InSync'
  BY DEF StatusAgrees, InSync, Losses
<1>1. /\ cut \cap Losses = {} /\ ~Overtakes(rs) /\ row' = rs /\ attempt' = AttemptsWith(rs)
      /\ run' = RunsWith(rs, lat) /\ latest' = lat
  BY CommitCut
<1>2. freshReports' \subseteq Run
  BY DEF TypeInv, TypeOK
<1>3. ASSUME NEW r \in Run, lat[r] # 0
      PROVE  <<r, lat[r]>> \in Attempt
  <2>1. lat[r] \in 0..MaxAttempt
    OBVIOUS
  <2> QED BY <1>3, <2>1, ActionsRunAssumption DEF Attempt
<1>4. StatusAgrees'
  <2> SUFFICES ASSUME NEW r \in Run, lat[r] # 0,
                      ~(report[r].pc # "idle" /\ report[r].att = <<r, lat[r]>>)
               PROVE  /\ attempt'[<<r, lat[r]>>] = AggregateJobStatus(JobStatuses(rs, <<r, lat[r]>>))
                      /\ run'[r] = attempt'[<<r, lat[r]>>]
    BY <1>1 DEF StatusAgrees
  <2>1. CASE SameJobs(rs, <<r, lat[r]>>)
    <3>1. lat[r] = latest[r]
      BY <2>1 DEF Adds
    <3>2. JobStatuses(rs, <<r, lat[r]>>) = JobStatuses(row, <<r, lat[r]>>)
      BY <2>1, SameStatuses
    <3>3. /\ attempt[<<r, lat[r]>>] = AggregateJobStatus(JobStatuses(row, <<r, lat[r]>>))
          /\ run[r] = attempt[<<r, lat[r]>>]
      BY <1>1, <3>1 DEF StatusAgrees, Losses
    <3>4. run'[r] = run[r] /\ attempt'[<<r, lat[r]>>] = attempt[<<r, lat[r]>>]
      BY <1>1, <1>3, <2>1 DEF RunsWith, AttemptsWith
    <3> QED BY <3>2, <3>3, <3>4
  <2>2. CASE ~SameJobs(rs, <<r, lat[r]>>)
    BY <1>1, <1>3, <2>2 DEF RunsWith, AttemptsWith
  <2> QED BY <2>1, <2>2
<1>5. ASSUME NEW r \in Run, report[r].pc \in {"store", "load"} \/ r \in freshReports'
      PROVE  /\ report[r].agg = AggregateJobStatus(JobStatuses(rs, report[r].att))
             /\ report[r].pc = "load" \/ r \in freshReports' =>
                  attempt'[report[r].att] = report[r].agg
  <2>1. report[r].pc # "idle"
    <3>1. r \in freshReports => report[r].pc = "run"
      BY DEF Fresh
    <3> QED BY <1>5, <3>1
  <2>2. report[r].att \in Attempt
    BY <2>1 DEF TypeInv, Inserted
  <2>3. SameJobs(rs, report[r].att)
    BY <1>1, <1>5 DEF Overtakes
  <2>4. /\ report[r].agg = AggregateJobStatus(JobStatuses(row, report[r].att))
        /\ report[r].pc = "load" \/ r \in freshReports' => attempt[report[r].att] = report[r].agg
    BY <1>1, <1>5 DEF InSync
  <2> QED BY <1>1, <2>2, <2>3, <2>4, SameStatuses DEF AttemptsWith
<1>6. InSync'
  BY <1>1, <1>2, <1>5 DEF InSync
<1> QED BY <1>4, <1>6
-----------------------------------------------------------------------------
(***************************************************************************)
(* The inductive invariant.                                                *)
(***************************************************************************)

(* Nothing is inserted yet.                                                *)
LEMMA InitInv == Init => IInv
<1> SUFFICES ASSUME Init PROVE IInv
  OBVIOUS
<1>1. /\ NoRow \in Row /\ NoReport \in Report /\ NoRow.st = "none" /\ NoReport.pc = "idle"
  BY DEF NoRow, Row, NoReport, Report
<1>2. \A x \in Attempt : /\ attempt[x] = "none" /\ row[x] = [j \in Name |-> NoRow]
                         /\ \A j \in Name : row[x][j].st = "none"
  BY <1>1 DEF Init
<1>3. \A r \in Run : latest[r] = 0 /\ report[r] = NoReport
  BY DEF Init
<1>4. TypeInv
  <2>1. TypeOK
    BY <1>1, ActionsRunAssumption DEF Init, TypeOK
  <2>2. Inserted
    BY <1>1, <1>2, <1>3 DEF Init, Inserted
  <2> QED BY <2>1, <2>2 DEF TypeInv
<1>5. AttemptDone /\ OneAttemptAlive
  BY <1>2 DEF AttemptDone, OneAttemptAlive, Done
<1>6. ReportDone /\ RunDone /\ StatusAgrees
  BY <1>1, <1>3 DEF ReportDone, RunDone, StatusAgrees
<1>7. Fresh /\ InSync
  BY <1>1, <1>3 DEF Fresh, InSync, Init
<1> QED BY <1>4, <1>5, <1>6, <1>7 DEF IInv, Statuses

(* A transaction of cancellations, claims and the emitter keeps it, and so *)
(* does an approval, whether it revives jobs or not.                       *)
LEMMA OrdinaryCommit ==
  ASSUME IInv, NEW rs \in Rows, NEW more \in SUBSET Marks, NEW others,
         Commit(rs, latest, more), Outdates(rs, latest, others),
         "revived" \notin more => Keeps(row, rs),
         \A x \in Attempt : x[2] > latest[x[1]] => \A j \in Name : Kept(row[x][j], rs[x][j]),
         wf' \in [Run -> Workflow \cup {None}], need' \in [Run -> BOOLEAN],
         report' = report, plans' = plans, asked' \in 0..Requests,
         queue' = queue \cup RunsCancelledBy(rs), handling' \subseteq handling
  PROVE  IInv'
<1>1. latest \in [Run -> 0..MaxAttempt] /\ \A r \in Run : latest[r] <= latest[r]
  BY ActionsRunAssumption DEF IInv, TypeInv, TypeOK
<1>2. /\ Fresh' /\ freshReports' \subseteq freshReports /\ freshPlans' \subseteq freshPlans
      /\ \A r \in freshReports' : SameJobs(rs, report[r].att)
  BY <1>1, CommitFresh DEF IInv
<1>3. TypeInv'
  <2>1. freshReports' \subseteq Run /\ freshPlans' \subseteq plans' /\ plans' \subseteq plans
    BY <1>2 DEF IInv, TypeInv, TypeOK
  <2> QED BY <1>1, <2>1, CommitTypeInv DEF IInv
<1>4. "revived" \notin cut' => Keeps(row, rs)
  BY CommitCut
<1>5. AttemptDone' /\ ReportDone' /\ RunDone'
  BY <1>1, <1>4, CommitDone DEF IInv, Statuses, TypeInv, Inserted, Keeps
<1>6. OneAttemptAlive'
  BY <1>1, <1>4, CommitAlive DEF IInv, Statuses, Keeps
<1>7. StatusAgrees' /\ InSync'
  BY <1>1, <1>2, CommitSync DEF IInv, Statuses
<1> QED BY <1>2, <1>3, <1>5, <1>6, <1>7 DEF IInv, Statuses

(* So does a transaction that adds an attempt.                             *)
LEMMA AddingCommit ==
  ASSUME IInv, NEW r \in Run, NEW n, NEW rs, NEW more \in SUBSET {"superseded"}, NEW others,
         n = latest[r] + 1, <<r, n>> \in Attempt, Starts_(<<r, n>>, rs), r \in others,
         Commit(rs, [latest EXCEPT ![r] = n], more),
         Outdates(rs, [latest EXCEPT ![r] = n], others),
         latest[r] # 0 /\ "revived" \notin cut => Ended(row, <<r, latest[r]>>),
         wf' \in [Run -> Workflow \cup {None}], need' \in [Run -> BOOLEAN],
         report' = report, plans' \subseteq plans, \A p \in plans : p.run = r \/ p \in plans',
         asked' \in 0..Requests,
         queue' = queue \cup RunsCancelledBy(rs), handling' \subseteq handling
  PROVE  IInv'
<1> DEFINE x == <<r, n>>
           lat == [latest EXCEPT ![r] = n]
<1>1. /\ latest \in [Run -> 0..MaxAttempt] /\ n \in 1..MaxAttempt
      /\ lat \in [Run -> 0..MaxAttempt] /\ lat[r] = n
      /\ \A q \in Run : latest[q] \in Nat /\ lat[q] \in Nat /\ latest[q] <= lat[q]
                        /\ (q # r => lat[q] = latest[q])
  BY ActionsRunAssumption DEF IInv, TypeInv, TypeOK, Attempt
<1>2. /\ rs \in Rows
      /\ \A y \in Attempt \ {x} : \A j \in Name : Kept(row[y][j], rs[y][j])
      /\ \E j \in Name : rs[x][j].st # "none"
  BY DEF Starts_
<1>3. \A y \in Attempt : y = <<y[1], y[2]>> /\ y[1] \in Run /\ y[2] \in Nat
  BY ActionsRunAssumption DEF Attempt
<1>4. \A y \in Attempt : y[2] > lat[y[1]] => y # x
  <2> SUFFICES ASSUME x[2] > lat[x[1]] PROVE FALSE
    OBVIOUS
  <2> QED BY <1>1
<1>5. \A y \in Attempt : y[2] <= latest[y[1]] => y # x
  <2> SUFFICES ASSUME x[2] <= latest[x[1]] PROVE FALSE
    OBVIOUS
  <2> QED BY <1>1
<1>6. ~SameJobs(rs, x)
  <2>1. \A j \in Name : row[x][j].st = "none"
    BY <1>1 DEF IInv, TypeInv, Inserted
  <2> QED BY <1>2, <2>1 DEF SameJobs
<1>7. Adds(r, rs, lat) /\ \A q \in Run : lat[q] = latest[q] \/ Adds(q, rs, lat)
  BY <1>1, <1>6 DEF Adds
<1> HIDE DEF x, lat
<1>8. /\ Fresh' /\ freshReports' \subseteq freshReports /\ freshPlans' \subseteq freshPlans
      /\ \A q \in freshReports' : SameJobs(rs, report[q].att)
  <2>1. \A q \in Run : lat[q] = latest[q] \/ q \in others
    BY <1>1
  <2>2. Commit(rs, lat, more) /\ Outdates(rs, lat, others)
    BY DEF lat
  <2> QED BY <1>1, <2>1, <2>2, CommitFresh DEF IInv
<1>9. freshPlans' \subseteq plans'
  <2>1. \A p \in freshPlans' : p.run # r
    BY DEF Outdates, Writes
  <2> QED BY <1>8, <2>1 DEF IInv, TypeInv, TypeOK
<1>10. freshReports' \subseteq Run
  BY <1>8 DEF IInv, TypeInv, TypeOK
<1>11. TypeInv'
  BY <1>1, <1>2, <1>4, <1>9, <1>10, CommitTypeInv DEF IInv, x, lat
<1>12. AttemptDone' /\ ReportDone' /\ RunDone'
  <2>1. ASSUME NEW q \in Run, report[q].pc # "idle"
        PROVE  report[q].att \in Attempt /\ report[q].att # x
    BY <1>5, <2>1 DEF IInv, TypeInv, Inserted
  <2> QED BY <1>1, <1>2, <1>7, <2>1, CommitDone DEF IInv, Statuses, x, lat
<1>13. OneAttemptAlive'
  BY <1>1, <1>2, <1>5, <1>7, CommitAlive DEF IInv, Statuses, x, lat
<1>14. StatusAgrees' /\ InSync'
  BY <1>1, <1>2, <1>7, <1>8, CommitSync DEF IInv, Statuses, x, lat
<1> QED BY <1>8, <1>11, <1>12, <1>13, <1>14 DEF IInv, Statuses
-----------------------------------------------------------------------------
(***************************************************************************)
(* Each action keeps the invariant.                                        *)
(***************************************************************************)

(* InsertRun: there is no attempt before the first.                        *)
LEMMA InsertInv ==
  ASSUME IInv, NEW r \in Run, NEW w \in Workflow, InsertRun(r, w) PROVE IInv'
<1>1. /\ TypeInv /\ wf \in [Run -> Workflow \cup {None}] /\ need \in [Run -> BOOLEAN]
      /\ asked \in 0..Requests /\ w.approval \in BOOLEAN
  BY ActionsRunAssumption DEF IInv, TypeInv, TypeOK, Definition
<1>2. latest[r] = 0 /\ <<r, 1>> \in Attempt
  BY <1>1, InsertStarts
<1>3. PICK rs, others :
        /\ Commit(rs, [latest EXCEPT ![r] = 1], {})
        /\ Outdates(rs, [latest EXCEPT ![r] = 1], others) /\ r \in others
        /\ queue' = queue \cup RunsCancelledBy(rs) /\ Starts_(<<r, 1>>, rs)
  BY <1>1, InsertStarts
<1>5. /\ wf' \in [Run -> Workflow \cup {None}] /\ need' \in [Run -> BOOLEAN]
      /\ report' = report /\ plans' \subseteq plans /\ asked' \in 0..Requests
      /\ handling' \subseteq handling /\ \A p \in plans : p \in plans'
  BY <1>1 DEF InsertRun
<1> DEFINE n == 1
           more == {}
<1>6. n = latest[r] + 1 /\ more \in SUBSET {"superseded"} /\ <<r, n>> \in Attempt
      /\ Commit(rs, [latest EXCEPT ![r] = n], more) /\ Starts_(<<r, n>>, rs)
      /\ Outdates(rs, [latest EXCEPT ![r] = n], others)
  BY <1>2, <1>3
<1> HIDE DEF n, more
<1> QED BY <1>2, <1>3, <1>5, <1>6, AddingCommit

(* execRerunPlan: the run has the version that the plan read, so it is     *)
(* done and its jobs have ended.                                           *)
LEMMA RerunInv ==
  ASSUME IInv, NEW p \in plans, ExecRerunPlan(p) PROVE IInv'
<1> DEFINE r == p.run
           n == p.attempt + 1
           more == IF Awake(r) THEN {"superseded"} ELSE {}
<1>1. TypeInv
  BY DEF IInv
<1>2. r \in Run /\ latest[r] = p.attempt /\ <<r, n>> \in Attempt
  BY <1>1, RerunStarts
<1>3. PICK rs, others :
        /\ Commit(rs, [latest EXCEPT ![r] = n], more)
        /\ Outdates(rs, [latest EXCEPT ![r] = n], others) /\ r \in others
        /\ queue' = queue \cup RunsCancelledBy(rs) /\ Starts_(<<r, n>>, rs)
  BY <1>1, RerunStarts
<1>4. ASSUME latest[r] # 0, "revived" \notin cut
      PROVE  Ended(row, <<r, latest[r]>>)
  <2>1. p \in freshPlans
    BY DEF ExecRerunPlan, MayExecute, RunUnchanged
  <2> QED BY <1>2, <1>4, <2>1 DEF IInv, Fresh, Statuses, RunDone
<1>5. /\ wf' \in [Run -> Workflow \cup {None}] /\ need' \in [Run -> BOOLEAN]
      /\ report' = report /\ plans' = plans \ {p} /\ asked' \in 0..Requests
      /\ handling' \subseteq handling
  BY <1>1 DEF ExecRerunPlan, TypeInv, TypeOK
<1>7. plans' \subseteq plans /\ \A q \in plans : q.run = r \/ q \in plans'
  BY <1>5
<1>6. n = latest[r] + 1 /\ more \in SUBSET {"superseded"}
  BY <1>2
<1> HIDE DEF r, n, more
<1> QED BY <1>2, <1>3, <1>4, <1>5, <1>6, <1>7, AddingCommit

(* CancelRun, ClaimJob, ApproveRuns and the emitter's transaction.         *)
LEMMA KeepsCommit ==
  ASSUME IInv, NEW rs, Keeps(row, rs), NEW more \in SUBSET Marks, NEW others,
         Commit(rs, latest, more), Outdates(rs, latest, others),
         wf' = wf, need' = need, report' = report, plans' = plans, asked' \in 0..Requests,
         queue' = queue \cup RunsCancelledBy(rs), handling' \subseteq handling
  PROVE  IInv'
BY OrdinaryCommit DEF Keeps, IInv, TypeInv, TypeOK

(* A needless request is counted.                                          *)
LEMMA AskType == ASSUME TypeOK, Ask PROVE asked' \in 0..Requests
BY ActionsRunAssumption DEF Ask, TypeOK

(* Cancelling a run keeps the invariant.                                   *)
LEMMA CancelInv == ASSUME IInv, NEW r \in Run, CancelRun(r) PROVE IInv'
<1> DEFINE rs == CancelJobs(row, {<<r, latest[r]>>} \X Name)
           others == StoppedAgain({<<r, latest[r]>>} \X Name)
<1>1. row \in Rows /\ asked' \in 0..Requests
  BY AskType DEF CancelRun, IInv, TypeInv, TypeOK, Rows
<1>2. /\ Commit(rs, latest, {}) /\ queue' = queue \cup RunsCancelledBy(rs)
      /\ Outdates(rs, latest, others) /\ UNCHANGED <<wf, need, report, plans, handling>>
  BY DEF CancelRun
<1>3. Keeps(row, rs)
  BY <1>1, CancelJobsKeeps
<1>4. {} \in SUBSET Marks /\ handling' \subseteq handling
  BY <1>2
<1> HIDE DEF rs, others
<1> QED BY <1>1, <1>2, <1>3, <1>4, KeepsCommit

(* Approving a run keeps the invariant.                                    *)
LEMMA ApproveInv == ASSUME IInv, NEW r \in Run, ApproveRuns(r) PROVE IInv'
<1>1. PICK rs, more, others :
        /\ Commit(rs, latest, more) /\ Outdates(rs, latest, others)
        /\ queue' = queue \cup RunsCancelledBy(rs)
        /\ more \subseteq {"revived", "unevaluated"}
        /\ Waits(r, rs) /\ ("revived" \notin more => Keeps(row, rs))
  BY ApproveWaits DEF IInv
<1>2. rs \in Rows /\ \A y \in Attempt \ {<<r, latest[r]>>} : \A j \in Name : Kept(row[y][j], rs[y][j])
  BY <1>1 DEF Waits
<1>3. /\ wf' \in [Run -> Workflow \cup {None}] /\ need' \in [Run -> BOOLEAN]
      /\ report' = report /\ plans' = plans /\ asked' \in 0..Requests
      /\ handling' \subseteq handling
  BY AskType DEF ApproveRuns, IInv, TypeInv, TypeOK
<1>4. \A y \in Attempt : y[2] > latest[y[1]] => y # <<r, latest[r]>>
  <2> SUFFICES ASSUME latest[r] > latest[r] PROVE FALSE
    OBVIOUS
  <2> QED BY ActionsRunAssumption DEF IInv, TypeInv, TypeOK
<1> QED BY <1>1, <1>2, <1>3, <1>4, OrdinaryCommit DEF Marks

(* A runner that claims a job keeps the invariant.                         *)
LEMMA ClaimInv == ASSUME IInv, NEW x \in Attempt, NEW j \in Name, ClaimJob(x, j) PROVE IInv'
<1> DEFINE u == row[x][j]
           v == [u EXCEPT !.st = "running", !.task = "live"]
           f == [row[x] EXCEPT ![j] = v]
           rs == [row EXCEPT ![x] = f]
<1>1. row \in Rows /\ u \in Row /\ u.st = "waiting" /\ u.task = "none"
  BY DEF ClaimJob, IInv, TypeInv, TypeOK, Rows
<1>2. v \in Row /\ v.st = "running"
  BY <1>1, WriteBoth DEF Status, Active, Out
<1>3. Kept(u, v)
  BY <1>1, <1>2 DEF Kept, Done
<1> HIDE DEF v
<1>4. f \in [Name -> Row] /\ \A k \in Name : Kept(row[x][k], f[k])
  BY <1>1, <1>2, <1>3 DEF Rows, Kept
<1>5. Keeps(row, rs)
  BY <1>1, <1>4, KeepsSelf, WriteKeeps
<1>6. Commit(rs, latest, {}) /\ Outdates(rs, latest, {})
  <2> rs = [row EXCEPT ![x][j].st = "running", ![x][j].task = "live"]
    BY <1>1 DEF Rows, v
  <2> QED BY DEF ClaimJob
<1>7. RunsCancelledBy(rs) = {}
  <2> SUFFICES ASSUME NEW r \in Run, NEW n \in 1..MaxAttempt, NEW k \in Name,
                      row[<<r, n>>][k].st \in Pending \cup Active,
                      rs[<<r, n>>][k].st = "cancelled"
               PROVE  FALSE
    BY DEF RunsCancelledBy
  <2>1. <<r, n>> \in Attempt
    BY DEF Attempt
  <2>2. rs[<<r, n>>][k] = row[<<r, n>>][k] \/ rs[<<r, n>>][k] = v
    BY <1>1, <2>1 DEF Rows
  <2> QED BY <1>2, <2>2 DEF Pending, Active
<1> HIDE DEF rs
<1>8. asked' \in 0..Requests
  BY DEF ClaimJob, IInv, TypeInv, TypeOK
<1>9. /\ wf' = wf /\ need' = need /\ report' = report /\ plans' = plans
      /\ queue' = queue \cup RunsCancelledBy(rs) /\ handling' \subseteq handling
  BY <1>7 DEF ClaimJob
<1> QED BY <1>5, <1>6, <1>8, <1>9, KeepsCommit

(* Steps that touch neither rows nor reports keep the statuses, and so do  *)
(* steps that only forget reports and versions.                            *)
LEMMA SameRows ==
  ASSUME IInv, UNCHANGED <<latest, run, attempt, row>>, cut \subseteq cut',
         freshReports' \subseteq freshReports,
         \A r \in Run : report'[r] = report[r] \/ (report'[r].pc = "idle" /\ r \notin freshReports'
                        /\ (report[r].att = <<r, latest[r]>> => cut' \cap Losses # {}))
  PROVE  Statuses'
<1>1. AttemptDone' /\ OneAttemptAlive' /\ RunDone' /\ ReportDone'
  BY DEF IInv, Statuses, AttemptDone, ReportDone, RunDone, OneAttemptAlive, Ended
<1>2. \A x : JobStatuses(row', x) = JobStatuses(row, x)
  BY DEF JobStatuses
<1>3. StatusAgrees'
  <2> SUFFICES ASSUME cut' \cap Losses = {}, NEW q \in Run, latest[q] # 0,
                      ~(report'[q].pc # "idle" /\ report'[q].att = <<q, latest[q]>>)
               PROVE  /\ attempt[<<q, latest[q]>>] = AggregateJobStatus(JobStatuses(row', <<q, latest[q]>>))
                      /\ run[q] = attempt[<<q, latest[q]>>]
    BY DEF StatusAgrees, Losses
  <2>1. ~(report[q].pc # "idle" /\ report[q].att = <<q, latest[q]>>)
    OBVIOUS
  <2>2. cut \cap Losses = {}
    OBVIOUS
  <2> QED BY <1>2, <2>1, <2>2 DEF IInv, Statuses, StatusAgrees, Losses
<1>4. InSync'
  <2> SUFFICES ASSUME cut \cap Losses = {} PROVE InSync'
    BY DEF InSync
  <2>1. \A r \in Run : report'[r].pc \in {"store", "load"} \/ r \in freshReports' =>
          report'[r] = report[r]
    OBVIOUS
  <2> QED BY <1>2, <2>1 DEF IInv, Statuses, InSync
<1> QED BY <1>1, <1>3, <1>4 DEF Statuses

(* buildRerunPlan: only a run that is done is a template.                  *)
LEMMA PlanInv == ASSUME IInv, NEW r \in Run, NEW jobs \in SUBSET Name, BuildRerunPlan(r, jobs)
                 PROVE IInv'
<1> DEFINE p == [run |-> r, attempt |-> latest[r], jobs |-> jobs,
                 template |-> row[<<r, latest[r]>>]]
<1>1. /\ plans' = plans \cup {p} /\ freshPlans' = freshPlans \cup {p}
      /\ asked' \in 0..Requests /\ run[r] \in Done
      /\ latest[r] \in 1..(MaxAttempt - 1) /\ jobs # {}
      /\ UNCHANGED <<wf, need, latest, run, attempt, row, report, freshReports, queue, handling, cut>>
  BY AskType DEF BuildRerunPlan, CanRerun, IInv, TypeInv, TypeOK, rows
<1>2. p \in Plan
  <2>1. row[<<r, latest[r]>>] \in [Name -> Row]
    BY <1>1, ActionsRunAssumption DEF IInv, TypeInv, TypeOK, Attempt
  <2> QED BY <1>1, <2>1 DEF Plan
<1>3. TypeInv'
  BY <1>1, <1>2 DEF IInv, TypeInv, TypeOK, Inserted
<1>4. Fresh'
  <2>1. p.run = r /\ p.attempt = latest[r]
    OBVIOUS
  <2> HIDE DEF p
  <2> QED BY <1>1, <2>1 DEF IInv, Fresh
<1>5. Statuses'
  BY <1>1, SameRows
<1> QED BY <1>3, <1>4, <1>5 DEF IInv

(* A rerun that is refused keeps the invariant.                            *)
LEMMA RefusedInv == ASSUME IInv, NEW p \in plans, RerunRefused(p) PROVE IInv'
<1>1. /\ plans' = plans \ {p} /\ freshPlans' = freshPlans \ {p}
      /\ UNCHANGED <<wf, need, latest, run, attempt, row, report, freshReports, queue, handling, asked, cut>>
  BY DEF RerunRefused, rows
<1>2. TypeInv'
  BY <1>1 DEF IInv, TypeInv, TypeOK, Inserted
<1>3. Fresh'
  BY <1>1 DEF IInv, Fresh
<1>4. Statuses'
  BY <1>1, SameRows
<1> QED BY <1>2, <1>3, <1>4 DEF IInv

(* UpdateTaskByState: the job that is written belongs to the report.       *)
LEMMA ReportJobInv ==
  ASSUME IInv, NEW x \in Attempt, NEW j \in Name, ReportJob(x, j) PROVE IInv'
<1> DEFINE r == x[1]
           new == [pc |-> "aggregate", att |-> x, agg |-> "none"]
<1>1. /\ x = <<x[1], x[2]>> /\ r \in Run /\ x[2] \in Nat
      /\ \A q \in Run : latest[q] \in Nat
      /\ row \in Rows /\ row[x][j] \in Row /\ row[x][j].task = "live"
      /\ report \in [Run -> Report] /\ report[r].pc = "idle"
  BY ActionsRunAssumption DEF Attempt, ReportJob, IInv, TypeInv, TypeOK, Rows
<1>2. row[x][j].st \in Out /\ row[x][j].st \notin Done \cup {"none"}
  BY <1>1, RowFields DEF Out, Active, Done
<1>3. PICK verdict \in Done :
        row' = [row EXCEPT ![x][j].st = verdict, ![x][j].task = "done"]
  BY DEF ReportJob, Done
<1>4. /\ report' = [report EXCEPT ![r] = new]
      /\ UNCHANGED <<wf, need, latest, run, attempt, plans, freshReports, freshPlans, queue,
                     handling, asked, cut>>
  BY DEF ReportJob, versions
<1> DEFINE v == [row[x][j] EXCEPT !.st = verdict, !.task = "done"]
           f == [row[x] EXCEPT ![j] = v]
<1>5. v \in Row /\ v.st = verdict /\ verdict \in Done
  BY <1>1, WriteBoth DEF Status, Done
<1>6. row' = [row EXCEPT ![x] = f]
  BY <1>1, <1>3 DEF Rows
<1> HIDE DEF v
<1>7. f \in [Name -> Row] /\ \A k \in Name : Kept(row[x][k], f[k])
  BY <1>1, <1>2, <1>5 DEF Rows, Kept, Done
<1>8. Keeps(row, row') /\ \A y \in Attempt \ {x} : row'[y] = row[y]
  BY <1>1, <1>6, <1>7, KeepsSelf, WriteKeeps DEF Rows
<1> HIDE DEF f
<1>9. \A y \in Attempt : Ended(row, y) => Ended(row', y)
  BY <1>8, KeepsEnded
<1>10. new \in Report /\ new.pc = "aggregate" /\ new.att = x
  BY DEF Report
<1> HIDE DEF new
<1>11. /\ report' \in [Run -> Report] /\ report'[r] = new
       /\ \A q \in Run \ {r} : report'[q] = report[q]
  BY <1>1, <1>4, <1>10
<1>12. x[2] <= latest[r]
  <2> SUFFICES ASSUME x[2] > latest[r] PROVE FALSE
    BY <1>1
  <2> QED BY <1>2 DEF IInv, TypeInv, Inserted
<1>13. TypeInv'
  <2>1. TypeOK'
    BY <1>4, <1>8, <1>11 DEF IInv, TypeInv, TypeOK, Keeps, Rows
  <2>2. \A y \in Attempt : y[2] > latest[y[1]] =>
          attempt[y] = "none" /\ \A k \in Name : row'[y][k].st = "none"
    BY <1>8 DEF IInv, TypeInv, Inserted, Keeps, Kept
  <2>3. Inserted'
    BY <1>1, <1>4, <1>10, <1>11, <1>12, <2>2 DEF IInv, TypeInv, Inserted
  <2> QED BY <2>1, <2>3 DEF TypeInv
<1>14. r \notin freshReports /\ freshReports \subseteq Run
  BY <1>1 DEF IInv, Fresh, TypeInv, TypeOK
<1>15. Fresh'
  <2>1. \A q \in freshReports : report'[q] = report[q]
    BY <1>11, <1>14
  <2> QED BY <1>4, <2>1 DEF IInv, Fresh
<1>16. AttemptDone' /\ OneAttemptAlive'
  BY <1>4, <1>9 DEF IInv, Statuses, AttemptDone, OneAttemptAlive, Ended
<1>17. \A q \in Run : latest[q] # 0 => <<q, latest[q]>> \in Attempt
  BY ActionsRunAssumption DEF IInv, TypeInv, TypeOK, Attempt
<1>18. RunDone'
  BY <1>4, <1>9, <1>17 DEF IInv, Statuses, RunDone, Ended
<1>19. ReportDone'
  <2> SUFFICES ASSUME "revived" \notin cut, NEW q \in Run,
                      report'[q].pc \in {"store", "load", "run"}, report'[q].agg \in Done
               PROVE  Ended(row', report'[q].att)
    BY <1>4 DEF ReportDone, Ended
  <2>1. q # r /\ report'[q] = report[q]
    BY <1>10, <1>11
  <2>2. Ended(row, report[q].att) /\ report[q].att \in Attempt
    BY <2>1 DEF IInv, TypeInv, Inserted, Statuses, ReportDone
  <2> QED BY <1>9, <2>1, <2>2
<1>20. ASSUME NEW y \in Attempt, y # x
       PROVE  JobStatuses(row', y) = JobStatuses(row, y)
  BY <1>8, <1>20 DEF JobStatuses
<1>21. StatusAgrees'
  <2> SUFFICES ASSUME cut \cap Losses = {}, NEW q \in Run, latest[q] # 0,
                      ~(report'[q].pc # "idle" /\ report'[q].att = <<q, latest[q]>>)
               PROVE  /\ attempt[<<q, latest[q]>>] = AggregateJobStatus(JobStatuses(row', <<q, latest[q]>>))
                      /\ run[q] = attempt[<<q, latest[q]>>]
    BY <1>4 DEF StatusAgrees, Losses
  <2>1. <<q, latest[q]>> # x
    BY <1>10, <1>11
  <2>2. ~(report[q].pc # "idle" /\ report[q].att = <<q, latest[q]>>)
    BY <1>1, <1>11
  <2>3. JobStatuses(row', <<q, latest[q]>>) = JobStatuses(row, <<q, latest[q]>>)
    BY <1>17, <1>20, <2>1
  <2> QED BY <2>2, <2>3 DEF IInv, Statuses, StatusAgrees, Losses
<1>22. InSync'
  <2> SUFFICES ASSUME cut \cap Losses = {} PROVE InSync'
    BY <1>4 DEF InSync
  <2>1. ASSUME NEW q \in Run, report'[q].pc \in {"store", "load"} \/ q \in freshReports
        PROVE  /\ report'[q] = report[q] /\ report[q].att \in Attempt
               /\ JobStatuses(row', report[q].att) = JobStatuses(row, report[q].att)
    <3>1. q # r /\ report'[q] = report[q] /\ report[q].pc # "idle"
      BY <1>10, <1>11, <1>14, <2>1 DEF IInv, Fresh
    <3>2. report[q].att \in Attempt /\ report[q].att[1] = q
      BY <2>1, <3>1 DEF IInv, TypeInv, Inserted
    <3> QED BY <1>20, <3>1, <3>2
  <2> QED BY <1>4, <2>1 DEF IInv, Statuses, InSync
<1> QED BY <1>13, <1>15, <1>16, <1>18, <1>19, <1>21, <1>22 DEF IInv, Statuses

(* UpdateRunJob reads the jobs of the attempt.                             *)
LEMMA ReportAggregateInv == ASSUME IInv, NEW r \in Run, ReportAggregate(r) PROVE IInv'
<1> DEFINE x == report[r].att
           agg == AggregateJobStatus(JobStatuses(row, x))
           new == [report[r] EXCEPT !.pc = "store", !.agg = agg]
<1>1. /\ report[r].pc = "aggregate" /\ report \in [Run -> Report] /\ row \in Rows
      /\ UNCHANGED <<wf, need, latest, run, attempt, row, plans, freshReports, freshPlans, queue,
                     handling, asked, cut>>
  BY DEF ReportAggregate, rows, versions, IInv, TypeInv, TypeOK, Rows
<1>2. report' = [report EXCEPT ![r] = new]
  BY <1>1 DEF ReportAggregate
<1>3. agg \in Status \cup {"unknown"}
  BY AggregateType
<1>4. new \in Report /\ new.pc = "store" /\ new.att = x /\ new.agg = agg
  BY <1>1, <1>3 DEF Report
<1>5. x \in Attempt /\ x[1] = r /\ x[2] <= latest[r]
  BY <1>1 DEF IInv, TypeInv, Inserted
<1> HIDE DEF new, agg, x
<1>6. /\ report' \in [Run -> Report] /\ report'[r] = new
      /\ \A q \in Run \ {r} : report'[q] = report[q]
  BY <1>1, <1>2, <1>4
<1>7. TypeInv'
  <2>1. TypeOK'
    BY <1>1, <1>6 DEF IInv, TypeInv, TypeOK
  <2>2. Inserted'
    BY <1>1, <1>4, <1>5, <1>6 DEF IInv, TypeInv, Inserted
  <2> QED BY <2>1, <2>2 DEF TypeInv
<1>8. Fresh'
  <2>1. r \notin freshReports /\ freshReports \subseteq Run
    BY <1>1 DEF IInv, Fresh, TypeInv, TypeOK
  <2> QED BY <1>1, <1>6, <2>1 DEF IInv, Fresh
<1>9. AttemptDone' /\ OneAttemptAlive' /\ RunDone'
  BY <1>1 DEF IInv, Statuses, AttemptDone, OneAttemptAlive, RunDone, Ended
<1>10. ReportDone'
  <2> SUFFICES ASSUME "revived" \notin cut, NEW q \in Run,
                      report'[q].pc \in {"store", "load", "run"}, report'[q].agg \in Done
               PROVE  Ended(row, report'[q].att)
    BY <1>1 DEF ReportDone, Ended
  <2>1. CASE q = r
    BY <1>1, <1>4, <1>5, <1>6, <2>1, DoneEnds DEF agg
  <2>2. CASE q # r
    BY <1>6, <2>2 DEF IInv, Statuses, ReportDone
  <2> QED BY <2>1, <2>2
<1>11. \A y : JobStatuses(row', y) = JobStatuses(row, y)
  BY <1>1 DEF JobStatuses
<1>12. StatusAgrees'
  <2> SUFFICES ASSUME cut \cap Losses = {}, NEW q \in Run, latest[q] # 0,
                      ~(report'[q].pc # "idle" /\ report'[q].att = <<q, latest[q]>>)
               PROVE  /\ attempt[<<q, latest[q]>>] = AggregateJobStatus(JobStatuses(row', <<q, latest[q]>>))
                      /\ run[q] = attempt[<<q, latest[q]>>]
    BY <1>1 DEF StatusAgrees, Losses
  <2>1. ~(report[q].pc # "idle" /\ report[q].att = <<q, latest[q]>>)
    BY <1>4, <1>6 DEF x
  <2> QED BY <1>11, <2>1 DEF IInv, Statuses, StatusAgrees, Losses
<1>13. InSync'
  <2> SUFFICES ASSUME cut \cap Losses = {} PROVE InSync'
    BY <1>1 DEF InSync
  <2>1. \A q \in Run : report'[q].pc \in {"store", "load"} \/ q \in freshReports =>
          report'[q].agg = AggregateJobStatus(JobStatuses(row', report'[q].att))
    BY <1>4, <1>6, <1>8, <1>11 DEF IInv, Statuses, InSync, agg
  <2>2. \A q \in Run : report'[q].pc = "load" \/ q \in freshReports =>
          attempt[report'[q].att] = report'[q].agg
    BY <1>1, <1>4, <1>6, <1>8 DEF IInv, Statuses, InSync, Fresh
  <2> QED BY <1>1, <2>1, <2>2 DEF InSync
<1> QED BY <1>7, <1>8, <1>9, <1>10, <1>12, <1>13 DEF IInv, Statuses

(* It stores their status in the attempt: a final status only if no job    *)
(* was left, and jobs that are done stay so.                               *)
LEMMA ReportStoreInv == ASSUME IInv, NEW r \in Run, ReportStore(r) PROVE IInv'
<1> DEFINE x == report[r].att
           agg == report[r].agg
           new == [report[r] EXCEPT !.pc = "load"]
<1>1. /\ report[r].pc = "store" /\ report \in [Run -> Report] /\ row \in Rows
      /\ attempt \in [Attempt -> Stored] /\ latest[r] \in Nat
      /\ UNCHANGED <<wf, need, latest, run, row, plans, freshReports, freshPlans, queue, handling,
                     asked, cut>>
  BY ActionsRunAssumption DEF ReportStore, versions, IInv, TypeInv, TypeOK, Rows, Stored
<1>2. attempt' = [attempt EXCEPT ![x] = agg] /\ report' = [report EXCEPT ![r] = new]
  BY <1>1 DEF ReportStore
<1>3. x \in Attempt /\ x[1] = r /\ x[2] <= latest[r] /\ agg \in Stored /\ x[2] \in Nat
  <2>1. x \in Attempt /\ x[1] = r /\ x[2] <= latest[r] /\ agg \in Stored
    BY <1>1 DEF IInv, TypeInv, Inserted, Report, Stored
  <2> QED BY <2>1, ActionsRunAssumption DEF Attempt
<1>4. new \in Report /\ new.pc = "load" /\ new.att = x /\ new.agg = agg
  BY <1>1 DEF Report
<1> HIDE DEF new, agg, x
<1>5. /\ report' \in [Run -> Report] /\ report'[r] = new
      /\ \A q \in Run \ {r} : report'[q] = report[q]
      /\ attempt' \in [Attempt -> Stored] /\ attempt'[x] = agg
      /\ \A y \in Attempt \ {x} : attempt'[y] = attempt[y]
  BY <1>1, <1>2, <1>3, <1>4
<1>6. TypeInv'
  <2>1. TypeOK'
    BY <1>1, <1>5 DEF IInv, TypeInv, TypeOK, Stored
  <2>2. \A y \in Attempt : y[2] > latest[y[1]] =>
          attempt'[y] = "none" /\ \A j \in Name : row[y][j].st = "none"
    <3> SUFFICES ASSUME NEW y \in Attempt, y[2] > latest[y[1]] PROVE y # x
      BY <1>5 DEF IInv, TypeInv, Inserted
    <3> QED BY <1>1, <1>3
  <2>3. Inserted'
    BY <1>1, <1>3, <1>4, <1>5, <2>2 DEF IInv, TypeInv, Inserted
  <2> QED BY <2>1, <2>3 DEF TypeInv
<1>7. r \notin freshReports /\ freshReports \subseteq Run
  BY <1>1 DEF IInv, Fresh, TypeInv, TypeOK
<1>8. Fresh'
  BY <1>1, <1>5, <1>7 DEF IInv, Fresh
<1>9. ASSUME "revived" \notin cut, agg \in Done
      PROVE  Ended(row, x)
  BY <1>1, <1>9 DEF IInv, Statuses, ReportDone, agg, x
<1>10. AttemptDone'
  BY <1>1, <1>5, <1>9 DEF IInv, Statuses, AttemptDone, Ended
<1>11. ReportDone'
  <2> SUFFICES ASSUME "revived" \notin cut, NEW q \in Run,
                      report'[q].pc \in {"store", "load", "run"}, report'[q].agg \in Done
               PROVE  Ended(row, report'[q].att)
    BY <1>1 DEF ReportDone, Ended
  <2>1. CASE q = r
    BY <1>4, <1>5, <1>9, <2>1
  <2>2. CASE q # r
    BY <1>5, <2>2 DEF IInv, Statuses, ReportDone
  <2> QED BY <2>1, <2>2
<1>12. OneAttemptAlive' /\ RunDone'
  BY <1>1 DEF IInv, Statuses, OneAttemptAlive, RunDone, Ended
<1>13. \A y : JobStatuses(row', y) = JobStatuses(row, y)
  BY <1>1 DEF JobStatuses
<1>14. StatusAgrees'
  <2> SUFFICES ASSUME cut \cap Losses = {}, NEW q \in Run, latest[q] # 0,
                      ~(report'[q].pc # "idle" /\ report'[q].att = <<q, latest[q]>>)
               PROVE  /\ attempt'[<<q, latest[q]>>] = AggregateJobStatus(JobStatuses(row', <<q, latest[q]>>))
                      /\ run[q] = attempt'[<<q, latest[q]>>]
    BY <1>1 DEF StatusAgrees, Losses
  <2>1. ~(report[q].pc # "idle" /\ report[q].att = <<q, latest[q]>>)
    BY <1>4, <1>5 DEF x
  <2>2. <<q, latest[q]>> \in Attempt
    BY ActionsRunAssumption DEF IInv, TypeInv, TypeOK, Attempt
  <2>3. <<q, latest[q]>> # x
    BY <1>3, <1>4, <1>5
  <2> QED BY <1>5, <1>13, <2>1, <2>2, <2>3 DEF IInv, Statuses, StatusAgrees, Losses
<1>15. InSync'
  <2> SUFFICES ASSUME cut \cap Losses = {} PROVE InSync'
    BY <1>1 DEF InSync
  <2>1. \A q \in Run : report'[q].pc \in {"store", "load"} \/ q \in freshReports =>
          report'[q].agg = AggregateJobStatus(JobStatuses(row', report'[q].att))
    <3> TAKE q \in Run
    <3> HAVE report'[q].pc \in {"store", "load"} \/ q \in freshReports
    <3>1. CASE q = r
      BY <1>1, <1>4, <1>5, <1>13, <3>1 DEF IInv, Statuses, InSync, agg, x
    <3>2. CASE q # r
      BY <1>5, <1>13, <3>2 DEF IInv, Statuses, InSync
    <3> QED BY <3>1, <3>2
  <2>2. \A q \in Run : report'[q].pc = "load" \/ q \in freshReports =>
          attempt'[report'[q].att] = report'[q].agg
    <3> TAKE q \in Run
    <3> HAVE report'[q].pc = "load" \/ q \in freshReports
    <3>1. CASE q = r
      BY <1>4, <1>5, <3>1
    <3>2. CASE q # r
      <4>1. report'[q] = report[q] /\ report[q].pc # "idle"
        BY <1>5, <3>2 DEF IInv, Fresh
      <4>2. report[q].att \in Attempt \ {x}
        BY <1>3, <3>2, <4>1 DEF IInv, TypeInv, Inserted
      <4> QED BY <1>5, <4>1, <4>2 DEF IInv, Statuses, InSync
    <3> QED BY <3>1, <3>2
  <2> QED BY <1>1, <2>1, <2>2 DEF InSync
<1> QED BY <1>6, <1>8, <1>10, <1>11, <1>12, <1>14, <1>15 DEF IInv, Statuses

(* reads the run, and leaves it alone if it has a newer attempt,           *)
LEMMA ReportLoadInv == ASSUME IInv, NEW r \in Run, ReportLoad(r) PROVE IInv'
<1> DEFINE x == report[r].att
           new == IF latest[r] = x[2] THEN [report[r] EXCEPT !.pc = "run"] ELSE NoReport
<1>1. /\ report[r].pc = "load" /\ report \in [Run -> Report] /\ r \notin freshReports
      /\ UNCHANGED <<wf, need, latest, run, attempt, row, plans, freshPlans, handling, asked, cut>>
      /\ report' = [report EXCEPT ![r] = new]
      /\ queue' \subseteq queue \cup {r}
  BY DEF ReportLoad, rows, IInv, TypeInv, TypeOK, Fresh
<1>2. /\ latest[r] = x[2] => freshReports' = freshReports \cup {r}
      /\ latest[r] # x[2] => freshReports' = freshReports
  BY DEF ReportLoad
<1>3. x \in Attempt /\ x[1] = r /\ x = <<x[1], x[2]>> /\ latest[r] # 0
  <2>1. x \in Attempt /\ x[1] = r /\ x[2] <= latest[r]
    BY <1>1 DEF IInv, TypeInv, Inserted
  <2>2. latest[r] \in Nat
    BY ActionsRunAssumption DEF IInv, TypeInv, TypeOK
  <2> QED BY <2>1, <2>2, ActionsRunAssumption DEF Attempt
<1>4. new \in Report
      /\ \/ latest[r] = x[2] /\ new.pc = "run" /\ new.att = x /\ new.agg = report[r].agg
         \/ latest[r] # x[2] /\ new.pc = "idle"
  <2>1. CASE latest[r] = x[2]
    BY <1>1, <2>1 DEF Report
  <2>2. CASE latest[r] # x[2]
    BY <2>2 DEF NoReport, Report
  <2> QED BY <2>1, <2>2
<1> HIDE DEF new, x
<1>5. /\ report' \in [Run -> Report] /\ report'[r] = new
      /\ \A q \in Run \ {r} : report'[q] = report[q]
  BY <1>1, <1>4
<1>6. TypeInv'
  <2>1. TypeOK'
    BY <1>1, <1>2, <1>5 DEF IInv, TypeInv, TypeOK
  <2>2. Inserted'
    BY <1>1, <1>3, <1>4, <1>5 DEF IInv, TypeInv, Inserted, x
  <2> QED BY <2>1, <2>2 DEF TypeInv
<1>7. CASE latest[r] # x[2]
  <2>1. Fresh'
    BY <1>1, <1>2, <1>5, <1>7 DEF IInv, Fresh
  <2>2. x # <<r, latest[r]>>
    BY <1>7
  <2>3. Statuses'
    BY <1>1, <1>2, <1>4, <1>5, <1>7, <2>2, SameRows DEF x
  <2> QED BY <1>6, <2>1, <2>3 DEF IInv
<1>8. CASE latest[r] = x[2]
  <2>1. Fresh'
    BY <1>1, <1>2, <1>4, <1>5, <1>8 DEF IInv, Fresh
  <2>2. AttemptDone' /\ OneAttemptAlive' /\ RunDone'
    BY <1>1 DEF IInv, Statuses, AttemptDone, OneAttemptAlive, RunDone, Ended
  <2>3. ReportDone'
    BY <1>1, <1>4, <1>5, <1>8 DEF IInv, Statuses, ReportDone, Ended, x
  <2>4. \A y : JobStatuses(row', y) = JobStatuses(row, y)
    BY <1>1 DEF JobStatuses
  <2>5. StatusAgrees'
    <3> SUFFICES ASSUME cut \cap Losses = {}, NEW q \in Run, latest[q] # 0,
                        ~(report'[q].pc # "idle" /\ report'[q].att = <<q, latest[q]>>)
                 PROVE  /\ attempt[<<q, latest[q]>>] = AggregateJobStatus(JobStatuses(row', <<q, latest[q]>>))
                        /\ run[q] = attempt[<<q, latest[q]>>]
      BY <1>1 DEF StatusAgrees, Losses
    <3>1. ~(report[q].pc # "idle" /\ report[q].att = <<q, latest[q]>>)
      BY <1>4, <1>5, <1>8 DEF x
    <3> QED BY <2>4, <3>1 DEF IInv, Statuses, StatusAgrees, Losses
  <2>6. InSync'
    <3> SUFFICES ASSUME cut \cap Losses = {} PROVE InSync'
      BY <1>1 DEF InSync
    <3>1. /\ new.agg = AggregateJobStatus(JobStatuses(row, new.att))
          /\ attempt[new.att] = new.agg
      BY <1>1, <1>4, <1>8 DEF IInv, Statuses, InSync, x
    <3>2. \A q \in Run : report'[q].pc \in {"store", "load"} \/ q \in freshReports' =>
            report'[q].agg = AggregateJobStatus(JobStatuses(row', report'[q].att))
      BY <1>2, <1>5, <1>8, <2>4, <3>1 DEF IInv, Statuses, InSync
    <3>3. \A q \in Run : report'[q].pc = "load" \/ q \in freshReports' =>
            attempt[report'[q].att] = report'[q].agg
      BY <1>2, <1>5, <1>8, <3>1 DEF IInv, Statuses, InSync
    <3> QED BY <1>1, <3>2, <3>3 DEF InSync
  <2> QED BY <1>6, <2>1, <2>2, <2>3, <2>5, <2>6 DEF IInv, Statuses
<1> QED BY <1>7, <1>8

(* and stores the status in the run, if the run is as it was read.         *)
LEMMA ReportRunInv == ASSUME IInv, NEW r \in Run, ReportRun(r) PROVE IInv'
<1> DEFINE x == report[r].att
           agg == report[r].agg
<1>1. /\ report[r].pc = "run" /\ r \in freshReports /\ report \in [Run -> Report] /\ row \in Rows
      /\ run \in [Run -> Stored] /\ queue \subseteq Run
      /\ UNCHANGED <<wf, need, latest, attempt, row, plans, handling, asked, cut>>
      /\ run' = [run EXCEPT ![r] = agg] /\ report' = [report EXCEPT ![r] = NoReport]
      /\ queue' = queue \cup {r} /\ freshReports' = freshReports \ {r}
      /\ freshPlans' = {p \in freshPlans : p.run # r}
  BY DEF ReportRun, IInv, TypeInv, TypeOK, Rows, Stored
<1>2. x \in Attempt /\ agg \in Stored /\ x = <<r, latest[r]>> /\ latest[r] # 0
  <2>1. x \in Attempt /\ x[1] = r /\ x[2] = latest[r] /\ agg \in Stored
    BY <1>1 DEF IInv, Fresh, TypeInv, Inserted, Report, Stored
  <2> QED BY <2>1, ActionsRunAssumption DEF Attempt
<1>3. NoReport \in Report /\ NoReport.pc = "idle"
  BY DEF NoReport, Report
<1> HIDE DEF agg, x
<1>4. /\ report' \in [Run -> Report] /\ report'[r].pc = "idle"
      /\ \A q \in Run \ {r} : report'[q] = report[q]
      /\ run' \in [Run -> Stored] /\ run'[r] = agg
      /\ \A q \in Run \ {r} : run'[q] = run[q]
  BY <1>1, <1>2, <1>3
<1>5. TypeInv'
  <2>1. TypeOK'
    BY <1>1, <1>4 DEF IInv, TypeInv, TypeOK, Stored
  <2>2. Inserted'
    BY <1>1, <1>2, <1>4 DEF IInv, TypeInv, Inserted
  <2> QED BY <2>1, <2>2 DEF TypeInv
<1>6. Fresh'
  <2>1. \A p \in freshPlans : p.run \in Run
    BY DEF IInv, TypeInv, TypeOK, Plan
  <2>2. freshReports \subseteq Run
    BY DEF IInv, TypeInv, TypeOK
  <2> QED BY <1>1, <1>4, <2>1, <2>2 DEF IInv, Fresh
<1>7. AttemptDone' /\ OneAttemptAlive'
  BY <1>1 DEF IInv, Statuses, AttemptDone, OneAttemptAlive
<1>8. RunDone'
  <2>1. "revived" \notin cut /\ agg \in Done => Ended(row, x)
    BY <1>1 DEF IInv, Statuses, ReportDone, agg, x
  <2> QED BY <1>1, <1>2, <1>4, <2>1 DEF IInv, Statuses, RunDone, Ended
<1>9. ReportDone'
  BY <1>1, <1>4 DEF IInv, Statuses, ReportDone, Ended
<1>10. \A y : JobStatuses(row', y) = JobStatuses(row, y)
  BY <1>1 DEF JobStatuses
<1>11. StatusAgrees'
  <2> SUFFICES ASSUME cut \cap Losses = {}, NEW q \in Run, latest[q] # 0,
                      ~(report'[q].pc # "idle" /\ report'[q].att = <<q, latest[q]>>)
               PROVE  /\ attempt[<<q, latest[q]>>] = AggregateJobStatus(JobStatuses(row', <<q, latest[q]>>))
                      /\ run'[q] = attempt[<<q, latest[q]>>]
    BY <1>1 DEF StatusAgrees, Losses
  <2>1. CASE q = r
    <3>1. agg = AggregateJobStatus(JobStatuses(row, x)) /\ attempt[x] = agg
      BY <1>1 DEF IInv, Statuses, InSync, agg, x
    <3> QED BY <1>2, <1>4, <1>10, <2>1, <3>1
  <2>2. CASE q # r
    <3>1. ~(report[q].pc # "idle" /\ report[q].att = <<q, latest[q]>>) /\ run'[q] = run[q]
      BY <1>4, <2>2
    <3> QED BY <1>10, <3>1 DEF IInv, Statuses, StatusAgrees, Losses
  <2> QED BY <2>1, <2>2
<1>12. InSync'
  <2> SUFFICES ASSUME cut \cap Losses = {} PROVE InSync'
    BY <1>1 DEF InSync
  <2>1. \A q \in Run : report'[q].pc \in {"store", "load"} \/ q \in freshReports' =>
          report'[q] = report[q] /\ (q \in freshReports' => q \in freshReports)
    BY <1>1, <1>4
  <2> QED BY <1>1, <1>10, <2>1 DEF IInv, Statuses, InSync
<1> QED BY <1>5, <1>6, <1>7, <1>8, <1>9, <1>11, <1>12 DEF IInv, Statuses

(* A report that finds the run changed is forgotten, and so are its checks. *)
LEMMA ReportRefusedInv == ASSUME IInv, NEW r \in Run, ReportRefused(r) PROVE IInv'
<1>1. /\ report' = [report EXCEPT ![r] = NoReport] /\ cut' = cut \cup {"refused"}
      /\ r \notin freshReports /\ report \in [Run -> Report]
      /\ UNCHANGED <<wf, need, latest, run, attempt, row, plans, freshReports, freshPlans, queue,
                     handling, asked>>
  BY DEF ReportRefused, rows, versions, IInv, TypeInv, TypeOK
<1>2. NoReport \in Report /\ NoReport.pc = "idle"
  BY DEF NoReport, Report
<1>3. /\ report' \in [Run -> Report] /\ report'[r].pc = "idle"
      /\ \A q \in Run \ {r} : report'[q] = report[q]
  BY <1>1, <1>2
<1>4. TypeInv'
  <2>1. TypeOK'
    BY <1>1, <1>3 DEF IInv, TypeInv, TypeOK
  <2>2. Inserted'
    BY <1>1, <1>3 DEF IInv, TypeInv, Inserted
  <2> QED BY <2>1, <2>2 DEF TypeInv
<1>5. Fresh'
  <2>1. freshReports \subseteq Run \ {r}
    BY <1>1 DEF IInv, TypeInv, TypeOK
  <2> QED BY <1>1, <1>3, <2>1 DEF IInv, Fresh
<1>6. Statuses'
  <2>1. cut' \cap Losses # {} /\ cut \subseteq cut'
    BY <1>1 DEF Losses
  <2> QED BY <1>1, <1>3, <2>1, SameRows
<1> QED BY <1>4, <1>5, <1>6 DEF IInv

(* A task that is reported again is one of an attempt that exists.         *)
LEMMA ReportAgainInv == ASSUME IInv, NEW r \in Run, ReportAgain(r) PROVE IInv'
<1>1. /\ queue' = queue \cup {r} /\ asked' \in 0..Requests
      /\ UNCHANGED <<wf, need, latest, run, attempt, row, report, plans, freshReports, freshPlans,
                     handling, cut>>
  BY AskType DEF ReportAgain, rows, versions, IInv, TypeInv
<1>2. latest[r] # 0
  <2>1. PICK n \in 1..MaxAttempt, j \in Name : row[<<r, n>>][j].task = "done"
    BY DEF ReportAgain
  <2>2. <<r, n>> \in Attempt /\ row[<<r, n>>][j] \in Row
    BY DEF Attempt, IInv, TypeInv, TypeOK
  <2>3. row[<<r, n>>][j].st # "none"
    BY <2>1, <2>2, RowFields DEF NoRow
  <2>4. ~(n > latest[r])
    BY <2>2, <2>3 DEF IInv, TypeInv, Inserted
  <2> QED BY <2>4, ActionsRunAssumption
<1>3. TypeInv'
  <2>1. TypeOK'
    BY <1>1 DEF IInv, TypeInv, TypeOK
  <2>2. Inserted'
    BY <1>1, <1>2 DEF IInv, TypeInv, Inserted
  <2> QED BY <2>1, <2>2 DEF TypeInv
<1>4. Fresh'
  BY <1>1 DEF IInv, Fresh
<1>5. Statuses'
  BY <1>1, SameRows
<1> QED BY <1>3, <1>4, <1>5 DEF IInv

(* checkJobsByRunID: it reads the run,                                     *)
LEMMA HandlerReadInv == ASSUME IInv, NEW r \in Run, HandlerRead(r) PROVE IInv'
<1> DEFINE h == [run |-> r, blocked |-> run[r] = "blocked", latest |-> latest[r]]
<1>1. /\ queue' = queue \ {r} /\ handling' = handling \cup {h} /\ r \in queue
      /\ UNCHANGED <<wf, need, latest, run, attempt, row, report, plans, freshReports, freshPlans,
                     asked, cut>>
  BY DEF HandlerRead, rows, versions
<1>2. latest[r] # 0 /\ latest[r] \in 0..MaxAttempt
  BY <1>1 DEF IInv, TypeInv, TypeOK, Inserted
<1>3. h \in Call
  BY <1>2, ActionsRunAssumption DEF Call
<1>4. TypeInv'
  <2>1. TypeOK'
    BY <1>1, <1>3 DEF IInv, TypeInv, TypeOK
  <2>2. Inserted'
    BY <1>1, <1>2 DEF IInv, TypeInv, Inserted
  <2> QED BY <2>1, <2>2 DEF TypeInv
<1>5. Fresh'
  BY <1>1 DEF IInv, Fresh
<1>6. Statuses'
  BY <1>1, SameRows
<1> QED BY <1>4, <1>5, <1>6 DEF IInv

(* and then its transaction writes rows, or fails.                         *)
LEMMA HandlerCheckInv == ASSUME IInv, NEW h \in handling, HandlerCheck(h) PROVE IInv'
<1> DEFINE more(o1) == IF PassesOver(h.run, o1.rs) THEN {"passed"} ELSE {}
           others(o) == IF StartedInGroup(o.rs) THEN GroupStoppedAgain(wf[h.run].group) ELSE {}
           Result(o1, o) ==
             IF o.ok
             THEN /\ Commit(o.rs, latest, more(o1)) /\ Outdates(o.rs, latest, others(o))
                  /\ queue' = queue \cup RunsCancelledBy(o.rs)
             ELSE queue' = queue \cup {h.run} /\ UNCHANGED <<latest, rows, versions, cut>>
<1>1. /\ TypeInv /\ handling' \subseteq handling /\ h \in Call
      /\ UNCHANGED <<wf, need, report, plans, asked>>
  BY DEF HandlerCheck, IInv, TypeInv, TypeOK
<1>2. PICK o1 \in CheckJobs(row, attempt, <<h.run, h.latest>>, h.blocked) :
      \E o \in CheckRunConcurrency(h.run, o1) : Result(o1, o)
  BY DEF HandlerCheck
<1>3. PICK o \in CheckRunConcurrency(h.run, o1) : Result(o1, o)
  BY <1>2
<1>4. o.ok \in BOOLEAN /\ (o.ok => Keeps(row, o.rs))
  BY <1>1, CheckRunConcurrencyKeeps
<1>5. CASE o.ok
  <2>1. /\ Keeps(row, o.rs) /\ Commit(o.rs, latest, more(o1)) /\ Outdates(o.rs, latest, others(o))
        /\ queue' = queue \cup RunsCancelledBy(o.rs)
    BY <1>3, <1>4, <1>5
  <2>2. asked' \in 0..Requests
    BY <1>1 DEF TypeInv, TypeOK
  <2>3. more(o1) \in SUBSET Marks
    BY DEF Marks
  <2> HIDE DEF more, others
  <2> QED BY <1>1, <2>1, <2>2, <2>3, KeepsCommit
<1>6. CASE ~o.ok
  <2>1. /\ queue' = queue \cup {h.run}
        /\ UNCHANGED <<latest, run, attempt, row, freshReports, freshPlans, cut, wf, need, report,
                       plans, asked>>
    BY <1>1, <1>3, <1>6 DEF rows, versions
  <2>2. h.run \in Run /\ latest[h.run] # 0
    BY <1>1 DEF Call, TypeInv, Inserted
  <2>3. TypeInv'
    <3>1. TypeOK'
      BY <1>1, <2>1, <2>2 DEF TypeInv, TypeOK
    <3>2. Inserted'
      BY <1>1, <2>1, <2>2 DEF TypeInv, Inserted
    <3> QED BY <3>1, <3>2 DEF TypeInv
  <2>4. Fresh'
    BY <2>1 DEF IInv, Fresh
  <2>5. Statuses'
    BY <2>1, SameRows
  <2> QED BY <2>3, <2>4, <2>5 DEF IInv
<1> QED BY <1>4, <1>5, <1>6

(* After a crash the statuses are not compared any more.                   *)
LEMMA CrashInv == ASSUME IInv, Crash PROVE IInv'
<1>1. /\ asked' \in 0..Requests /\ report' = [r \in Run |-> NoReport] /\ plans' = {}
      /\ freshReports' = {} /\ freshPlans' = {}
      /\ handling' = {} /\ queue' \subseteq queue /\ cut' = cut \cup {"crash"}
      /\ UNCHANGED <<wf, need, latest, run, attempt, row>>
  BY AskType DEF Crash, rows, IInv, TypeInv
<1>2. NoReport \in Report /\ NoReport.pc = "idle"
  BY DEF NoReport, Report
<1>3. TypeInv'
  <2>1. TypeOK'
    BY <1>1, <1>2 DEF IInv, TypeInv, TypeOK
  <2>2. Inserted'
    BY <1>1, <1>2 DEF IInv, TypeInv, Inserted
  <2> QED BY <2>1, <2>2 DEF TypeInv
<1>4. Fresh'
  BY <1>1 DEF Fresh
<1>5. Statuses'
  <2>1. cut' \cap Losses # {} /\ cut \subseteq cut' /\ \A r \in Run : report'[r].pc = "idle"
    BY <1>1, <1>2 DEF Losses
  <2> QED BY <1>1, <2>1, SameRows
<1> QED BY <1>3, <1>4, <1>5 DEF IInv

(* Every step keeps the invariant.                                         *)
LEMMA StepInv == IInv /\ [Next]_vars => IInv'
<1> SUFFICES ASSUME IInv, [Next]_vars PROVE IInv'
  OBVIOUS
<1>1. ASSUME NEW r \in Run, Users(r) \/ Reports(r) \/ HandlerRead(r) PROVE IInv'
  BY <1>1, InsertInv, PlanInv, ApproveInv, CancelInv, ReportAggregateInv, ReportStoreInv,
     ReportLoadInv, ReportRunInv, ReportRefusedInv, ReportAgainInv, HandlerReadInv
     DEF Users, Reports
<1>2. ASSUME NEW x \in Attempt, NEW j \in Name, ClaimJob(x, j) \/ ReportJob(x, j) PROVE IInv'
  BY <1>2, ClaimInv, ReportJobInv
<1>3. ASSUME NEW p \in plans, ExecRerunPlan(p) \/ RerunRefused(p) PROVE IInv'
  BY <1>3, RerunInv, RefusedInv
<1>4. ASSUME NEW h \in handling, HandlerCheck(h) PROVE IInv'
  BY <1>4, HandlerCheckInv
<1>5. CASE Crash
  BY <1>5, CrashInv
<1>6. CASE UNCHANGED vars
  <2>1. UNCHANGED <<wf, need, latest, run, attempt, row, report, plans, freshReports, freshPlans,
                    queue, handling, asked, cut>>
    BY <1>6 DEF vars, rows, versions
  <2>2. TypeInv'
    BY <2>1 DEF IInv, TypeInv, TypeOK, Inserted
  <2>3. Fresh'
    BY <2>1 DEF IInv, Fresh
  <2>4. Statuses'
    BY <2>1, SameRows
  <2> QED BY <2>2, <2>3, <2>4 DEF IInv
<1> QED BY <1>1, <1>2, <1>3, <1>4, <1>5, <1>6 DEF Next
-----------------------------------------------------------------------------
(***************************************************************************)
(* What holds in every reachable state.                                    *)
(***************************************************************************)

(* The inductive invariant holds in every reachable state, for any number  *)
(* of runs, attempts, jobs, handlers and requests.                         *)
THEOREM RunInvariant == Spec => []IInv
BY InitInv, StepInv, PTL DEF Spec

(* Whatever users, runners and handlers do, with or without a crash, the   *)
(* tables keep their types: a task that is not done has a job that is out, *)
(* a report is about an attempt (run_job.go, task.go).                     *)
THEOREM RunTypeCorrect == Spec => []TypeOK
BY RunInvariant, PTL DEF IInv, TypeInv

(* An attempt recorded as finished has no job left to run, although        *)
(* UpdateRunJob stores late what it read before.                           *)
THEOREM FinishedAttempts == Spec => []AttemptDone
BY RunInvariant, PTL DEF IInv, Statuses

(* UpdateRunJob and UpdateRunAttempt keep attempt and run equal to the     *)
(* aggregate of the jobs of the latest attempt between reports about it,   *)
(* as long as no report is overtaken or refused and no crash cuts one.     *)
THEOREM StatusesAgree == Spec => []StatusAgrees
BY RunInvariant, PTL DEF IInv, Statuses

(* Reruns of a run never execute beside each other (validateRerun,         *)
(* execRerunPlan): all jobs of the attempts before the latest have ended,  *)
(* however late the reports come.                                          *)
THEOREM OneAttemptAtATime == Spec => []OneAttemptAlive
BY RunInvariant, PTL DEF IInv, Statuses
=============================================================================

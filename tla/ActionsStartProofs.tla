--------------------------- MODULE ActionsStartProofs ---------------------------
(***************************************************************************)
(* When a job of ActionsRun starts: proofs of NeedsFirst, not before its   *)
(* needs, and of GroupExclusive, alone in its concurrency group, for any   *)
(* runs, workflows and groups, with reruns and the emitter.                *)
(***************************************************************************)
EXTENDS ActionsRunProofs, FiniteSetTheorems

InOrder == "revived" \notin cut

(* Jobs that have started, or are about to.                                *)
Started == Out \cup {"success", "failure"}

(* An inserted attempt has rows for the jobs of its workflow.              *)
Placed ==
  \A x \in Attempt : x[2] <= latest[x[1]] =>
    wf[x[1]] # None /\ \A j \in Name : row[x][j].st # "none" <=> j \in wf[x[1]].jobs

(* A plan has an ended template, and runs again all that needs what it     *)
(* runs again.                                                             *)
Template(p) ==
  /\ p.attempt <= latest[p.run]
  /\ p.jobs \subseteq wf[p.run].jobs
  /\ \A j \in wf[p.run].jobs : wf[p.run].needs[j] \cap p.jobs # {} => j \in p.jobs
  /\ \A k \in Name : /\ p.template[k].st \in Done \cup {"none"}
                     /\ p.template[k].st = row[<<p.run, p.attempt>>][k].st
Templates == \A p \in plans : Template(p)

(* A need of a job that has started (see NeedsFirst).                      *)
Met(rs, x, k) ==
  \/ rs[x][k].st = "success"
  \/ /\ x[2] > 1 /\ rs[x][k].task = "none" /\ rs[x][k].st \in Done
     /\ rs[x][k].st = rs[<<x[1], x[2] - 1>>][k].st
AllMet ==
  \A x \in Attempt, j \in Name : row[x][j].st \in Started =>
    \A k \in wf[x[1]].needs[j] : Met(row, x, k)

NeedsInv == InOrder => Placed /\ Templates /\ AllMet
-----------------------------------------------------------------------------
(***************************************************************************)
(* What a transaction may start.                                           *)
(***************************************************************************)

(* A job that is done is left alone, and no job starts.                    *)
Frozen(u, v) == u.st \in Done => v.st = u.st /\ v.task = u.task
Calm(u, v) == Frozen(u, v) /\ (v.st \in Started => u.st \in Started)
AllCalm(old, rs) == \A y \in Attempt, j \in Name : Calm(old[y][j], rs[y][j])

(* Jobs that are done are left alone, and a job starts only when all its   *)
(* needs have succeeded.                                                   *)
NeedsSucceeded(rs, y, j) == \A k \in Name : k \in wf[y[1]].needs[j] => rs[y][k].st = "success"
Advances(old, rs) ==
  \A y \in Attempt, j \in Name :
    /\ Frozen(old[y][j], rs[y][j])
    /\ rs[y][j].st \in Started => old[y][j].st \in Started \/ NeedsSucceeded(rs, y, j)

(* A transaction that starts nothing advances.                             *)
LEMMA CalmAdvances == ASSUME NEW old, NEW rs, AllCalm(old, rs) PROVE Advances(old, rs)
BY DEF AllCalm, Calm, Advances

(* Two steps that advance do so together.                                  *)
LEMMA AdvancesTrans ==
  ASSUME NEW r1, NEW r2, NEW r3, Advances(r1, r2), Advances(r2, r3)
  PROVE  Advances(r1, r3)
<1> SUFFICES ASSUME NEW y \in Attempt, NEW j \in Name
             PROVE  /\ Frozen(r1[y][j], r3[y][j])
                    /\ r3[y][j].st \in Started => r1[y][j].st \in Started \/ NeedsSucceeded(r3, y, j)
  BY DEF Advances
<1>1. \A k \in Name : Frozen(r1[y][k], r2[y][k]) /\ Frozen(r2[y][k], r3[y][k])
  BY DEF Advances
<1>2. Frozen(r1[y][j], r3[y][j])
  BY <1>1 DEF Frozen
<1>3. NeedsSucceeded(r2, y, j) => NeedsSucceeded(r3, y, j)
  BY <1>1 DEF NeedsSucceeded, Frozen, Done
<1> QED BY <1>2, <1>3 DEF Advances

(* Cancelling a job does not start it.                                     *)
LEMMA CancelledCalm == ASSUME NEW x, NEW u \in Row PROVE Calm(u, Cancelled(x, u))
<1>1. CASE u.st \notin Pending \cup Active \/ u.task = "done"
  BY <1>1 DEF Cancelled, Calm, Frozen
<1>2. CASE u.st \in Pending \cup Active /\ u.task # "done"
  <2>1. u.st \notin Done
    BY <1>2 DEF Pending, Active, Done
  <2>2. u.task \in {"none", "live"} /\ u \in Wide /\ (u.task = "live" => u.st \in Out)
    BY <1>2, RowFields DEF Wide
  <2>3. u.task = "none" => Cancelled(x, u).st = "cancelled"
    BY <1>2, <2>2 DEF Cancelled, Wide
  <2>4. "cancelled" \notin Started
    BY DEF Started, Out, Active
  <2> QED BY <2>1, <2>2, <2>3, <2>4 DEF Calm, Frozen, Started
<1> QED BY <1>1, <1>2

(* Nor does cancelling jobs of other attempts.                             *)
LEMMA CancelJobsCalm == ASSUME NEW rs \in Rows, NEW V PROVE AllCalm(rs, CancelJobs(rs, V))
<1> SUFFICES ASSUME NEW y \in Attempt, NEW j \in Name
             PROVE  Calm(rs[y][j], IF <<y, j>> \in V THEN Cancelled(y, rs[y][j]) ELSE rs[y][j])
  BY DEF AllCalm, CancelJobs
<1>1. rs[y][j] \in Row /\ Calm(rs[y][j], rs[y][j])
  BY DEF Rows, Calm, Frozen
<1> QED BY <1>1, CancelledCalm
-----------------------------------------------------------------------------
(***************************************************************************)
(* The transactions.                                                       *)
(***************************************************************************)

(* The resolver starts jobs all of whose needs have succeeded.             *)
LEMMA ResolveAdvances ==
  ASSUME NEW rs \in Rows, NEW atts, NEW x \in Attempt, NEW o \in Resolve(rs, atts, x), o.ok
  PROVE  Advances(rs, o.rs)
<1> DEFINE w == wf[x[1]]
           starts == Starts(rs, x)
           skips == Skips(rs, x)
           mine == starts \cap w.grouped
           skipped == skips \cap w.grouped
           blocked == ShouldBlock(w.group, rs, atts)
           others == IF mine = {} THEN {}
                     ELSE Previous(w.group, rs, atts, {x}) \ ({x} \X (starts \cup skips))
           c == CancelJobs(rs, others)
           st(kept, j) == IF j \in skips THEN "skipped"
                          ELSE IF j \in mine /\ blocked
                          THEN IF j \in kept THEN c[x][j].st ELSE "cancelled"
                          ELSE IF j \in starts THEN "waiting" ELSE c[x][j].st
           f(kept) == [j \in Name |->
              [c[x][j] EXCEPT !.st = st(kept, j), !.grp = @ \/ j \in mine \cup skipped]]
           result(kept) == [ok |-> TRUE, rs |-> [c EXCEPT ![x] = f(kept)]]
<1>1. o = Failed \/ \E kept : o = result(kept)
  <2> SUFFICES o \in {Failed, result(mine), result({})}
                    \cup {result({j \in {last} : ~rs[x][j].grp}) : last \in mine}
    OBVIOUS
  <2> HIDE DEF f
  <2> QED BY DEF Resolve, f
<1>0. Failed.ok = FALSE
  BY DEF Failed
<1> HIDE DEF result
<1>2. PICK kept : o = result(kept)
  BY <1>0, <1>1
<1>3. AllCalm(rs, c) /\ Keeps(rs, c)
  BY CancelJobsCalm, CancelJobsKeeps
<1>4. \A j \in starts \cup skips : j \in Name /\ rs[x][j].st = "blocked"
  BY DEF Starts, Skips, WithStatus
<1>5. \A j \in starts : \A k \in w.needs[j] : k \in Name /\ rs[x][k].st = "success"
  BY DEF Starts, WithStatus
<1>6. mine \subseteq starts
  OBVIOUS
<1> HIDE DEF starts, skips, mine, skipped, blocked, c
<1>7. o.rs = [c EXCEPT ![x] = f(kept)] /\ c \in Rows
  <2> HIDE DEF f
  <2> QED BY <1>2, <1>3 DEF Keeps, result
<1>8. ASSUME NEW j \in Name
      PROVE  /\ o.rs[x][j].st = st(kept, j) /\ o.rs[x][j].task = c[x][j].task
             /\ Frozen(rs[x][j], o.rs[x][j])
             /\ st(kept, j) \in Started => rs[x][j].st \in Started \/ j \in starts
  <2>0. c[x][j] \in Row
    BY <1>7 DEF Rows
  <2>1. c[x][j] \in Wide /\ Calm(rs[x][j], c[x][j])
    BY <1>3, <2>0, RowFields DEF AllCalm
  <2>3. \/ j \in starts \cup skips /\ st(kept, j) \in {"skipped", "cancelled"}
        \/ j \in starts
        \/ st(kept, j) = c[x][j].st
    BY <1>6
  <2> HIDE DEF st
  <2>4. o.rs[x][j].st = st(kept, j) /\ o.rs[x][j].task = c[x][j].task
    <3> DEFINE g == j \in mine \cup skipped
    <3>1. f(kept)[j] = [c[x][j] EXCEPT !.st = st(kept, j), !.grp = c[x][j].grp \/ g]
      OBVIOUS
    <3> HIDE DEF f, g
    <3>2. o.rs[x] = f(kept)
      BY <1>7 DEF Rows
    <3>3. f(kept)[j].st = st(kept, j) /\ f(kept)[j].task = c[x][j].task
      BY <2>1, <3>1 DEF Wide
    <3> QED BY <3>2, <3>3
  <2>5. j \in starts \cup skips => rs[x][j].st \notin Done
    BY <1>4 DEF Done
  <2>6. "skipped" \notin Started /\ "cancelled" \notin Started
    BY DEF Started, Out, Active
  <2> QED BY <2>1, <2>3, <2>4, <2>5, <2>6 DEF Calm, Frozen
<1>9. \A j \in starts : NeedsSucceeded(o.rs, x, j)
  BY <1>5, <1>8 DEF NeedsSucceeded, Frozen, Done
<1>10. \A y \in Attempt \ {x} : o.rs[y] = c[y]
  BY <1>7 DEF Rows
<1> HIDE DEF st, f
<1>11. \A j \in Name : /\ Frozen(rs[x][j], o.rs[x][j])
                       /\ o.rs[x][j].st \in Started => rs[x][j].st \in Started \/ NeedsSucceeded(o.rs, x, j)
  BY <1>8, <1>9
<1>12. \A y \in Attempt \ {x}, j \in Name : Calm(rs[y][j], o.rs[y][j])
  BY <1>3, <1>10 DEF AllCalm
<1> QED BY <1>11, <1>12 DEF Advances, Calm

(* So does the check of one attempt (checkJobsOfCurrentRunAttempt).        *)
LEMMA CheckJobsAdvances ==
  ASSUME NEW rs \in Rows, NEW atts, NEW x \in Attempt, NEW blocked,
         NEW o \in CheckJobs(rs, atts, x, blocked), o.ok
  PROVE  Advances(rs, o.rs)
<1>1. o \in Resolve(rs, atts, x) \/ o = [ok |-> TRUE, rs |-> rs]
  BY DEF CheckJobs
<1>2. CASE o = [ok |-> TRUE, rs |-> rs]
  <2>1. o.rs = rs
    BY <1>2
  <2> QED BY <2>1 DEF Advances, Frozen
<1> QED BY <1>1, <1>2, ResolveAdvances

(* So does the transaction that wakes another run of the group after it    *)
(* (checkRunConcurrency).                                                  *)
LEMMA CheckRunConcurrencyAdvances ==
  ASSUME TypeInv, NEW h \in handling,
         NEW o1 \in CheckJobs(row, attempt, <<h.run, h.latest>>, h.blocked),
         NEW o \in CheckRunConcurrency(h.run, o1), o.ok
  PROVE  Advances(row, o.rs)
<1>1. row \in Rows /\ <<h.run, h.latest>> \in Attempt
  BY DEF TypeInv, TypeOK, Rows, Call, Attempt
<1>2. o1.ok \in BOOLEAN /\ (o1.ok => Keeps(row, o1.rs) /\ Advances(row, o1.rs))
  BY <1>1, CheckJobsKeeps, CheckJobsAdvances
<1>3. o = o1 \/ (o1.ok /\ \E q \in FindBlocked(wf[h.run].group, o1.rs) :
        o \in CheckJobs(o1.rs, AttemptsWith(o1.rs), <<q, latest[q]>>,
                        RunsWith(o1.rs, latest)[q] = "blocked"))
  BY <1>2 DEF CheckRunConcurrency
<1>4. CASE o = o1
  BY <1>2, <1>4
<1>5. ASSUME o1.ok, NEW q \in FindBlocked(wf[h.run].group, o1.rs),
             o \in CheckJobs(o1.rs, AttemptsWith(o1.rs), <<q, latest[q]>>,
                             RunsWith(o1.rs, latest)[q] = "blocked")
      PROVE  Advances(row, o.rs)
  <2>1. o1.rs \in Rows /\ <<q, latest[q]>> \in Attempt
    BY <1>2, <1>5, BlockedInserted DEF Keeps
  <2>2. Advances(o1.rs, o.rs)
    BY <1>5, <2>1, CheckJobsAdvances
  <2> QED BY <1>2, <1>5, <2>2, AdvancesTrans
<1> QED BY <1>3, <1>4, <1>5

(* The jobs of a new attempt that wait in their group start as they were   *)
(* inserted, or not at all (StartInGroup).                                 *)
LEMMA StartInGroupCalm ==
  ASSUME NEW rs \in Rows, NEW g, NEW x \in Attempt, NEW SG \in SUBSET Name,
         \A j \in SG : rs[x][j].st = "waiting", NEW new \in StartInGroup(rs, g, x, SG)
  PROVE  AllCalm(rs, new)
<1> DEFINE others == Previous(g, rs, AttemptsWith(rs), {x}) \ ({x} \X SG)
           st == IF ShouldBlock(g, rs, AttemptsWith(rs)) THEN "blocked" ELSE "waiting"
           c == CancelJobs(rs, others)
           f(last) == [j \in Name |->
              IF j \notin SG THEN c[x][j]
              ELSE [c[x][j] EXCEPT !.st = IF j = last THEN st ELSE "cancelled"]]
<1>1. CASE SG = {}
  BY <1>1 DEF StartInGroup, AllCalm, Calm, Frozen
<1>2. CASE SG # {}
  <2>1. PICK last \in SG : new = [c EXCEPT ![x] = f(last)]
    BY <1>2 DEF StartInGroup
  <2>2. c \in Rows /\ AllCalm(rs, c)
    BY CancelJobsKeeps, CancelJobsCalm DEF Keeps
  <2> HIDE DEF c
  <2>3. new[x] = f(last) /\ \A y \in Attempt \ {x} : new[y] = c[y]
    BY <2>1, <2>2 DEF Rows
  <2>4. ASSUME NEW j \in Name PROVE Calm(rs[x][j], new[x][j])
    <3>1. CASE j \notin SG
      BY <2>2, <2>3, <3>1 DEF AllCalm
    <3>2. CASE j \in SG
      BY <3>2 DEF Calm, Frozen, Done, Started, Out
    <3> QED BY <3>1, <3>2
  <2> HIDE DEF f
  <2> QED BY <2>2, <2>3, <2>4 DEF AllCalm
<1> QED BY <1>1, <1>2

(* A new attempt x is calm: so are the others, and its own rows are those  *)
(* inserted, as the group leaves them.                                     *)
Begins(x, new, rs) ==
  /\ \A y \in Attempt \ {x} : \A j \in Name : Calm(row[y][j], rs[y][j])
  /\ \A j \in Name : Calm(new[j], rs[x][j]) /\ Kept(new[j], rs[x][j])

(* What StartInGroup makes of the rows that are inserted.                  *)
LEMMA NewAttemptCalm ==
  ASSUME row \in Rows, NEW r, NEW w, NEW g, NEW x \in Attempt, NEW new \in [Name -> Row],
         NEW SG \in SUBSET Name,
         \A j \in SG : new[j].st = "waiting" /\ new[j].task # "live",
         NEW rs \in StartInGroup([AfterRunConcurrency(r, w) EXCEPT ![x] = new], g, x, SG)
  PROVE  Begins(x, new, rs)
<1> DEFINE c == AfterRunConcurrency(r, w)
           base == [c EXCEPT ![x] = new]
<1>1. c \in Rows /\ AllCalm(row, c)
  <2>1. AllCalm(row, row)
    BY DEF AllCalm, Calm, Frozen
  <2> QED BY <2>1, RunConcurrencyKeeps, CancelJobsCalm DEF AfterRunConcurrency, Keeps
<1> HIDE DEF c
<1>2. base \in Rows /\ base[x] = new /\ \A y \in Attempt \ {x} : base[y] = c[y]
  BY <1>1 DEF Rows
<1>3. rs \in StartInGroup(base, g, x, SG)
  BY DEF c
<1> HIDE DEF base
<1>4. AllCalm(base, rs) /\ Keeps(base, rs)
  <2>1. \A j \in SG : base[x][j].st = "waiting" /\ base[x][j].st \in Pending
                      /\ base[x][j].task # "live"
    BY <1>2 DEF Pending
  <2> QED BY <1>2, <1>3, <2>1, StartInGroupCalm, StartInGroupKeeps
<1>5. \A y \in Attempt \ {x} : \A j \in Name : Calm(row[y][j], rs[y][j])
  BY <1>1, <1>2, <1>4 DEF AllCalm, Calm, Frozen
<1> QED BY <1>2, <1>4, <1>5 DEF Begins, AllCalm, Keeps
-----------------------------------------------------------------------------
(***************************************************************************)
(* What a step does to what has started before.                            *)
(***************************************************************************)

(* Attempts are numbered from one, and rows belong to inserted attempts.   *)
LEMMA Places ==
  ASSUME TypeInv
  PROVE  /\ \A r \in Run : latest[r] \in Nat /\ latest[r] \in 0..MaxAttempt
                           /\ (latest[r] # 0 => <<r, latest[r]>> \in Attempt)
         /\ \A y \in Attempt :
              /\ y = <<y[1], y[2]>> /\ y[1] \in Run /\ y[2] \in Nat /\ y[2] # 0
              /\ y[2] > 1 => <<y[1], y[2] - 1>> \in Attempt
              /\ \A j \in Name : row[y][j].st # "none" => y[2] <= latest[y[1]]
<1>1. \A r \in Run : latest[r] \in 0..MaxAttempt
  BY DEF TypeInv, TypeOK
<1>2. \A r \in Run : latest[r] \in Nat /\ (latest[r] # 0 => <<r, latest[r]>> \in Attempt)
  BY <1>1, ActionsRunAssumption DEF Attempt
<1>3. ASSUME NEW y \in Attempt
      PROVE  /\ y = <<y[1], y[2]>> /\ y[1] \in Run /\ y[2] \in Nat /\ y[2] # 0
             /\ y[2] > 1 => <<y[1], y[2] - 1>> \in Attempt
  BY ActionsRunAssumption DEF Attempt
<1>4. ASSUME NEW y \in Attempt, NEW j \in Name, row[y][j].st # "none"
      PROVE  y[2] <= latest[y[1]]
  <2>1. y[1] \in Run /\ y[2] \in Nat
    BY <1>3
  <2>2. latest[y[1]] \in Nat
    BY <1>2, <2>1
  <2>3. ~(y[2] > latest[y[1]])
    BY <1>4 DEF TypeInv, Inserted
  <2> QED BY <2>1, <2>2, <2>3
<1> QED BY <1>1, <1>2, <1>3, <1>4

(* What a job needs are jobs of its workflow.                              *)
LEMMA NeedsNamed ==
  ASSUME TypeInv, NEW r \in Run, wf[r] # None, NEW j \in Name
  PROVE  wf[r].needs[j] \subseteq wf[r].jobs /\ wf[r].jobs \subseteq Name
<1>1. wf[r] \in Workflow
  BY DEF TypeInv, TypeOK
<1> QED BY <1>1, ActionsRunAssumption DEF Definition

(* A need that was met is met as long as jobs that are done are left alone.*)
LEMMA OldMet ==
  ASSUME TypeInv, Placed, AllMet, NEW rs,
         \A y \in Attempt, j \in Name : y[2] <= latest[y[1]] => Frozen(row[y][j], rs[y][j]),
         NEW x \in Attempt, NEW i \in Name, row[x][i].st \in Started, NEW k \in wf[x[1]].needs[i]
  PROVE  Met(rs, x, k)
<1>1. x[2] <= latest[x[1]]
  BY Places DEF Started, Out, Active
<1>2. x[1] \in Run /\ x[2] \in Nat /\ latest[x[1]] \in Nat
      /\ (x[2] > 1 => <<x[1], x[2] - 1>> \in Attempt)
  BY Places
<1>3. k \in Name
  BY <1>1, <1>2, NeedsNamed DEF Placed
<1>4. Met(row, x, k)
  BY DEF AllMet
<1>5. Frozen(row[x][k], rs[x][k])
  BY <1>1, <1>3
<1>6. ASSUME x[2] > 1
      PROVE  Frozen(row[<<x[1], x[2] - 1>>][k], rs[<<x[1], x[2] - 1>>][k])
  <2> DEFINE y == <<x[1], x[2] - 1>>
  <2>1. y \in Attempt /\ y[2] <= latest[y[1]]
    BY <1>1, <1>2, <1>6
  <2> QED BY <1>3, <2>1
<1> QED BY <1>4, <1>5, <1>6 DEF Met, Frozen, Done

(* The template of a plan stays what it is.                                *)
LEMMA TemplatesStay ==
  ASSUME TypeInv, Templates, plans' \subseteq plans,
         \A q \in Run : latest'[q] \in Nat /\ latest[q] <= latest'[q],
         \A q \in Run : latest[q] # 0 => wf'[q] = wf[q],
         \A y \in Attempt, j \in Name : y[2] <= latest[y[1]] => Kept(row[y][j], row'[y][j])
  PROVE  Templates'
<1> SUFFICES ASSUME NEW p \in plans PROVE Template(p)'
  BY DEF Templates
<1>1. Template(p)
  BY DEF Templates
<1>2. p.run \in Run /\ p.attempt \in Nat /\ p.attempt # 0 /\ <<p.run, p.attempt>> \in Attempt
  BY ActionsRunAssumption DEF TypeInv, TypeOK, Plan, Attempt
<1>3. latest[p.run] \in Nat /\ p.attempt <= latest[p.run]
  BY <1>1, <1>2, Places DEF Template
<1>4. latest[p.run] # 0 /\ p.attempt <= latest'[p.run]
  BY <1>2, <1>3
<1>5. \A k \in Name : Kept(row[<<p.run, p.attempt>>][k], row'[<<p.run, p.attempt>>][k])
  BY <1>2, <1>3
<1> QED BY <1>1, <1>2, <1>4, <1>5 DEF Template, Kept

(* A step in which no attempt is added keeps what has to do with rows.     *)
LEMMA RowsStep ==
  ASSUME TypeInv, Placed, Templates, AllMet, Keeps(row, row'), Advances(row, row'),
         wf' = wf, latest' = latest, plans' \subseteq plans
  PROVE  Placed' /\ Templates' /\ AllMet'
<1>1. \A y \in Attempt, j \in Name : Kept(row[y][j], row'[y][j])
  BY DEF Keeps
<1>2. Placed'
  BY <1>1 DEF Placed, Kept
<1>3. Templates'
  <2>1. \A q \in Run : latest[q] \in Nat
    BY Places
  <2>2. \A q \in Run : latest'[q] \in Nat /\ latest[q] <= latest'[q]
    BY <2>1
  <2> QED BY <1>1, <2>2, TemplatesStay
<1>4. AllMet'
  <2> SUFFICES ASSUME NEW x \in Attempt, NEW i \in Name, row'[x][i].st \in Started,
                      NEW k \in wf[x[1]].needs[i]
               PROVE  Met(row', x, k)
    BY DEF AllMet, Met
  <2>1. CASE row[x][i].st \in Started
    BY <2>1, OldMet DEF Advances
  <2>2. CASE NeedsSucceeded(row', x, i)
    <3>1. row[x][i].st # "none"
      BY <1>1 DEF Kept, Started, Out, Active
    <3>2. x[1] \in Run /\ wf[x[1]] # None
      BY <3>1, Places DEF Placed
    <3>3. k \in Name
      BY <3>2, NeedsNamed
    <3> QED BY <2>2, <3>3 DEF NeedsSucceeded, Met
  <2> QED BY <2>1, <2>2 DEF Advances
<1> QED BY <1>2, <1>3, <1>4

(* A transaction that adds no attempt keeps the order of needs.            *)
LEMMA AdvanceStep ==
  ASSUME TypeInv, NeedsInv, NEW rs, NEW more, Commit(rs, latest, more), more \subseteq Marks,
         "revived" \notin more => Keeps(row, rs) /\ Advances(row, rs),
         wf' = wf, report' = report, plans' \subseteq plans
  PROVE  NeedsInv'
<1> SUFFICES ASSUME InOrder' PROVE (Placed /\ Templates /\ AllMet)'
  BY DEF NeedsInv
<1>1. InOrder /\ "revived" \notin more /\ row' = rs /\ latest' = latest
  BY CommitCut DEF InOrder
<1>2. Keeps(row, rs) /\ Advances(row, rs) /\ rs \in Rows
  BY <1>1 DEF Keeps
<1>3. Placed /\ Templates /\ AllMet
  BY <1>1 DEF NeedsInv
<1> QED BY <1>1, <1>2, <1>3, RowsStep

(* The rows of a new attempt: what starts needs only jobs that are passed  *)
(* through from the attempt before, or nothing.                            *)
Newborn(x, w, new) ==
  /\ \A j \in Name : new[j].st # "none" <=> j \in w.jobs
  /\ \A j \in Name : new[j].st \in Started => \A k \in w.needs[j] :
       /\ k \in Name /\ x[2] > 1 /\ new[k].task = "none" /\ new[k].st \in Done
       /\ new[k].st = row[<<x[1], x[2] - 1>>][k].st

(* A transaction that adds such an attempt keeps the order of needs.       *)
LEMMA AddStep ==
  ASSUME TypeInv, NeedsInv, NEW r \in Run, NEW n, NEW rs, NEW more, NEW w, NEW new,
         n = latest[r] + 1, <<r, n>> \in Attempt, Starts_(<<r, n>>, rs), Begins(<<r, n>>, new, rs),
         InOrder => w # None /\ Newborn(<<r, n>>, w, new), Commit(rs, [latest EXCEPT ![r] = n], more),
         wf'[r] = w, latest[r] # 0 => wf[r] = w,
         \A q \in Run \ {r} : wf'[q] = wf[q], report' = report, plans' \subseteq plans
  PROVE  NeedsInv'
<1> DEFINE x == <<r, n>>
           lat == [latest EXCEPT ![r] = n]
<1> SUFFICES ASSUME InOrder' PROVE (Placed /\ Templates /\ AllMet)'
  BY DEF NeedsInv
<1>1. /\ latest \in [Run -> 0..MaxAttempt] /\ n \in 1..MaxAttempt
      /\ lat \in [Run -> 0..MaxAttempt] /\ lat[r] = n
      /\ \A q \in Run : latest[q] \in Nat /\ lat[q] \in Nat /\ latest[q] <= lat[q]
                        /\ (q # r => lat[q] = latest[q])
  BY ActionsRunAssumption DEF TypeInv, TypeOK, Attempt
<1>2. /\ rs \in Rows
      /\ \A y \in Attempt \ {x} : \A j \in Name : Kept(row[y][j], rs[y][j]) /\ Calm(row[y][j], rs[y][j])
      /\ \E j \in Name : rs[x][j].st # "none"
      /\ \A j \in Name : Calm(new[j], rs[x][j]) /\ Kept(new[j], rs[x][j])
  BY DEF Starts_, Begins
<1>3. row' = rs /\ latest' = lat /\ InOrder
  BY CommitCut DEF InOrder
<1>4. Placed /\ Templates /\ AllMet /\ w # None /\ Newborn(x, w, new)
  BY <1>3 DEF NeedsInv
<1>5. \A y \in Attempt : /\ y[2] <= latest[y[1]] => y # x
                         /\ y[2] <= lat[y[1]] => y = x \/ y[2] <= latest[y[1]]
  <2> SUFFICES ASSUME NEW y \in Attempt
               PROVE  /\ y[2] <= latest[y[1]] => y # x
                      /\ y[2] <= lat[y[1]] => y = x \/ y[2] <= latest[y[1]]
    OBVIOUS
  <2>1. y = <<y[1], y[2]>> /\ y[1] \in Run /\ y[2] \in Nat
    BY Places
  <2>2. CASE y[1] # r
    BY <1>1, <2>1, <2>2
  <2>3. CASE y[1] = r
    <3>1. y[2] <= n => y[2] = n \/ y[2] <= latest[r]
      BY <1>1, <2>1
    <3>2. y = x <=> y[2] = n
      BY <2>1, <2>3
    <3>3. ~(n <= latest[r])
      BY <1>1
    <3> QED BY <1>1, <2>3, <3>1, <3>2, <3>3
  <2> QED BY <2>2, <2>3
<1>6. \A q \in Run : latest[q] # 0 => wf'[q] = wf[q]
  OBVIOUS
<1>7. \A y \in Attempt : y[2] <= latest[y[1]] => latest[y[1]] # 0 /\ y[1] \in Run
  <2> SUFFICES ASSUME NEW y \in Attempt, y[2] <= latest[y[1]]
               PROVE  latest[y[1]] # 0 /\ y[1] \in Run
    OBVIOUS
  <2>1. y[1] \in Run /\ y[2] \in Nat /\ y[2] # 0
    BY Places
  <2> QED BY <2>1
<1> HIDE DEF lat
<1>9. Placed'
  <2> SUFFICES ASSUME NEW y \in Attempt, y[2] <= lat[y[1]]
               PROVE  /\ wf'[y[1]] # None
                      /\ \A j \in Name : rs[y][j].st # "none" <=> j \in wf'[y[1]].jobs
    BY <1>3 DEF Placed
  <2>1. CASE y = x
    <3>1. wf'[y[1]] = w
      BY <2>1
    <3>2. \A j \in Name : rs[y][j].st # "none" <=> j \in w.jobs
      BY <1>2, <1>4, <2>1 DEF Newborn, Kept
    <3> QED BY <1>4, <3>1, <3>2
  <2>2. CASE y # x
    <3>1. y[2] <= latest[y[1]] /\ wf'[y[1]] = wf[y[1]]
      BY <1>5, <1>6, <1>7, <2>2
    <3>2. wf[y[1]] # None /\ \A j \in Name : row[y][j].st # "none" <=> j \in wf[y[1]].jobs
      BY <1>4, <3>1 DEF Placed
    <3> QED BY <1>2, <2>2, <3>1, <3>2 DEF Kept
  <2> QED BY <2>1, <2>2
<1>10. Templates'
  BY <1>1, <1>2, <1>3, <1>4, <1>5, <1>6, TemplatesStay
<1>13. \A y \in Attempt, j \in Name : y[2] <= latest[y[1]] =>
         Frozen(row[y][j], rs[y][j]) /\ Calm(row[y][j], rs[y][j])
  BY <1>2, <1>5 DEF Calm
<1>14. AllMet'
  <2> SUFFICES ASSUME NEW y \in Attempt, NEW i \in Name, rs[y][i].st \in Started,
                      NEW k \in wf'[y[1]].needs[i]
               PROVE  Met(rs, y, k)
    BY <1>3 DEF AllMet, Met
  <2>1. CASE y = x
    <3>1. new[i].st \in Started /\ k \in w.needs[i]
      BY <1>2, <2>1 DEF Calm
    <3>2. /\ k \in Name /\ n > 1 /\ new[k].task = "none" /\ new[k].st \in Done
          /\ new[k].st = row[<<r, n - 1>>][k].st
      BY <1>4, <3>1 DEF Newborn
    <3>3. rs[x][k].st = new[k].st /\ rs[x][k].task = "none"
      BY <1>2, <3>2 DEF Calm, Frozen
    <3>4. <<r, n - 1>> \in Attempt /\ n - 1 <= latest[r]
      BY <1>1, <3>2, Places
    <3>5. rs[<<r, n - 1>>][k].st = row[<<r, n - 1>>][k].st
      BY <1>13, <3>2, <3>4 DEF Frozen
    <3> QED BY <2>1, <3>2, <3>3, <3>5 DEF Met
  <2>2. CASE y # x
    <3>1. row[y][i].st \in Started
      BY <1>2, <2>2 DEF Calm
    <3>2. y[2] <= latest[y[1]]
      BY <3>1, Places DEF Started, Out, Active
    <3>3. k \in wf[y[1]].needs[i]
      BY <1>6, <1>7, <3>2
    <3> QED BY <1>4, <1>13, <3>1, <3>3, OldMet
  <2> QED BY <2>1, <2>2
<1> QED BY <1>9, <1>10, <1>14
-----------------------------------------------------------------------------
(***************************************************************************)
(* Concurrency groups: what a transaction leaves in a group.               *)
(***************************************************************************)

(* Job j of attempt x is in group g itself and has started, or is about to.*)
Holds(rs, x, j, g) == rs[x][j].grp /\ rs[x][j].st \in Out /\ GroupOf(x) = g
Alone(rs) ==
  \A g \in Group \ InProgress, x, y \in Attempt, i, j \in Name :
    Holds(rs, x, i, g) /\ Holds(rs, y, j, g) => x = y /\ i = j

(* A job that has yet to be claimed has no task, and a job that is blocked *)
(* is in no group its workflow does not put it into.                       *)
Unclaimed(rs) == \A x \in Attempt, j \in Name : rs[x][j].st \in Pending => rs[x][j].task = "none"
Tidy(rs) ==
  /\ Unclaimed(rs)
  /\ \A x \in Attempt, j \in Name :
       rs[x][j].st = "blocked" /\ rs[x][j].grp => j \in wf[x[1]].grouped

GroupInv == InOrder => Tidy(row) /\ Alone(row)

(* A job that is left as it is or cancelled; or claimed, or ended.         *)
Tame(u, v) ==
  \/ v = u
  \/ v.grp = u.grp /\ v.st \notin Pending /\ (v.st \in Out => u.st \in Out)
AllTame(old, rs) == \A y \in Attempt, j \in Name : Tame(old[y][j], rs[y][j])

(* A group gets no new job, or is left with a single one.                  *)
Leads(old, rs) ==
  \A g \in Group \ InProgress :
    \/ \A x \in Attempt, j \in Name : Holds(rs, x, j, g) => Holds(old, x, j, g)
    \/ \E x \in Attempt, j \in Name : \A y \in Attempt, i \in Name :
         Holds(rs, y, i, g) => y = x /\ i = j

(* A transaction that starts nothing gives a group no new job.             *)
LEMMA TameLeads == ASSUME NEW old, NEW rs, AllTame(old, rs) PROVE Leads(old, rs)
BY DEF AllTame, Tame, Leads, Holds

(* And leaves them all tidy.                                               *)
LEMMA TameTidy == ASSUME NEW old, NEW rs, AllTame(old, rs), Tidy(old) PROVE Tidy(rs)
BY DEF AllTame, Tame, Tidy, Unclaimed, Pending

(* One after the other, two transactions do the same.                      *)
LEMMA LeadsTrans ==
  ASSUME NEW r1, NEW r2, NEW r3, Leads(r1, r2), Leads(r2, r3) PROVE Leads(r1, r3)
<1> SUFFICES ASSUME NEW g \in Group \ InProgress
             PROVE  \/ \A x \in Attempt, j \in Name : Holds(r3, x, j, g) => Holds(r1, x, j, g)
                    \/ \E x \in Attempt, j \in Name : \A y \in Attempt, i \in Name :
                         Holds(r3, y, i, g) => y = x /\ i = j
  BY DEF Leads
<1>1. CASE \E x \in Attempt, j \in Name : \A y \in Attempt, i \in Name :
             Holds(r3, y, i, g) => y = x /\ i = j
  BY <1>1
<1>2. CASE \A x \in Attempt, j \in Name : Holds(r3, x, j, g) => Holds(r2, x, j, g)
  <2>1. CASE \A x \in Attempt, j \in Name : Holds(r2, x, j, g) => Holds(r1, x, j, g)
    BY <1>2, <2>1
  <2>2. CASE \E x \in Attempt, j \in Name : \A y \in Attempt, i \in Name :
               Holds(r2, y, i, g) => y = x /\ i = j
    <3>1. PICK x \in Attempt, j \in Name : \A y \in Attempt, i \in Name :
            Holds(r2, y, i, g) => y = x /\ i = j
      BY <2>2
    <3>2. \A y \in Attempt, i \in Name : Holds(r3, y, i, g) => y = x /\ i = j
      BY <1>2, <3>1
    <3> QED BY <3>2
  <2> QED BY <2>1, <2>2 DEF Leads
<1> QED BY <1>1, <1>2 DEF Leads

(* A group with at most one job has at most one after it.                  *)
LEMMA LeadsAlone == ASSUME NEW old, NEW rs, Alone(old), Leads(old, rs) PROVE Alone(rs)
<1> SUFFICES ASSUME NEW g \in Group \ InProgress, NEW x \in Attempt, NEW y \in Attempt,
                    NEW i \in Name, NEW j \in Name, Holds(rs, x, i, g), Holds(rs, y, j, g)
             PROVE  x = y /\ i = j
  BY DEF Alone
<1>1. CASE \A z \in Attempt, k \in Name : Holds(rs, z, k, g) => Holds(old, z, k, g)
  BY <1>1 DEF Alone
<1> QED BY <1>1 DEF Leads

(* Cancelling jobs starts none; what has yet to be claimed is cancelled.   *)
LEMMA CancelledTame ==
  ASSUME NEW x, NEW u \in Row
  PROVE  /\ Tame(u, Cancelled(x, u))
         /\ u.st \in Pending /\ u.task = "none" => Cancelled(x, u).st = "cancelled"
<1>1. CASE u.st \notin Pending \cup Active \/ u.task = "done"
  BY <1>1 DEF Cancelled, Tame
<1>2. CASE u.st \in Pending \cup Active /\ u.task # "done"
  <2>1. u.task \in {"none", "live"} /\ u \in Wide /\ (u.task = "live" => u.st \in Out)
    BY <1>2, RowFields DEF Wide
  <2>2. "cancelled" \notin Out \cup Pending /\ "cancelling" \notin Pending
    BY DEF Out, Active, Pending
  <2>3. u.task = "none" => Cancelled(x, u) = [u EXCEPT !.st = "cancelled"]
    BY <1>2 DEF Cancelled
  <2>4. u.task = "live" => \/ Cancelled(x, u) = [u EXCEPT !.st = "cancelling"]
                           \/ Cancelled(x, u) = [u EXCEPT !.st = "cancelled", !.task = "done"]
    BY <1>2 DEF Cancelled
  <2>5. /\ [u EXCEPT !.st = "cancelled"].st = "cancelled" /\ [u EXCEPT !.st = "cancelled"].grp = u.grp
        /\ [u EXCEPT !.st = "cancelling"].st = "cancelling" /\ [u EXCEPT !.st = "cancelling"].grp = u.grp
        /\ [u EXCEPT !.st = "cancelled", !.task = "done"].st = "cancelled"
        /\ [u EXCEPT !.st = "cancelled", !.task = "done"].grp = u.grp
    BY <2>1 DEF Wide
  <2> QED BY <2>1, <2>2, <2>3, <2>4, <2>5 DEF Tame
<1> QED BY <1>1, <1>2 DEF Pending

(* Cancelling a set of jobs leaves all others as they are.                 *)
LEMMA CancelJobsTame ==
  ASSUME NEW rs \in Rows, NEW V
  PROVE  /\ AllTame(rs, CancelJobs(rs, V))
         /\ \A y \in Attempt, j \in Name :
              <<y, j>> \notin V => CancelJobs(rs, V)[y][j] = rs[y][j]
         /\ \A y \in Attempt, j \in Name :
              <<y, j>> \in V /\ rs[y][j].st \in Pending /\ rs[y][j].task = "none" =>
                CancelJobs(rs, V)[y][j].st = "cancelled"
<1> SUFFICES ASSUME NEW y \in Attempt, NEW j \in Name
             PROVE  LET v == IF <<y, j>> \in V THEN Cancelled(y, rs[y][j]) ELSE rs[y][j]
                    IN /\ Tame(rs[y][j], v)
                       /\ <<y, j>> \notin V => v = rs[y][j]
                       /\ <<y, j>> \in V /\ rs[y][j].st \in Pending /\ rs[y][j].task = "none" =>
                            v.st = "cancelled"
  BY DEF AllTame, CancelJobs
<1>1. rs[y][j] \in Row /\ Tame(rs[y][j], rs[y][j])
  BY DEF Rows, Tame
<1> QED BY <1>1, CancelledTame

(* Once the jobs of a group without active jobs are cancelled, none of     *)
(* them is on its way (CancelPreviousJobsByJobConcurrency).                *)
LEMMA OthersCancelled ==
  ASSUME NEW rs \in Rows, Unclaimed(rs), NEW g \in Group \ InProgress, NEW atts, NEW mine, NEW E,
         ~ShouldBlock(g, rs, atts), NEW V, Previous(g, rs, atts, mine) \ E \subseteq V
  PROVE  \A x \in Attempt, j \in Name :
           <<x, j>> \notin E => ~Holds(CancelJobs(rs, V), x, j, g)
<1> SUFFICES ASSUME NEW x \in Attempt, NEW j \in Name, <<x, j>> \notin E,
                    Holds(CancelJobs(rs, V), x, j, g)
             PROVE  FALSE
  OBVIOUS
<1> DEFINE c == CancelJobs(rs, V)
<1>1. Tame(rs[x][j], c[x][j])
  BY CancelJobsTame DEF AllTame
<1>2. rs[x][j].grp /\ rs[x][j].st \in Out /\ GroupOf(x) = g
  BY <1>1 DEF Holds, Tame
<1>3. <<x, j>> \in GroupJobs(g, rs, {rs[x][j].st})
  BY <1>2 DEF GroupJobs
<1>4. rs[x][j].st \notin Active
  BY <1>2, <1>3 DEF ShouldBlock, GroupJobs
<1>5. rs[x][j].st \in Pending
  BY <1>2, <1>4 DEF Out, Pending
<1>6. <<x, j>> \in V
  BY <1>2, <1>5 DEF Previous, GroupJobs
<1>7. c[x][j].st = "cancelled"
  BY <1>5, <1>6, CancelJobsTame DEF Unclaimed
<1> QED BY <1>7 DEF Holds, Out, Active

(* The resolver starts one job of a group, when no other is left in it,    *)
(* or none.                                                                *)
LEMMA ResolveGroup ==
  ASSUME NEW rs \in Rows, Tidy(rs), NEW atts, NEW x \in Attempt, wf[x[1]] # None,
         NEW o \in Resolve(rs, atts, x), o.ok
  PROVE  Tidy(o.rs) /\ Leads(rs, o.rs)
<1> DEFINE w == wf[x[1]]
           starts == Starts(rs, x)
           skips == Skips(rs, x)
           mine == starts \cap w.grouped
           skipped == skips \cap w.grouped
           blocked == ShouldBlock(w.group, rs, atts)
           E == {x} \X (starts \cup skips)
           others == IF mine = {} THEN {} ELSE Previous(w.group, rs, atts, {x}) \ E
           c == CancelJobs(rs, others)
           st(kept, j) == IF j \in skips THEN "skipped"
                          ELSE IF j \in mine /\ blocked
                          THEN IF j \in kept THEN c[x][j].st ELSE "cancelled"
                          ELSE IF j \in starts THEN "waiting" ELSE c[x][j].st
           f(kept) == [j \in Name |->
              [c[x][j] EXCEPT !.st = st(kept, j), !.grp = @ \/ j \in mine \cup skipped]]
           result(kept) == [ok |-> TRUE, rs |-> [c EXCEPT ![x] = f(kept)]]
<1>1. o = Failed \/ \E kept : o = result(kept) /\ (blocked \/ Cardinality(mine) <= 1)
  <2> HIDE DEF f, blocked, mine
  <2>1. CASE Cardinality(mine) <= 1
    <3>1. o \in {Failed, result(mine)}
      BY <2>1 DEF Resolve, f, blocked, mine
    <3> HIDE DEF result
    <3> QED BY <2>1, <3>1
  <2>2. CASE ~(Cardinality(mine) <= 1) /\ (~blocked \/ skipped # {})
    BY <2>2 DEF Resolve, f, blocked, mine
  <2>3. CASE ~(Cardinality(mine) <= 1) /\ ~(~blocked \/ skipped # {})
    <3>1. o \in {result({})} \cup {result({j \in {last} : ~rs[x][j].grp}) : last \in mine}
      BY <2>3 DEF Resolve, f, blocked, mine
    <3> HIDE DEF result
    <3> QED BY <2>3, <3>1
  <2> QED BY <2>1, <2>2, <2>3
<1>2. Failed.ok = FALSE
  BY DEF Failed
<1> HIDE DEF result
<1>3. PICK kept : o = result(kept) /\ (blocked \/ Cardinality(mine) <= 1)
  BY <1>1, <1>2
<1>4. /\ c \in Rows /\ AllTame(rs, c)
      /\ \A j \in Name : j \in starts \cup skips => c[x][j] = rs[x][j]
  <2>1. \A j : j \in starts \cup skips => <<x, j>> \notin others
    OBVIOUS
  <2> HIDE DEF others, starts, skips
  <2>2. c \in Rows
    BY CancelJobsKeeps DEF Keeps
  <2>3. AllTame(rs, c) /\ \A j \in Name : <<x, j>> \notin others => c[x][j] = rs[x][j]
    BY CancelJobsTame
  <2> QED BY <2>1, <2>2, <2>3
<1>5. Tidy(c)
  BY <1>4, TameTidy
<1>6. \A j \in starts \cup skips : j \in Name /\ rs[x][j].st = "blocked"
  BY DEF Starts, Skips, WithStatus
<1>7. mine \subseteq starts /\ skipped \subseteq skips /\ mine = starts \cap w.grouped
      /\ skipped \subseteq w.grouped
  OBVIOUS
<1>8. /\ mine # {} => Previous(w.group, rs, atts, {x}) \ E \subseteq others
      /\ \A j : <<x, j>> \in E <=> j \in starts \cup skips
      /\ \A y \in Attempt \ {x}, j \in Name : <<y, j>> \notin E
  OBVIOUS
<1>9. IsFiniteSet(mine)
  <2>1. mine \subseteq Name
    BY <1>6
  <2> QED BY <2>1, NamesFinite, FS_Subset
<1> HIDE DEF starts, skips, mine, skipped, c, others, E
<1>10. o.rs = [c EXCEPT ![x] = f(kept)]
  <2> HIDE DEF f
  <2> QED BY <1>3 DEF result
<1>11. ASSUME NEW j \in Name
       PROVE  /\ o.rs[x][j].st = st(kept, j) /\ o.rs[x][j].task = c[x][j].task
              /\ o.rs[x][j].grp = (c[x][j].grp \/ j \in mine \cup skipped)
  <2>1. c[x][j] \in Row
    BY <1>4 DEF Rows
  <2>2. c[x][j] \in Wide
    BY <2>1, RowFields
  <2> DEFINE g == j \in mine \cup skipped
  <2>3. f(kept)[j] = [c[x][j] EXCEPT !.st = st(kept, j), !.grp = c[x][j].grp \/ g]
    OBVIOUS
  <2> HIDE DEF f, g, st
  <2>4. o.rs[x] = f(kept)
    BY <1>4, <1>10 DEF Rows
  <2>5. /\ f(kept)[j].st = st(kept, j) /\ f(kept)[j].task = c[x][j].task
        /\ f(kept)[j].grp = (c[x][j].grp \/ g)
    BY <2>2, <2>3 DEF Wide
  <2> QED BY <2>4, <2>5 DEF g
<1>12. \A y \in Attempt \ {x} : o.rs[y] = c[y]
  <2> HIDE DEF f
  <2> QED BY <1>4, <1>10 DEF Rows
<1>13. ASSUME NEW j \in Name
       PROVE  /\ o.rs[x][j].st \in Pending => o.rs[x][j].task = "none"
              /\ o.rs[x][j].st = "blocked" /\ o.rs[x][j].grp => j \in w.grouped
              /\ o.rs[x][j].grp /\ o.rs[x][j].st \in Out =>
                   \/ j \in mine /\ ~blocked
                   \/ j \notin starts \cup skips /\ c[x][j].grp /\ c[x][j].st \in Out
  <2>1. CASE j \in starts \cup skips
    <3>1. c[x][j] = rs[x][j] /\ rs[x][j].st = "blocked" /\ rs[x][j].task = "none"
          /\ (rs[x][j].grp => j \in w.grouped)
      BY <1>4, <1>6, <2>1 DEF Tidy, Unclaimed, Pending
    <3>2. st(kept, j) \in {"skipped", "blocked", "cancelled", "waiting"}
          /\ (st(kept, j) = "waiting" => j \in starts /\ ~(j \in mine /\ blocked))
      BY <2>1, <3>1
    <3> HIDE DEF st
    <3>3. o.rs[x][j].grp => j \in w.grouped
      BY <1>7, <1>11, <3>1
    <3>4. o.rs[x][j].st \in Out => st(kept, j) = "waiting"
      BY <1>11, <3>2 DEF Out, Active
    <3> QED BY <1>7, <1>11, <3>1, <3>2, <3>3, <3>4
  <2>2. CASE j \notin starts \cup skips
    <3>1. st(kept, j) = c[x][j].st
      BY <1>7, <2>2
    <3>2. o.rs[x][j].grp = c[x][j].grp
      <4>1. (j \in mine \cup skipped) = FALSE
        BY <1>7, <2>2
      <4>2. c[x][j].grp \in BOOLEAN
        <5>1. c[x][j] \in Row
          BY <1>4 DEF Rows
        <5> QED BY <5>1, RowFields DEF Wide
      <4> QED BY <1>11, <4>1, <4>2
    <3> HIDE DEF st
    <3> QED BY <1>5, <1>11, <2>2, <3>1, <3>2 DEF Tidy, Unclaimed
  <2> QED BY <2>1, <2>2
<1> HIDE DEF st, f, blocked
<1>14. Tidy(o.rs)
  BY <1>5, <1>12, <1>13 DEF Tidy, Unclaimed
<1>15. ASSUME NEW g \in Group \ InProgress
       PROVE  \/ \A y \in Attempt, j \in Name : Holds(o.rs, y, j, g) => Holds(rs, y, j, g)
              \/ \E y \in Attempt, j \in Name : \A z \in Attempt, i \in Name :
                   Holds(o.rs, z, i, g) => z = y /\ i = j
  <2>1. \A y \in Attempt, j \in Name : Holds(c, y, j, g) => Holds(rs, y, j, g)
    BY <1>4 DEF AllTame, Tame, Holds
  <2>2. \A y \in Attempt \ {x}, j \in Name : Holds(o.rs, y, j, g) => Holds(c, y, j, g)
    BY <1>12 DEF Holds
  <2>3. \A j \in Name : Holds(o.rs, x, j, g) =>
          \/ j \in mine /\ ~blocked
          \/ j \notin starts \cup skips /\ Holds(c, x, j, g)
    BY <1>13 DEF Holds
  <2>4. CASE mine = {} \/ blocked \/ g # w.group
    <3>1. \A j \in Name : Holds(o.rs, x, j, g) => g = w.group
      BY DEF Holds, GroupOf
    <3> HIDE DEF w
    <3>2. \A y \in Attempt, j \in Name : Holds(o.rs, y, j, g) => Holds(c, y, j, g)
      BY <2>2, <2>3, <2>4, <3>1
    <3> QED BY <2>1, <3>2
  <2>5. CASE mine # {} /\ ~blocked /\ g = w.group
    <3>1. PICK j0 : mine = {j0}
      <4>1. Cardinality(mine) = 1
        <5>1. Cardinality(mine) \in Nat /\ Cardinality(mine) # 0 /\ Cardinality(mine) <= 1
          BY <1>3, <1>9, <2>5, FS_CardinalityType, FS_EmptySet DEF blocked
        <5> QED BY <5>1
      <4> QED BY <1>9, <4>1, FS_Singleton
    <3>2. \A y \in Attempt, j \in Name : <<y, j>> \notin E => ~Holds(c, y, j, g)
      BY <1>8, <2>5, OthersCancelled DEF Tidy, c, blocked
    <3>3. ASSUME NEW z \in Attempt, NEW i \in Name, Holds(o.rs, z, i, g)
          PROVE  z = x /\ i = j0
      <4>1. CASE z # x
        BY <1>8, <2>2, <3>2, <3>3, <4>1
      <4>2. CASE z = x
        BY <1>8, <2>3, <3>1, <3>2, <3>3, <4>2
      <4> QED BY <4>1, <4>2
    <3>4. j0 \in Name
      BY <1>6, <1>7, <3>1
    <3> QED BY <3>3, <3>4
  <2> QED BY <2>4, <2>5
<1> QED BY <1>14, <1>15 DEF Leads

(* The check of one attempt does the same,                                 *)
LEMMA CheckJobsGroup ==
  ASSUME NEW rs \in Rows, Tidy(rs), NEW atts, NEW x \in Attempt, wf[x[1]] # None, NEW blocked,
         NEW o \in CheckJobs(rs, atts, x, blocked), o.ok
  PROVE  Tidy(o.rs) /\ Leads(rs, o.rs)
<1>1. o \in Resolve(rs, atts, x) \/ o = [ok |-> TRUE, rs |-> rs]
  BY DEF CheckJobs
<1>2. CASE o = [ok |-> TRUE, rs |-> rs]
  <2>1. o.rs = rs
    BY <1>2
  <2> QED BY <2>1 DEF Leads
<1> QED BY <1>1, <1>2, ResolveGroup

(* and so does that of another run of the group after it.                  *)
LEMMA CheckRunConcurrencyGroup ==
  ASSUME TypeInv, Placed, Tidy(row), NEW h \in handling,
         NEW o1 \in CheckJobs(row, attempt, <<h.run, h.latest>>, h.blocked),
         NEW o \in CheckRunConcurrency(h.run, o1), o.ok
  PROVE  Tidy(o.rs) /\ Leads(row, o.rs)
<1>1. row \in Rows /\ <<h.run, h.latest>> \in Attempt /\ h.run \in Run
  BY DEF TypeInv, TypeOK, Rows, Call, Attempt
<1>2. ASSUME NEW q \in Run, latest[q] # 0 PROVE wf[q] # None
  <2> DEFINE x == <<q, latest[q]>>
  <2>1. x \in Attempt /\ x[1] = q /\ x[2] <= latest[x[1]]
    <3>1. latest[q] \in Nat
      BY Places
    <3> QED BY <1>2, <3>1, Places
  <2> HIDE DEF x
  <2> QED BY <2>1 DEF Placed
<1>3. o1.ok \in BOOLEAN /\ (o1.ok => Keeps(row, o1.rs) /\ Tidy(o1.rs) /\ Leads(row, o1.rs))
  <2>1. wf[h.run] # None
    BY <1>1, <1>2 DEF TypeInv, Inserted
  <2>2. o1.ok => Tidy(o1.rs) /\ Leads(row, o1.rs)
    BY <1>1, <2>1, CheckJobsGroup
  <2> QED BY <1>1, <2>2, CheckJobsKeeps
<1>4. o = o1 \/ (o1.ok /\ \E q \in FindBlocked(wf[h.run].group, o1.rs) :
        o \in CheckJobs(o1.rs, AttemptsWith(o1.rs), <<q, latest[q]>>,
                        RunsWith(o1.rs, latest)[q] = "blocked"))
  BY <1>3 DEF CheckRunConcurrency
<1>5. CASE o = o1
  BY <1>3, <1>5
<1>6. ASSUME o1.ok, NEW q \in FindBlocked(wf[h.run].group, o1.rs),
             o \in CheckJobs(o1.rs, AttemptsWith(o1.rs), <<q, latest[q]>>,
                             RunsWith(o1.rs, latest)[q] = "blocked")
      PROVE  Tidy(o.rs) /\ Leads(row, o.rs)
  <2>1. o1.rs \in Rows /\ <<q, latest[q]>> \in Attempt
    BY <1>3, <1>6, BlockedInserted DEF Keeps
  <2>2. wf[q] # None
    <3>1. q \in Run /\ latest[q] # 0
      BY <2>1, ActionsRunAssumption DEF Attempt
    <3> QED BY <1>2, <3>1
  <2>3. Tidy(o.rs) /\ Leads(o1.rs, o.rs)
    BY <1>3, <1>6, <2>1, <2>2, CheckJobsGroup
  <2> QED BY <1>3, <1>6, <2>3, LeadsTrans
<1> QED BY <1>4, <1>5, <1>6

(* A new attempt that starts in a group leaves one job of it, or none, and *)
(* no other of the group if one is left.                                   *)
LEMMA StartInGroupAlone ==
  ASSUME NEW rs \in Rows, NEW g, NEW x \in Attempt, NEW SG \in SUBSET Name, Unclaimed(rs),
         \A j \in SG : rs[x][j].st = "waiting", NEW new \in StartInGroup(rs, g, x, SG)
  PROVE  /\ \A y \in Attempt, j \in Name : <<y, j>> \notin {x} \X SG => Tame(rs[y][j], new[y][j])
         /\ \A j \in SG : new[x][j].task = "none" /\ new[x][j].grp = rs[x][j].grp
         /\ g \in Group \ InProgress => \E last : \A j \in SG : new[x][j].st \in Out =>
              /\ j = last
              /\ \A y \in Attempt, i \in Name : <<y, i>> \notin {x} \X SG => ~Holds(new, y, i, g)
<1> DEFINE E == {x} \X SG
           atts == AttemptsWith(rs)
           blocked == ShouldBlock(g, rs, atts)
           others == Previous(g, rs, atts, {x}) \ E
           st == IF blocked THEN "blocked" ELSE "waiting"
           c == CancelJobs(rs, others)
           f(last) == [j \in Name |->
              IF j \notin SG THEN c[x][j]
              ELSE [c[x][j] EXCEPT !.st = IF j = last THEN st ELSE "cancelled"]]
<1>1. CASE SG = {}
  BY <1>1 DEF StartInGroup, Tame
<1>2. CASE SG # {}
  <2>1. PICK last \in SG : new = [c EXCEPT ![x] = f(last)]
    BY <1>2 DEF StartInGroup
  <2>2. c \in Rows
    BY CancelJobsKeeps DEF Keeps
  <2>3. /\ AllTame(rs, c)
        /\ \A y \in Attempt, j \in Name : <<y, j>> \notin others => c[y][j] = rs[y][j]
    <3> HIDE DEF others
    <3> QED BY CancelJobsTame
  <2>4. \A j \in SG : <<x, j>> \notin others /\ <<x, j>> \in E
    OBVIOUS
  <2>5. \A y \in Attempt, j \in Name : <<y, j>> \notin E <=> y # x \/ j \notin SG
    OBVIOUS
  <2>6. g \in Group \ InProgress /\ ~blocked =>
          \A y \in Attempt, i \in Name : <<y, i>> \notin E => ~Holds(c, y, i, g)
    BY OthersCancelled
  <2> HIDE DEF c, E, others, blocked
  <2>7. new[x] = f(last) /\ \A y \in Attempt \ {x} : new[y] = c[y]
    BY <2>1, <2>2 DEF Rows
  <2>8. ASSUME NEW y \in Attempt, NEW j \in Name, <<y, j>> \notin E PROVE new[y][j] = c[y][j]
    BY <2>5, <2>7, <2>8
  <2>9. ASSUME NEW j \in SG
        PROVE  /\ new[x][j].task = "none" /\ new[x][j].grp = rs[x][j].grp
               /\ new[x][j].st = IF j = last THEN st ELSE "cancelled"
    <3>1. rs[x][j] \in Row /\ rs[x][j].task = "none" /\ c[x][j] = rs[x][j]
      BY <2>3, <2>4 DEF Rows, Unclaimed, Pending
    <3>2. rs[x][j] \in Wide
      BY <3>1, RowFields
    <3>3. new[x][j] = [c[x][j] EXCEPT !.st = IF j = last THEN st ELSE "cancelled"]
      BY <2>7
    <3> HIDE DEF st
    <3> QED BY <3>1, <3>2, <3>3 DEF Wide
  <2> HIDE DEF f
  <2>10. \A y \in Attempt, j \in Name : <<y, j>> \notin E => Tame(rs[y][j], new[y][j])
    BY <2>3, <2>8 DEF AllTame
  <2>11. ASSUME g \in Group \ InProgress, NEW j \in SG, new[x][j].st \in Out
         PROVE  /\ j = last
                /\ \A y \in Attempt, i \in Name : <<y, i>> \notin E => ~Holds(new, y, i, g)
    <3>1. j = last /\ ~blocked
      BY <2>9, <2>11 DEF Out, Active
    <3> QED BY <2>6, <2>8, <2>11, <3>1 DEF Holds
  <2> QED BY <2>9, <2>10, <2>11 DEF E
<1> QED BY <1>1, <1>2

(* The rows of a new attempt: those that start in the group are SG.        *)
Settled(w, SG, new) ==
  /\ SG \subseteq w.grouped
  /\ \A j \in Name : /\ new[j].st \in Pending => new[j].task = "none"
                     /\ new[j].st = "blocked" /\ new[j].grp => j \in w.grouped
                     /\ new[j].grp /\ new[j].st \in Out => j \in SG

(* Only the workflow of r may be new.                                      *)
Defines(r, w) == wf'[r] = w /\ \A q \in Run \ {r} : wf'[q] = wf[q]

(* A transaction that adds such an attempt leaves one job in the group.    *)
LEMMA AddGroup ==
  ASSUME TypeInv, NeedsInv, GroupInv, NEW r \in Run, NEW n, NEW rs, NEW w,
         NEW new \in [Name -> Row], NEW SG \in SUBSET Name, \A j \in SG : new[j].st = "waiting",
         n = latest[r] + 1, <<r, n>> \in Attempt,
         rs \in StartInGroup([AfterRunConcurrency(r, w) EXCEPT ![<<r, n>>] = new],
                             w.group, <<r, n>>, SG),
         InOrder => w # None /\ Settled(w, SG, new),
         row' = rs, cut \subseteq cut', latest[r] # 0 => wf[r] = w, Defines(r, w)
  PROVE  GroupInv'
<1> DEFINE x == <<r, n>>
           c == AfterRunConcurrency(r, w)
           base == [c EXCEPT ![x] = new]
           E == {x} \X SG
           Here(y, i, g) == /\ rs[y][i].grp /\ rs[y][i].st \in Out
                            /\ (IF wf'[y[1]] = None THEN None ELSE wf'[y[1]].group) = g
<1> SUFFICES ASSUME InOrder' PROVE Tidy(row)' /\ Alone(row)'
  BY DEF GroupInv
<1>1. InOrder
  BY DEF InOrder
<1>2. Tidy(row) /\ Alone(row) /\ w # None /\ Settled(w, SG, new)
  BY <1>1 DEF GroupInv
<1>3. row \in Rows /\ c \in Rows /\ AllTame(row, c)
  <2>1. row \in Rows /\ AllTame(row, row)
    BY DEF TypeInv, TypeOK, Rows, AllTame, Tame
  <2> QED BY <2>1, RunConcurrencyKeeps, CancelJobsTame DEF AfterRunConcurrency, Keeps
<1> HIDE DEF c
<1>4. base \in Rows /\ base[x] = new /\ \A y \in Attempt \ {x} : base[y] = c[y]
  BY <1>3 DEF Rows
<1>5. rs \in StartInGroup(base, w.group, x, SG)
  BY DEF c
<1>6. \A y \in Attempt \ {x}, j \in Name : <<y, j>> \notin E
  OBVIOUS
<1>7. \A j \in Name : <<x, j>> \notin E <=> j \notin SG
  OBVIOUS
<1> HIDE DEF base
<1>8. Unclaimed(base)
  <2>1. Unclaimed(c)
    BY <1>2, <1>3, TameTidy DEF Tidy
  <2> QED BY <1>2, <1>4, <2>1 DEF Unclaimed, Settled
<1>9. /\ \A y \in Attempt, j \in Name : <<y, j>> \notin E => Tame(base[y][j], rs[y][j])
      /\ \A j \in SG : rs[x][j].task = "none" /\ rs[x][j].grp = base[x][j].grp
      /\ w.group \in Group \ InProgress => \E last : \A j \in SG : rs[x][j].st \in Out =>
           /\ j = last
           /\ \A y \in Attempt, i \in Name : <<y, i>> \notin E => ~Holds(rs, y, i, w.group)
  <2>1. \A j \in SG : base[x][j].st = "waiting"
    BY <1>4
  <2>2. x \in Attempt
    OBVIOUS
  <2> HIDE DEF x, Here
  <2>3. base \in Rows /\ Unclaimed(base)
    BY <1>4, <1>8
  <2> QED BY <1>5, <2>1, <2>2, <2>3, StartInGroupAlone
<1> HIDE DEF E
<1>10. \A y \in Attempt \ {x}, j \in Name : Tame(row[y][j], rs[y][j])
  <2> SUFFICES ASSUME NEW y \in Attempt \ {x}, NEW j \in Name PROVE Tame(row[y][j], rs[y][j])
    OBVIOUS
  <2>1. Tame(row[y][j], c[y][j]) /\ base[y][j] = c[y][j]
    BY <1>3, <1>4 DEF AllTame
  <2>2. Tame(base[y][j], rs[y][j])
    BY <1>6, <1>9
  <2> QED BY <2>1, <2>2 DEF Tame
<1>11. \A j \in Name : j \notin SG => Tame(new[j], rs[x][j])
  BY <1>4, <1>7, <1>9
<1>12. \A y \in Attempt \ {x}, j \in Name : row[y][j].st # "none" => wf'[y[1]] = wf[y[1]]
  <2> SUFFICES ASSUME NEW y \in Attempt \ {x}, NEW j \in Name, row[y][j].st # "none"
               PROVE  wf'[y[1]] = wf[y[1]]
    OBVIOUS
  <2>1. y[1] \in Run /\ y[2] \in Nat /\ y[2] # 0 /\ y[2] <= latest[y[1]] /\ latest[y[1]] \in Nat
    BY Places
  <2>2. latest[y[1]] # 0
    BY <2>1
  <2> QED BY <2>1, <2>2 DEF Defines
<1>13. wf'[x[1]] = w
  BY DEF Defines
<1>14. Tidy(row)'
  <2>1. ASSUME NEW y \in Attempt, NEW j \in Name
        PROVE  /\ rs[y][j].st \in Pending => rs[y][j].task = "none"
               /\ rs[y][j].st = "blocked" /\ rs[y][j].grp => j \in wf'[y[1]].grouped
    <3>1. CASE y # x
      <4>1. Tame(row[y][j], rs[y][j])
        BY <1>10, <3>1
      <4>2. CASE rs[y][j].st \in Pending
        <5>1. rs[y][j] = row[y][j] /\ row[y][j].st # "none"
          BY <4>1, <4>2 DEF Tame, Pending
        <5>2. wf'[y[1]] = wf[y[1]]
          BY <1>12, <3>1, <5>1
        <5> QED BY <1>2, <5>1, <5>2 DEF Tidy, Unclaimed
      <4> QED BY <4>2 DEF Pending
    <3>2. CASE y = x /\ j \in SG
      BY <1>2, <1>9, <1>13, <3>2 DEF Settled
    <3>3. CASE y = x /\ j \notin SG
      <4> HIDE DEF x
      <4> QED BY <1>2, <1>11, <1>13, <3>3 DEF Settled, Tame, Pending
    <3> QED BY <3>1, <3>2, <3>3
  <2> QED BY <2>1 DEF Tidy, Unclaimed
<1>15. ASSUME NEW g \in Group \ InProgress, NEW y \in Attempt, NEW i \in Name, Here(y, i, g)
       PROVE  \/ y # x /\ Holds(row, y, i, g) /\ Holds(rs, y, i, g)
              \/ y = x /\ i \in SG /\ g = w.group
  <2>1. CASE y # x
    <3>1. Tame(row[y][i], rs[y][i])
      BY <1>10, <2>1
    <3>2. row[y][i].grp /\ row[y][i].st \in Out
      BY <1>15, <3>1 DEF Tame
    <3>3. wf'[y[1]] = wf[y[1]]
      BY <1>12, <2>1, <3>2 DEF Out, Active
    <3> QED BY <1>15, <2>1, <3>2, <3>3 DEF Holds, GroupOf
  <2>2. CASE y = x
    <3>1. g = w.group
      BY <1>2, <1>13, <1>15, <2>2
    <3>2. i \notin SG => new[i].grp /\ new[i].st \in Out
      BY <1>11, <1>15, <2>2 DEF Tame
    <3> QED BY <1>2, <2>2, <3>1, <3>2 DEF Settled
  <2> QED BY <2>1, <2>2
<1>16. ASSUME NEW g \in Group \ InProgress, NEW y \in Attempt, NEW z \in Attempt,
              NEW i \in Name, NEW j \in Name, Here(y, i, g), Here(z, j, g), y = x
       PROVE  z = y /\ i = j
  <2>1. i \in SG /\ g = w.group /\ rs[x][i].st \in Out
    BY <1>15, <1>16
  <2>2. /\ \A k \in SG : rs[x][k].st \in Out => k = i
        /\ \A u \in Attempt, k \in Name : <<u, k>> \notin E => ~Holds(rs, u, k, g)
    BY <1>9, <1>16, <2>1
  <2>3. CASE z # x
    BY <1>6, <1>15, <1>16, <2>2, <2>3
  <2>4. CASE z = x
    BY <1>15, <1>16, <2>2, <2>4
  <2> QED BY <2>3, <2>4, <1>16
<1>17. Alone(row)'
  <2> SUFFICES ASSUME NEW g \in Group \ InProgress, NEW y \in Attempt, NEW z \in Attempt,
                      NEW i \in Name, NEW j \in Name, Here(y, i, g), Here(z, j, g)
               PROVE  y = z /\ i = j
    BY DEF Alone, Holds, GroupOf
  <2>1. CASE y = x \/ z = x
    <3> HIDE DEF Here, x
    <3> QED BY <1>16, <2>1
  <2>2. CASE y # x /\ z # x
    BY <1>2, <1>15, <2>2 DEF Alone
  <2> QED BY <2>1, <2>2
<1> QED BY <1>14, <1>17

(* A transaction that adds no attempt keeps the groups as it leads them.   *)
LEMMA GroupStep ==
  ASSUME GroupInv, NEW rs, row' = rs, wf' = wf, cut \subseteq cut',
         InOrder' /\ Tidy(row) => Tidy(rs) /\ Leads(row, rs)
  PROVE  GroupInv'
<1> SUFFICES ASSUME InOrder' PROVE Tidy(row)' /\ Alone(row)'
  BY DEF GroupInv
<1>1. InOrder
  BY DEF InOrder
<1>2. Tidy(row) /\ Alone(row)
  BY <1>1 DEF GroupInv
<1>3. Tidy(rs) /\ Alone(rs)
  BY <1>2, LeadsAlone
<1> QED BY <1>3 DEF Tidy, Unclaimed, Alone, Holds, GroupOf

(* An approval that revives nothing lets go jobs that need nothing, and of *)
(* a group only the last, if no other is left in the group.                *)
LEMMA ApproveStarts ==
  ASSUME TypeInv, wf \in [Run -> Workflow \cup {None}], NEW r \in Run, wf[r] # None, ApproveRuns(r)
  PROVE  \E rs, more :
           /\ Commit(rs, latest, more) /\ more \subseteq Marks
           /\ "revived" \notin more => Keeps(row, rs) /\ Advances(row, rs)
           /\ "revived" \notin more /\ Tidy(row) => Tidy(rs) /\ Leads(row, rs)
<1> DEFINE w == wf[r]
           x == <<r, latest[r]>>
           first == Roots(w, w.jobs)
           mine == {j \in first \cap w.grouped : row[x][j].grp}
           blocked == ShouldBlock(w.group, row, attempt)
           others == IF mine = {} THEN {} ELSE Previous(w.group, row, attempt, {x})
           written == (first \ w.grouped) \cup (IF blocked THEN {} ELSE mine)
           kept(last) == IF mine = {last} \/ ~blocked THEN {<<x, last>>} ELSE {}
           c(last) == CancelJobs(row, others \ kept(last))
           f(last) == [j \in Name |->
                       IF j \notin written THEN c(last)[x][j]
                       ELSE IF j \in mine \ {last} THEN Cancelled(x, Waiting(row[x][j]))
                       ELSE Waiting(row[x][j])]
           rs(last) == [c(last) EXCEPT ![x] = f(last)]
           more == (IF \A j \in written : row[x][j].st = "blocked" THEN {} ELSE {"revived"})
                   \cup (IF first \cap w.grouped = mine THEN {} ELSE {"unevaluated"})
<1>1. PICK last \in IF mine = {} THEN {None} ELSE mine : Commit(rs(last), latest, more)
  BY DEF ApproveRuns
<1>2. row \in Rows /\ x \in Attempt
  <2>1. latest[r] # 0
    BY DEF ApproveRuns
  <2>2. latest[r] \in 0..MaxAttempt /\ row \in Rows
    BY DEF TypeInv, TypeOK, Rows
  <2>3. latest[r] \in 1..MaxAttempt
    BY <2>1, <2>2, ActionsRunAssumption
  <2> QED BY <2>2, <2>3 DEF Attempt
<1>3. c(last) \in Rows /\ Keeps(row, c(last)) /\ AllCalm(row, c(last))
  BY <1>2, CancelJobsKeeps, CancelJobsCalm DEF Keeps
<1>4. \A j \in written : wf[x[1]].needs[j] = {}
  <2>1. w \in Workflow
    BY DEF TypeInv, TypeOK
  <2>2. \A j \in first : w.needs[j] \cap w.jobs = {} /\ j \in Name /\ w.needs[j] \subseteq w.jobs
    BY <2>1, ActionsRunAssumption DEF Roots, Definition
  <2>3. written \subseteq first
    OBVIOUS
  <2> HIDE DEF first, written
  <2> QED BY <2>2, <2>3
<1>8. /\ \A j \in Name : <<x, j>> \in {<<x, last>>} <=> j = last
      /\ \A y \in Attempt \ {x}, j \in Name : <<y, j>> \notin {<<x, last>>}
      /\ \A j \in written : j \in w.grouped => j \in mine /\ ~blocked
      /\ mine # {} => last \in mine /\ mine \subseteq Name
      /\ ~blocked => mine \subseteq written
  <2>1. w.jobs \subseteq Name
    <3>1. w \in Workflow
      BY DEF TypeInv, TypeOK
    <3> QED BY <3>1, ActionsRunAssumption DEF Definition
  <2>2. mine \subseteq Name
    <3>1. first \subseteq w.jobs
      BY DEF Roots
    <3> QED BY <2>1, <3>1
  <2>3. /\ \A j \in Name : <<x, j>> \in {<<x, last>>} <=> j = last
        /\ \A y \in Attempt \ {x}, j \in Name : <<y, j>> \notin {<<x, last>>}
    OBVIOUS
  <2>4. /\ \A j \in written : j \in w.grouped => j \in mine /\ ~blocked
        /\ ~blocked => mine \subseteq written
    <3> HIDE DEF first, blocked
    <3> QED OBVIOUS
  <2> QED BY <2>2, <2>3, <2>4
<1>9. ASSUME Tidy(row), NEW g \in Group \ InProgress, g = w.group, ~blocked, mine # {}
      PROVE  \A y \in Attempt, j \in Name :
               <<y, j>> \notin {<<x, last>>} => ~Holds(c(last), y, j, g)
  <2>1. Previous(g, row, attempt, {x}) \ {<<x, last>>} \subseteq others \ kept(last)
    BY <1>9
  <2> DEFINE V == others \ kept(last)
  <2> HIDE DEF V
  <2>2. ~ShouldBlock(g, row, attempt) /\ Unclaimed(row)
    BY <1>9 DEF Tidy
  <2> HIDE DEF x
  <2> QED BY <1>2, <2>1, <2>2, OthersCancelled DEF V
<1> HIDE DEF c, written, mine, x, blocked
<1>5. ASSUME NEW j \in Name, "revived" \notin more
      PROVE  /\ f(last)[j] \in Row /\ Kept(row[x][j], f(last)[j]) /\ Frozen(row[x][j], f(last)[j])
             /\ j \in written \/ Calm(row[x][j], f(last)[j])
  <2>1. row[x][j] \in Row /\ c(last)[x][j] \in Row /\ Kept(row[x][j], c(last)[x][j])
        /\ Calm(row[x][j], c(last)[x][j])
    BY <1>2, <1>3 DEF Keeps, Rows, AllCalm
  <2>2. Waiting(row[x][j]) \in Row /\ Waiting(row[x][j]).st = "waiting"
    BY <2>1, WaitingType
  <2>3. Cancelled(x, Waiting(row[x][j])) \in Row /\ Cancelled(x, Waiting(row[x][j])).st # "none"
    BY <2>2, CancelledKept DEF Kept
  <2>4. j \in written => row[x][j].st = "blocked"
    BY <1>5
  <2>5. CASE j \in written
    BY <2>2, <2>3, <2>4, <2>5 DEF Kept, Frozen, Done
  <2>6. CASE j \notin written
    BY <2>1, <2>6 DEF Calm
  <2> QED BY <2>5, <2>6
<1> HIDE DEF f
<1>6. ASSUME "revived" \notin more
      PROVE  Keeps(row, rs(last)) /\ Advances(row, rs(last))
  <2>1. f(last) \in [Name -> Row] /\ \A j \in Name : Kept(row[x][j], f(last)[j])
    <3>1. f(last) = [j \in Name |-> f(last)[j]]
      BY DEF f
    <3> QED BY <1>5, <1>6, <3>1
  <2>2. Keeps(row, rs(last))
    BY <1>2, <1>3, <2>1, WriteKeeps
  <2>3. rs(last)[x] = f(last) /\ \A y \in Attempt \ {x} : rs(last)[y] = c(last)[y]
    BY <1>2, <1>3 DEF Rows
  <2> HIDE DEF rs, more
  <2>4. ASSUME NEW y \in Attempt, NEW j \in Name
        PROVE  /\ Frozen(row[y][j], rs(last)[y][j])
               /\ (y = x /\ j \in written) \/ Calm(row[y][j], rs(last)[y][j])
    BY <1>3, <1>5, <1>6, <2>3 DEF AllCalm, Calm
  <2>5. \A j \in written : NeedsSucceeded(rs(last), x, j)
    BY <1>4 DEF NeedsSucceeded
  <2> QED BY <2>2, <2>4, <2>5 DEF Advances, Calm
<1>7. more \subseteq Marks
  BY DEF Marks
<1>10. ASSUME "revived" \notin more, Tidy(row), NEW j \in Name
       PROVE  /\ f(last)[j].st \in Pending => f(last)[j].task = "none"
              /\ f(last)[j].st = "blocked" /\ f(last)[j].grp => j \in w.grouped
              /\ f(last)[j].grp /\ f(last)[j].st \in Out =>
                   \/ j \in mine /\ ~blocked /\ j = last
                   \/ j \notin written /\ c(last)[x][j].grp /\ c(last)[x][j].st \in Out
  <2> USE DEF f
  <2>1. CASE j \notin written
    <3>1. f(last)[j] = c(last)[x][j]
      BY <2>1
    <3>2. Tidy(c(last))
      BY <1>2, <1>10, CancelJobsTame, TameTidy DEF c
    <3> QED BY <1>2, <2>1, <3>1, <3>2 DEF Tidy, Unclaimed, x
  <2>2. CASE j \in written
    <3> DEFINE u == row[x][j]
    <3>1. u \in Row /\ u.st = "blocked" /\ u.task = "none" /\ (u.grp => j \in w.grouped)
      BY <1>2, <1>10, <2>2 DEF Rows, Tidy, Unclaimed, Pending, x
    <3>2. u \in Wide
      BY <3>1, RowFields
    <3> HIDE DEF u
    <3>3. /\ Waiting(u) \in Row /\ Waiting(u).st = "waiting" /\ Waiting(u).task = "none"
          /\ Waiting(u).grp = u.grp
      <4>1. Waiting(u).task = "none" /\ Waiting(u).grp = u.grp
        BY <3>1, <3>2 DEF Waiting, Wide
      <4> QED BY <3>1, <4>1, WaitingType
    <3>4. Cancelled(x, Waiting(u)).st = "cancelled"
      BY <3>3, CancelledTame DEF Pending
    <3>5. CASE j \in mine \ {last}
      <4>1. f(last)[j].st = "cancelled"
        BY <2>2, <3>4, <3>5 DEF u
      <4> QED BY <4>1 DEF Out, Active, Pending
    <3>6. CASE j \notin mine \ {last}
      <4>1. f(last)[j] = Waiting(u)
        BY <2>2, <3>6 DEF u
      <4> QED BY <1>8, <2>2, <3>1, <3>3, <3>6, <4>1
    <3> QED BY <3>5, <3>6
  <2> QED BY <2>1, <2>2
<1>11. /\ c(last) \in Rows /\ AllTame(row, c(last))
       /\ "revived" \notin more => rs(last)[x] = f(last) /\ \A y \in Attempt \ {x} : rs(last)[y] = c(last)[y]
  <2>1. AllTame(row, c(last))
    BY <1>2, CancelJobsTame DEF c
  <2> QED BY <1>2, <1>3, <2>1 DEF Rows
<1> HIDE DEF rs, more
<1>12. ASSUME "revived" \notin more, Tidy(row) PROVE Tidy(rs(last)) /\ Leads(row, rs(last))
  <2>1. Tidy(c(last))
    BY <1>11, <1>12, TameTidy
  <2>2. \A j \in Name : \/ j \in mine /\ ~blocked /\ j = last
                        \/ ~(rs(last)[x][j].grp /\ rs(last)[x][j].st \in Out)
                        \/ j \notin written /\ c(last)[x][j].grp /\ c(last)[x][j].st \in Out
    BY <1>10, <1>11, <1>12
  <2>3. Tidy(rs(last))
    <3>1. \A j \in Name : /\ rs(last)[x][j].st \in Pending => rs(last)[x][j].task = "none"
                          /\ rs(last)[x][j].st = "blocked" /\ rs(last)[x][j].grp =>
                               j \in wf[x[1]].grouped
      BY <1>10, <1>11, <1>12 DEF x
    <3> QED BY <1>11, <1>12, <2>1, <3>1 DEF Tidy, Unclaimed
  <2>4. ASSUME NEW g \in Group \ InProgress
        PROVE  \/ \A y \in Attempt, j \in Name : Holds(rs(last), y, j, g) => Holds(row, y, j, g)
               \/ \E y \in Attempt, j \in Name : \A z \in Attempt, i \in Name :
                    Holds(rs(last), z, i, g) => z = y /\ i = j
    <3>1. \A y \in Attempt, j \in Name : Holds(c(last), y, j, g) => Holds(row, y, j, g)
      BY <1>11 DEF AllTame, Tame, Holds
    <3>2. \A y \in Attempt \ {x}, j \in Name : Holds(rs(last), y, j, g) => Holds(c(last), y, j, g)
      BY <1>11, <1>12 DEF Holds
    <3>3. \A j \in Name : Holds(rs(last), x, j, g) =>
            \/ j \in mine /\ ~blocked /\ j = last
            \/ j \notin written /\ Holds(c(last), x, j, g)
      BY <2>2 DEF Holds
    <3>4. \A j \in Name : Holds(rs(last), x, j, g) => g = w.group
      BY DEF Holds, GroupOf, x
    <3>5. CASE mine = {} \/ blocked \/ g # w.group
      <4>1. \A y \in Attempt, j \in Name : Holds(rs(last), y, j, g) => Holds(c(last), y, j, g)
        BY <3>2, <3>3, <3>4, <3>5
      <4> QED BY <3>1, <4>1
    <3>6. CASE mine # {} /\ ~blocked /\ g = w.group
      <4>1. \A y \in Attempt, j \in Name :
              <<y, j>> \notin {<<x, last>>} => ~Holds(c(last), y, j, g)
        BY <1>9, <1>12, <3>6
      <4>2. ASSUME NEW z \in Attempt, NEW i \in Name, Holds(rs(last), z, i, g)
            PROVE  z = x /\ i = last
        <5>1. CASE z # x
          BY <1>8, <3>2, <4>1, <4>2, <5>1
        <5>2. CASE z = x
          BY <1>8, <3>3, <3>6, <4>1, <4>2, <5>2
        <5> QED BY <5>1, <5>2
      <4>3. x \in Attempt /\ last \in Name
        BY <1>2, <1>8, <3>6
      <4> QED BY <4>2, <4>3
    <3> QED BY <3>5, <3>6
  <2> QED BY <2>3, <2>4 DEF Leads
<1> QED BY <1>1, <1>6, <1>7, <1>12
-----------------------------------------------------------------------------
(***************************************************************************)
(* Each action keeps the order of needs, and the groups.                   *)
(***************************************************************************)

StartInv == NeedsInv /\ GroupInv

(* The row of a job that a run or a rerun inserts.                         *)
LEMMA NewRow ==
  ASSUME NEW s \in Pending, NEW g \in BOOLEAN, NEW u, u = [st |-> s, task |-> "none", grp |-> g]
  PROVE  u \in Row /\ u.st = s /\ u.task = "none" /\ u.grp = g
<1>1. s \in Status /\ s # "none"
  BY DEF Status, Pending
<1>2. u \in [st : Status, task : {"none", "live", "done"}, grp : BOOLEAN] /\ u.task # "live"
  BY <1>1
<1>3. u \in Row
  BY <1>2 DEF Row
<1> QED BY <1>3

(* InsertRun starts jobs that need nothing.                                *)
LEMMA InsertStart ==
  ASSUME TypeInv, StartInv, NEW r \in Run, NEW w \in Workflow, InsertRun(r, w) PROVE StartInv'
<1> DEFINE x == <<r, 1>>
           first == Roots(w, w.jobs)
           start == IF RunBlocked(w) \/ w.approval THEN {} ELSE first
           new == [j \in Name |->
             IF j \notin w.jobs THEN NoRow
             ELSE [st |-> IF j \in start THEN "waiting" ELSE "blocked", task |-> "none",
                   grp |-> j \in first \cap w.grouped]]
           SG == start \cap w.grouped
<1>1. PICK rs \in StartInGroup([AfterRunConcurrency(r, w) EXCEPT ![x] = new], w.group, x, SG) :
        Commit(rs, [latest EXCEPT ![r] = 1], {})
  BY DEF InsertRun
<1>2. /\ w.jobs \subseteq Name /\ w.jobs # {}
      /\ \A j \in Name : w.needs[j] \subseteq w.jobs
  BY ActionsRunAssumption DEF Definition
<1>3. first \subseteq w.jobs /\ start \subseteq first /\ \A j \in first : w.needs[j] = {}
  BY <1>2 DEF Roots
<1> HIDE DEF first, start
<1>4. ASSUME NEW j \in Name
      PROVE  /\ new[j] \in Row
             /\ new[j].st # "none" <=> j \in w.jobs
             /\ new[j].st \in Started => j \in start
             /\ j \in SG => new[j].st = "waiting" /\ new[j].st \in Pending /\ new[j].task # "live"
             /\ new[j].st \in Pending => new[j].task = "none"
             /\ new[j].grp => j \in first \cap w.grouped
  <2>1. NoRow \in Row /\ NoRow.st = "none" /\ NoRow.grp = FALSE
    BY DEF NoRow, Row
  <2>2. CASE j \notin w.jobs
    BY <1>3, <2>1, <2>2 DEF Started, Out, Active, Pending
  <2>3. CASE j \in w.jobs
    <3> DEFINE s == IF j \in start THEN "waiting" ELSE "blocked"
               g == j \in first \cap w.grouped
    <3>1. new[j] = [st |-> s, task |-> "none", grp |-> g]
      BY <2>3
    <3>2. s \in Pending /\ (s \in Started => j \in start) /\ (j \in start => s = "waiting")
      BY DEF Pending, Started, Out, Active
    <3>3. g \in BOOLEAN /\ (g <=> j \in first \cap w.grouped)
      OBVIOUS
    <3>4. j \in SG => j \in start
      OBVIOUS
    <3> HIDE DEF s, g, new, SG
    <3>5. new[j] \in Row /\ new[j].st = s /\ new[j].task = "none" /\ new[j].grp = g
      BY <3>1, <3>2, <3>3, NewRow
    <3>6. new[j].grp => j \in first \cap w.grouped
      BY <3>3, <3>5
    <3>7. new[j].st # "none"
      BY <3>2, <3>5 DEF Pending
    <3> QED BY <2>3, <3>2, <3>4, <3>5, <3>6, <3>7
  <2> QED BY <2>2, <2>3
<1>5. SG \in SUBSET Name
  BY <1>2, <1>3
<1>13. Settled(w, SG, new)
  BY <1>4 DEF Settled, Started
<1> HIDE DEF SG
<1>6. new \in [Name -> Row] /\ \E j \in Name : new[j].st # "none"
  BY <1>2, <1>4
<1>7. Newborn(x, w, new)
  BY <1>3, <1>4 DEF Newborn
<1> HIDE DEF new
<1>8. x \in Attempt /\ row \in Rows /\ latest[r] = 0
  <2>1. latest[r] = 0
    BY DEF InsertRun
  <2>2. MaxAttempt \in Nat /\ MaxAttempt # 0
    BY ActionsRunAssumption
  <2> QED BY <2>1, <2>2 DEF Attempt, TypeInv, TypeOK, Rows
<1>9. Starts_(x, rs) /\ Begins(x, new, rs)
  BY <1>1, <1>4, <1>5, <1>6, <1>8, NewAttempt, NewAttemptCalm
<1>10. /\ wf' = [wf EXCEPT ![r] = w] /\ wf \in [Run -> Workflow \cup {None}]
       /\ report' = report /\ plans' \subseteq plans /\ w # None
  BY ActionsRunAssumption DEF InsertRun, TypeInv, TypeOK
<1>11. wf'[r] = w /\ \A q \in Run \ {r} : wf'[q] = wf[q]
  BY <1>10
<1>12. 1 = latest[r] + 1
  BY <1>8
<1>14. NeedsInv'
  BY <1>1, <1>7, <1>8, <1>9, <1>10, <1>11, <1>12, AddStep DEF StartInv
<1>15. GroupInv'
  <2>1. row' = rs /\ cut \subseteq cut'
    BY <1>1, CommitCut
  <2>2. \A j \in SG : new[j].st = "waiting"
    BY <1>4, <1>5
  <2> DEFINE n == 1
  <2>3. n = latest[r] + 1 /\ <<r, n>> \in Attempt /\ (latest[r] # 0 => wf[r] = w)
    BY <1>8, <1>12
  <2>4. rs \in StartInGroup([AfterRunConcurrency(r, w) EXCEPT ![<<r, n>>] = new],
                            w.group, <<r, n>>, SG)
    BY <1>1
  <2>5. InOrder => w # None /\ Settled(w, SG, new)
    BY <1>10, <1>13
  <2>6. NeedsInv /\ GroupInv
    BY DEF StartInv
  <2>7. new \in [Name -> Row] /\ SG \in SUBSET Name
    BY <1>5, <1>6
  <2>8. Defines(r, w)
    BY <1>11 DEF Defines
  <2> HIDE DEF n, x
  <2> QED BY <2>1, <2>2, <2>3, <2>4, <2>5, <2>6, <2>7, <2>8, AddGroup
<1> QED BY <1>14, <1>15 DEF StartInv

(* execRerunPlan starts jobs that need none of those that run again; the   *)
(* others are copied from a template all of whose jobs have ended.         *)
LEMMA RerunStart ==
  ASSUME TypeInv, StartInv, NEW p \in plans, ExecRerunPlan(p) PROVE StartInv'
<1> DEFINE r == p.run
           n == p.attempt + 1
           w == wf[r]
           x == <<r, n>>
           old == p.template
           again == p.jobs
           start == IF RunBlocked(w) THEN {} ELSE Roots(w, again)
           new == [j \in Name |->
             IF j \in again
             THEN [st |-> IF j \in start THEN "waiting" ELSE "blocked", task |-> "none",
                   grp |-> j \in start \cap w.grouped]
             ELSE [old[j] EXCEPT !.task = "none"]]
           SG == start \cap w.grouped
           more == IF Awake(r) THEN {"superseded"} ELSE {}
<1>1. PICK rs \in StartInGroup([AfterRunConcurrency(r, w) EXCEPT ![x] = new], w.group, x, SG) :
        Commit(rs, [latest EXCEPT ![r] = n], more)
  BY DEF ExecRerunPlan
<1>2. /\ r \in Run /\ p.attempt \in 1..(MaxAttempt - 1) /\ again \subseteq Name /\ again # {}
      /\ old \in [Name -> Row]
  BY DEF TypeInv, TypeOK, Plan
<1>3. /\ <<r, p.attempt>> \in Attempt /\ x \in Attempt /\ row \in Rows /\ latest[r] = p.attempt
      /\ p.attempt \in Nat /\ p.attempt # 0
  BY <1>2, ActionsRunAssumption DEF ExecRerunPlan, MayExecute, AttemptUnique, Attempt, TypeInv, TypeOK, Rows
<1>4. start \subseteq again /\ \A j \in start : w.needs[j] \cap again = {}
  BY DEF Roots
<1> HIDE DEF start, old
<1>5. ASSUME NEW j \in Name
      PROVE  /\ new[j] \in Row
             /\ j \in again => /\ new[j].st \in Pending /\ new[j].task = "none"
                               /\ new[j].st \in Started => j \in start
                               /\ new[j].grp => j \in SG
             /\ j \notin again => new[j].st = old[j].st /\ new[j].task = "none"
             /\ j \in SG => new[j].st = "waiting" /\ new[j].st \in Pending /\ new[j].task # "live"
  <2>1. CASE j \notin again
    <3>1. old[j] \in Row /\ [old[j] EXCEPT !.task = "none"] \in Row
      BY <1>2, DropTask
    <3>2. old[j] \in Wide
      BY <3>1, RowFields
    <3>3. [old[j] EXCEPT !.task = "none"].st = old[j].st
          /\ [old[j] EXCEPT !.task = "none"].task = "none"
      BY <3>2 DEF Wide
    <3> QED BY <1>4, <2>1, <3>1, <3>3
  <2>2. CASE j \in again
    <3> DEFINE s == IF j \in start THEN "waiting" ELSE "blocked"
               g == j \in start \cap w.grouped
    <3>1. new[j] = [st |-> s, task |-> "none", grp |-> g]
      BY <2>2
    <3>2. s \in Pending /\ (s \in Started => j \in start) /\ (j \in start => s = "waiting")
      BY DEF Pending, Started, Out, Active
    <3>3. g \in BOOLEAN /\ (g <=> j \in SG) /\ (j \in SG => j \in start)
      OBVIOUS
    <3> HIDE DEF s, g, new, SG, again
    <3>4. new[j] \in Row /\ new[j].st = s /\ new[j].task = "none" /\ new[j].grp = g
      BY <3>1, <3>2, <3>3, NewRow
    <3>5. new[j].grp => j \in SG
      BY <3>3, <3>4
    <3> QED BY <2>2, <3>2, <3>3, <3>4, <3>5
  <2> QED BY <2>1, <2>2
<1>6. SG \in SUBSET Name
  BY <1>2, <1>4
<1> HIDE DEF SG
<1>7. new \in [Name -> Row] /\ \E j \in Name : new[j].st # "none"
  BY <1>2, <1>5 DEF Pending
<1> HIDE DEF new
<1>8. ASSUME InOrder PROVE w # None /\ Newborn(x, w, new) /\ Settled(w, SG, new)
  <2>1. w # None /\ \A j \in Name : row[<<r, p.attempt>>][j].st # "none" <=> j \in w.jobs
    <3> DEFINE y == <<r, p.attempt>>
    <3>1. y \in Attempt /\ y[1] = r /\ y[2] <= latest[y[1]]
      BY <1>3
    <3> HIDE DEF y
    <3>2. wf[y[1]] # None /\ \A j \in Name : row[y][j].st # "none" <=> j \in wf[y[1]].jobs
      BY <1>8, <3>1 DEF StartInv, NeedsInv, Placed
    <3> QED BY <3>1, <3>2 DEF y
  <2>2. /\ again \subseteq w.jobs
        /\ \A j \in w.jobs : w.needs[j] \cap again # {} => j \in again
        /\ \A k \in Name : /\ old[k].st \in Done \cup {"none"}
                           /\ old[k].st = row[<<r, p.attempt>>][k].st
    BY <1>8 DEF StartInv, NeedsInv, Templates, Template, old
  <2>3. \A j \in Name : new[j].st # "none" <=> j \in w.jobs
    BY <1>5, <2>1, <2>2 DEF Pending
  <2>4. ASSUME NEW j \in Name, new[j].st \in Started, NEW k \in w.needs[j]
        PROVE  k \in w.jobs /\ k \in Name /\ k \notin again
    <3>1. k \in w.jobs /\ k \in Name
      BY <1>2, <2>1, NeedsNamed
    <3>2. CASE j \in again
      BY <1>4, <1>5, <2>4, <3>1, <3>2
    <3>3. CASE j \notin again
      <4>1. j \in w.jobs
        BY <2>3, <2>4 DEF Started, Out, Active
      <4> QED BY <2>2, <3>1, <3>3, <4>1
    <3> QED BY <3>2, <3>3
  <2>5. x[1] = r /\ x[2] > 1 /\ x[2] - 1 = p.attempt
    BY <1>3
  <2> HIDE DEF x, r, w, again
  <2>6. ASSUME NEW j \in Name, new[j].st \in Started, NEW k \in w.needs[j]
        PROVE  /\ k \in Name /\ x[2] > 1 /\ new[k].task = "none" /\ new[k].st \in Done
               /\ new[k].st = row[<<x[1], x[2] - 1>>][k].st
    <3>1. k \in w.jobs /\ k \in Name /\ k \notin again
      BY <2>4, <2>6
    <3>2. new[k].task = "none" /\ new[k].st = old[k].st
      BY <1>5, <3>1
    <3>3. old[k].st \in Done /\ old[k].st = row[<<r, p.attempt>>][k].st
      BY <2>1, <2>2, <3>1
    <3> QED BY <2>5, <3>1, <3>2, <3>3
  <2>7. SG \subseteq w.grouped
    BY DEF SG, w
  <2>8. Settled(w, SG, new)
    BY <1>5, <2>2, <2>7 DEF Settled, Done, Out, Active, Pending
  <2> QED BY <2>1, <2>3, <2>6, <2>8 DEF Newborn
<1>9. Starts_(x, rs) /\ Begins(x, new, rs)
  BY <1>1, <1>3, <1>5, <1>6, <1>7, NewAttempt, NewAttemptCalm
<1>10. /\ report' = report /\ plans' \subseteq plans /\ n = latest[r] + 1
       /\ wf' = wf /\ wf[r] = w /\ wf'[r] = w
  BY <1>3 DEF ExecRerunPlan
<1> HIDE DEF r, n, w, more
<1>11. NeedsInv'
  BY <1>1, <1>2, <1>3, <1>8, <1>9, <1>10, AddStep DEF x, StartInv
<1>12. GroupInv'
  <2>1. row' = rs /\ cut \subseteq cut'
    BY <1>1, CommitCut
  <2>2. \A j \in SG : new[j].st = "waiting"
    BY <1>5, <1>6
  <2>3. Defines(r, w)
    BY <1>10 DEF Defines
  <2>4. n = latest[r] + 1 /\ <<r, n>> \in Attempt /\ r \in Run /\ (latest[r] # 0 => wf[r] = w)
    BY <1>2, <1>3, <1>10 DEF x
  <2>5. rs \in StartInGroup([AfterRunConcurrency(r, w) EXCEPT ![<<r, n>>] = new],
                            w.group, <<r, n>>, SG)
    BY <1>1 DEF x
  <2>6. InOrder => w # None /\ Settled(w, SG, new)
    BY <1>8
  <2>7. NeedsInv /\ GroupInv
    BY DEF StartInv
  <2>8. new \in [Name -> Row] /\ SG \in SUBSET Name
    BY <1>6, <1>7
  <2> HIDE DEF x
  <2> QED BY <2>1, <2>2, <2>3, <2>4, <2>5, <2>6, <2>7, <2>8, AddGroup
<1> QED BY <1>11, <1>12 DEF StartInv

(* A step that writes no row, and has no new plan.                         *)
LEMMA QuietStep ==
  ASSUME TypeInv, StartInv, wf' = wf, latest' = latest, row' = row, plans' \subseteq plans,
         cut \subseteq cut'
  PROVE  StartInv'
<1>4. GroupInv'
  <2>1. Leads(row, row)
    BY DEF Leads
  <2> QED BY <2>1, GroupStep DEF StartInv
<1> SUFFICES ASSUME InOrder' PROVE (Placed /\ Templates /\ AllMet)'
  BY <1>4 DEF StartInv, NeedsInv
<1>1. InOrder
  BY DEF InOrder
<1>2. Keeps(row, row') /\ Advances(row, row')
  BY KeepsSelf DEF TypeInv, TypeOK, Rows, Advances, Frozen
<1> QED BY <1>1, <1>2, RowsStep DEF StartInv, NeedsInv

(* A transaction that adds no attempt (see AdvanceStep, GroupStep).        *)
LEMMA CommitStart ==
  ASSUME TypeInv, StartInv, NEW rs, NEW more, Commit(rs, latest, more), more \subseteq Marks,
         "revived" \notin more => Keeps(row, rs) /\ Advances(row, rs),
         InOrder' /\ Tidy(row) => Tidy(rs) /\ Leads(row, rs),
         wf' = wf, report' = report, plans' \subseteq plans
  PROVE  StartInv'
<1>1. NeedsInv'
  BY AdvanceStep DEF StartInv
<1>2. row' = rs /\ cut \subseteq cut'
  BY CommitCut
<1>3. GroupInv'
  BY <1>2, GroupStep DEF StartInv
<1> QED BY <1>1, <1>3 DEF StartInv

(* buildRerunPlan: the latest attempt of a run that is done is a template. *)
LEMMA PlanStart ==
  ASSUME IInv, StartInv, NEW r \in Run, NEW jobs \in SUBSET Name, BuildRerunPlan(r, jobs)
  PROVE  StartInv'
<1> DEFINE x == <<r, latest[r]>>
           p == [run |-> r, attempt |-> latest[r], jobs |-> jobs, template |-> row[x]]
<1>1. /\ plans' = plans \cup {p} /\ run[r] \in Done /\ latest[r] # 0 /\ latest[r] \in Nat
      /\ jobs \subseteq wf[r].jobs
      /\ \A j \in wf[r].jobs : wf[r].needs[j] \cap jobs # {} => j \in jobs
      /\ UNCHANGED <<wf, latest, run, row, report, cut>>
  BY ActionsRunAssumption DEF BuildRerunPlan, CanRerun, rows
<1>7. GroupInv'
  <2>1. Leads(row, row)
    BY DEF Leads
  <2> QED BY <1>1, <2>1, GroupStep DEF StartInv
<1> SUFFICES ASSUME InOrder PROVE (Placed /\ Templates /\ AllMet)'
  BY <1>1, <1>7 DEF StartInv, NeedsInv, InOrder
<1>2. Placed /\ Templates /\ AllMet
  BY DEF StartInv, NeedsInv
<1>3. Ended(row, x)
  BY <1>1 DEF IInv, Statuses, RunDone, InOrder
<1>4. Template(p)
  <2>1. p.run = r /\ p.attempt = latest[r] /\ p.jobs = jobs /\ p.template = row[x]
    OBVIOUS
  <2> HIDE DEF p
  <2>2. latest[r] <= latest[r]
    BY <1>1
  <2>3. \A k \in Name : row[x][k].st \in Done \cup {"none"}
    BY <1>3 DEF Ended
  <2> QED BY <1>1, <2>1, <2>2, <2>3 DEF Template
<1>5. \A q \in plans' : Template(q)
  BY <1>1, <1>2, <1>4 DEF Templates
<1>6. Templates'
  BY <1>1, <1>5 DEF Templates, Template
<1> QED BY <1>1, <1>2, <1>6 DEF Placed, AllMet, Met

(* UpdateTaskByState ends a job that was out.                              *)
LEMMA ReportJobStart ==
  ASSUME TypeInv, StartInv, NEW x \in Attempt, NEW j \in Name, ReportJob(x, j) PROVE StartInv'
<1> DEFINE r == x[1]
           new == [pc |-> "aggregate", att |-> x, agg |-> "none"]
<1>1. /\ row \in Rows /\ row[x][j] \in Row /\ row[x][j].task = "live" /\ r \in Run
      /\ report \in [Run -> Report]
      /\ report' = [report EXCEPT ![r] = new]
      /\ UNCHANGED <<wf, latest, run, plans, cut>>
  <2>1. r \in Run
    BY Places
  <2> QED BY <2>1 DEF ReportJob, TypeInv, TypeOK, Rows
<1>2. row[x][j].st \in Out /\ row[x][j].st \notin Done \cup {"none"}
  BY <1>1, RowFields DEF Out, Active, Done
<1>3. PICK verdict \in Done :
        row' = [row EXCEPT ![x][j].st = verdict, ![x][j].task = "done"]
  BY DEF ReportJob, Done
<1> DEFINE v == [row[x][j] EXCEPT !.st = verdict, !.task = "done"]
           f == [row[x] EXCEPT ![j] = v]
<1>4. v \in Row /\ v.st = verdict /\ verdict \in Done /\ v.grp = row[x][j].grp
  <2>1. row[x][j] \in Wide
    BY <1>1, RowFields
  <2> QED BY <1>1, <2>1, WriteBoth DEF Status, Done, Wide
<1>5. row' = [row EXCEPT ![x] = f]
  BY <1>1, <1>3 DEF Rows
<1> HIDE DEF v
<1>6. /\ f \in [Name -> Row] /\ \A k \in Name : Kept(row[x][k], f[k])
      /\ \A k \in Name : Calm(row[x][k], f[k]) /\ Tame(row[x][k], f[k])
  <2>1. /\ f \in [Name -> Row] /\ \A k \in Name : Kept(row[x][k], f[k])
        /\ \A k \in Name : Calm(row[x][k], f[k])
    BY <1>1, <1>2, <1>4 DEF Rows, Kept, Done, Calm, Frozen, Started
  <2>2. Tame(row[x][j], v) /\ \A k \in Name : f[k] = row[x][k] \/ (k = j /\ f[k] = v)
    BY <1>1, <1>2, <1>4 DEF Rows, Tame, Pending, Done, Out, Active
  <2> QED BY <2>1, <2>2 DEF Tame
<1>7. Keeps(row, row')
  BY <1>1, <1>5, <1>6, KeepsSelf, WriteKeeps
<1>8. Advances(row, row') /\ AllTame(row, row')
  <2> HIDE DEF f
  <2>1. row'[x] = f /\ \A y \in Attempt \ {x} : row'[y] = row[y]
    BY <1>1, <1>5 DEF Rows
  <2>2. AllCalm(row, row')
    BY <1>6, <2>1 DEF AllCalm, Calm, Frozen
  <2>3. AllTame(row, row')
    BY <1>6, <2>1 DEF AllTame, Tame
  <2> QED BY <2>2, <2>3, CalmAdvances
<1>12. GroupInv'
  BY <1>1, <1>8, TameLeads, TameTidy, GroupStep DEF StartInv
<1> SUFFICES ASSUME InOrder PROVE (Placed /\ Templates /\ AllMet)'
  BY <1>1, <1>12 DEF StartInv, NeedsInv, InOrder
<1> QED BY <1>1, <1>7, <1>8, RowsStep DEF StartInv, NeedsInv

(* The rest of a report writes no job.                                     *)
LEMMA ReportStart ==
  ASSUME IInv, StartInv, NEW r \in Run, Reports(r) PROVE StartInv'
<1>1. UNCHANGED <<wf, latest, row, plans>> /\ cut \subseteq cut'
  BY DEF Reports, ReportAggregate, ReportStore, ReportLoad, ReportRun, ReportRefused,
         ReportAgain, rows
<1> QED BY <1>1, QuietStep DEF IInv

(* The emitter's transaction adds no attempt, or fails and writes nothing. *)
LEMMA CheckStart ==
  ASSUME TypeInv, StartInv, NEW h \in handling, HandlerCheck(h) PROVE StartInv'
<1> DEFINE more(o1) == IF PassesOver(h.run, o1.rs) THEN {"passed"} ELSE {}
<1>1. UNCHANGED <<wf, report, plans>>
  BY DEF HandlerCheck
<1>2. PICK o1 \in CheckJobs(row, attempt, <<h.run, h.latest>>, h.blocked) :
      \E o \in CheckRunConcurrency(h.run, o1) :
         IF o.ok THEN Commit(o.rs, latest, more(o1)) ELSE UNCHANGED <<latest, rows, cut>>
  BY DEF HandlerCheck
<1>3. PICK o \in CheckRunConcurrency(h.run, o1) :
         IF o.ok THEN Commit(o.rs, latest, more(o1)) ELSE UNCHANGED <<latest, rows, cut>>
  BY <1>2
<1>4. CASE o.ok
  <2>1. Commit(o.rs, latest, more(o1))
    BY <1>3, <1>4
  <2>2. Keeps(row, o.rs) /\ Advances(row, o.rs)
    BY <1>4, CheckRunConcurrencyKeeps, CheckRunConcurrencyAdvances
  <2>3. InOrder' /\ Tidy(row) => Tidy(o.rs) /\ Leads(row, o.rs)
    <3> SUFFICES ASSUME InOrder', Tidy(row) PROVE Tidy(o.rs) /\ Leads(row, o.rs)
      OBVIOUS
    <3>1. Placed
      BY <2>1 DEF Commit, InOrder, StartInv, NeedsInv
    <3> QED BY <1>4, <3>1, CheckRunConcurrencyGroup
  <2>4. more(o1) \subseteq Marks
    BY DEF Marks
  <2> HIDE DEF more
  <2> QED BY <1>1, <2>1, <2>2, <2>3, <2>4, CommitStart
<1>5. CASE ~o.ok
  <2>1. UNCHANGED <<latest, run, row, cut>>
    BY <1>3, <1>5 DEF rows
  <2> QED BY <1>1, <2>1, QuietStep
<1> QED BY <1>4, <1>5

(* A runner that claims a job starts nothing: the job waited before.       *)
LEMMA ClaimStart ==
  ASSUME TypeInv, StartInv, NEW x \in Attempt, NEW j \in Name, ClaimJob(x, j) PROVE StartInv'
<1> DEFINE u == row[x][j]
           v == [u EXCEPT !.st = "running", !.task = "live"]
           f == [row[x] EXCEPT ![j] = v]
           rs == [row EXCEPT ![x] = f]
<1>1. row \in Rows /\ u \in Row /\ u.st = "waiting" /\ u.task = "none"
  BY DEF ClaimJob, TypeInv, TypeOK, Rows
<1>2. v \in Row /\ v.st = "running" /\ v.grp = u.grp
  <2>1. u \in Wide
    BY <1>1, RowFields
  <2> QED BY <1>1, <2>1, WriteBoth DEF Status, Active, Out, Wide
<1>3. Kept(u, v) /\ Calm(u, v) /\ Tame(u, v)
  BY <1>1, <1>2 DEF Kept, Calm, Frozen, Done, Started, Out, Tame, Pending
<1>4. Commit(rs, latest, {}) /\ UNCHANGED <<wf, report, plans>>
  BY <1>1 DEF ClaimJob, Rows
<1> HIDE DEF v
<1>5. /\ f \in [Name -> Row] /\ \A k \in Name : Kept(row[x][k], f[k])
      /\ \A k \in Name : Calm(row[x][k], f[k]) /\ Tame(row[x][k], f[k])
  BY <1>1, <1>2, <1>3 DEF Rows, Kept, Calm, Frozen, Tame
<1>6. Keeps(row, rs)
  BY <1>1, <1>5, KeepsSelf, WriteKeeps
<1> HIDE DEF f
<1>7. rs[x] = f /\ \A y \in Attempt \ {x} : rs[y] = row[y]
  BY <1>1 DEF Rows
<1> HIDE DEF rs
<1>8. Advances(row, rs) /\ AllTame(row, rs)
  <2>1. AllCalm(row, rs)
    BY <1>5, <1>7 DEF AllCalm, Calm, Frozen
  <2>2. AllTame(row, rs)
    BY <1>5, <1>7 DEF AllTame, Tame
  <2> QED BY <2>1, <2>2, CalmAdvances
<1> QED BY <1>4, <1>6, <1>8, TameLeads, TameTidy, CommitStart

(* Cancelling a run starts nothing, approving one what needs nothing.      *)
LEMMA UserStart ==
  ASSUME TypeInv, StartInv, NEW r \in Run, CancelRun(r) \/ ApproveRuns(r) PROVE StartInv'
<1>1. row \in Rows /\ wf \in [Run -> Workflow \cup {None}]
  BY DEF TypeInv, TypeOK, Rows
<1>2. CASE CancelRun(r)
  <2> DEFINE rs == CancelJobs(row, {<<r, latest[r]>>} \X Name)
  <2>1. Commit(rs, latest, {}) /\ UNCHANGED <<wf, report, plans>>
    BY <1>2 DEF CancelRun
  <2>2. Keeps(row, rs) /\ Advances(row, rs) /\ AllTame(row, rs)
    BY <1>1, CancelJobsKeeps, CancelJobsCalm, CancelJobsTame, CalmAdvances
  <2> HIDE DEF rs
  <2> QED BY <2>1, <2>2, TameLeads, TameTidy, CommitStart
<1>3. CASE ApproveRuns(r)
  <2>1. latest[r] # 0 /\ UNCHANGED <<wf, report, plans>>
    BY <1>3 DEF ApproveRuns
  <2>2. CASE wf[r] # None
    <3>1. PICK rs, more :
            /\ Commit(rs, latest, more) /\ more \subseteq Marks
            /\ "revived" \notin more => Keeps(row, rs) /\ Advances(row, rs)
            /\ "revived" \notin more /\ Tidy(row) => Tidy(rs) /\ Leads(row, rs)
      BY <1>1, <1>3, <2>2, ApproveStarts
    <3>2. InOrder' => "revived" \notin more
      BY <3>1, CommitCut DEF InOrder
    <3> QED BY <2>1, <3>1, <3>2, CommitStart
  <2>3. CASE wf[r] = None
    <3> SUFFICES ASSUME InOrder' PROVE FALSE
      BY DEF StartInv, NeedsInv, GroupInv
    <3>1. InOrder
      BY <1>3 DEF ApproveRuns, Commit, InOrder
    <3>2. <<r, latest[r]>> \in Attempt /\ latest[r] <= latest[r]
      BY <2>1, Places
    <3> DEFINE x == <<r, latest[r]>>
    <3>3. x \in Attempt /\ x[2] <= latest[x[1]] /\ x[1] = r
      BY <3>2
    <3> HIDE DEF x
    <3> QED BY <2>3, <3>1, <3>3 DEF StartInv, NeedsInv, Placed
  <2> QED BY <2>2, <2>3
<1> QED BY <1>2, <1>3

(* Every step keeps the order of needs and the groups.                     *)
LEMMA StepStart == IInv /\ StartInv /\ [Next]_vars => StartInv'
<1> SUFFICES ASSUME IInv, StartInv, [Next]_vars PROVE StartInv'
  OBVIOUS
<1>1. TypeInv
  BY DEF IInv
<1>2. ASSUME UNCHANGED <<wf, latest, row, cut>>, plans' \subseteq plans
      PROVE  StartInv'
  BY <1>1, <1>2, QuietStep
<1>3. ASSUME NEW r \in Run, Users(r) PROVE StartInv'
  BY <1>1, <1>3, InsertStart, PlanStart, UserStart DEF Users
<1>4. ASSUME NEW r \in Run, HandlerRead(r) PROVE StartInv'
  BY <1>2, <1>4 DEF HandlerRead, rows
<1>5. ASSUME NEW p \in plans, ExecRerunPlan(p) PROVE StartInv'
  BY <1>1, <1>5, RerunStart
<1>6. ASSUME NEW p \in plans, RerunRefused(p) PROVE StartInv'
  BY <1>2, <1>6 DEF RerunRefused, rows
<1>7. CASE Crash
  <2>1. UNCHANGED <<wf, latest, row>> /\ plans' \subseteq plans /\ cut \subseteq cut'
    BY <1>7 DEF Crash, rows
  <2> QED BY <1>1, <2>1, QuietStep
<1>8. CASE UNCHANGED vars
  BY <1>2, <1>8 DEF vars, rows
<1>9. ASSUME NEW x \in Attempt, NEW j \in Name, ClaimJob(x, j) \/ ReportJob(x, j) PROVE StartInv'
  BY <1>1, <1>9, ClaimStart, ReportJobStart
<1>10. ASSUME NEW h \in handling, HandlerCheck(h) PROVE StartInv'
  BY <1>1, <1>10, CheckStart
<1> QED BY <1>3, <1>4, <1>5, <1>6, <1>7, <1>8, <1>9, <1>10, ReportStart DEF Next

(* Nothing has started.                                                    *)
LEMMA InitStart == Init => StartInv
<1> SUFFICES ASSUME Init PROVE StartInv
  OBVIOUS
<1>1. /\ \A x \in Attempt, j \in Name : row[x][j].st = "none"
      /\ \A r \in Run : latest[r] = 0 /\ report[r].pc = "idle"
      /\ plans = {}
  BY DEF Init, NoRow, NoReport
<1>2. \A x \in Attempt : ~(x[2] <= latest[x[1]])
  <2>1. \A x \in Attempt : x[1] \in Run /\ x[2] \in Nat /\ x[2] # 0
    BY ActionsRunAssumption DEF Attempt
  <2> QED BY <1>1, <2>1
<1>3. Placed /\ Templates
  BY <1>1, <1>2 DEF Placed, Templates
<1>4. AllMet
  BY <1>1 DEF AllMet, Started, Out, Active
<1>5. Tidy(row) /\ Alone(row)
  BY <1>1 DEF Tidy, Unclaimed, Alone, Holds, Pending, Out, Active
<1> QED BY <1>3, <1>4, <1>5 DEF StartInv, NeedsInv, GroupInv
-----------------------------------------------------------------------------
(* No job of a workflow starts before the jobs it needs have succeeded, in *)
(* the same attempt or in one before a rerun that did not repeat them, for *)
(* any workflows, reruns and groups (Resolve of job_emitter.go, InsertRun, *)
(* execRerunPlan), unless an approval restarts jobs.                        *)
THEOREM NeedsComeFirst == Spec => []NeedsFirst
<1>1. StartInv => NeedsFirst
  BY DEF StartInv, NeedsInv, InOrder, AllMet, Met, Started, Out, NeedsFirst, PassedThrough
<1> QED BY <1>1, RunInvariant, InitStart, StepStart, PTL DEF Spec

(* A concurrency group without cancel-in-progress has at most one job on   *)
(* its way to a runner or with one, for any runs, workflows and reruns     *)
(* (shouldBlockJobByConcurrency, CancelPreviousJobsByJobConcurrency),      *)
(* unless an approval restarts jobs.                                       *)
THEOREM GroupsAreExclusive == Spec => []GroupExclusive
<1>1. StartInv => GroupExclusive
  <2> SUFFICES ASSUME Alone(row), NEW g \in Group \ InProgress,
                      NEW p \in GroupJobs(g, row, {"waiting"} \cup Active),
                      NEW q \in GroupJobs(g, row, {"waiting"} \cup Active)
               PROVE  p = q
    BY DEF StartInv, GroupInv, InOrder, GroupExclusive
  <2>1. /\ p \in Attempt \X Name /\ Holds(row, p[1], p[2], g)
        /\ q \in Attempt \X Name /\ Holds(row, q[1], q[2], g)
    BY DEF GroupJobs, Holds, Out
  <2>2. p[1] = q[1] /\ p[2] = q[2]
    BY <2>1 DEF Alone
  <2> QED BY <2>1, <2>2
<1> QED BY <1>1, RunInvariant, InitStart, StepStart, PTL DEF Spec
=============================================================================

-------------------------- MODULE ActionsEmitterProofs --------------------------
(***************************************************************************)
(* Proof that the job emitter of ActionsRun loses no wake-up.  WakeInv     *)
(* says of every run who will see to a job of it that could start: a check *)
(* of the run that is still to come, one of its own jobs that is still to  *)
(* end, an approval, or, for a job that waits for a concurrency group, a   *)
(* run that keeps the group busy and releases it when it is checked.       *)
(* The second part proves that ActionsRun implements RunContract.          *)
(***************************************************************************)
EXTENDS ActionsStartProofs

-----------------------------------------------------------------------------
(***************************************************************************)
(* Who sees to a job that could start.                                     *)
(***************************************************************************)

(* Starts and Skips of workflow w.                                         *)
StartsOf(w, rs, x) ==
  {j \in WithStatus(rs, x, {"blocked"}) : w.needs[j] \subseteq WithStatus(rs, x, {"success"})}
Skippable(w, rs, x, S) ==
  /\ S \subseteq WithStatus(rs, x, {"blocked"})
  /\ \A j \in S :
       /\ w.needs[j] \subseteq WithStatus(rs, x, Done) \cup S
       /\ w.needs[j] \cap (WithStatus(rs, x, Done \ {"success"}) \cup S) # {}

(* There is nothing to start or to skip in attempt x, unless the run has   *)
(* to be approved.                                                         *)
Quiet(w, rs, x, unapproved) ==
  /\ \A S : Skippable(w, rs, x, S) => S = {}
  /\ StartsOf(w, rs, x) \subseteq IF unapproved THEN Roots(w, w.jobs) ELSE {}

(* A job is on its way, so that a report will come; the attempt, or a job  *)
(* of it, is blocked and will be found when its group is released.         *)
Lively(rs, x) == \E j \in Name : rs[x][j].st \in Out
Stuck(w, rs, x) == w.whole \/ \E j \in Name : rs[x][j].st = "blocked" /\ rs[x][j].grp

(* A job of the group is on its way; the group is released by a check.     *)
Holder(w, rs, x) == \E j \in Name : rs[x][j].st \in Out /\ (w.whole \/ rs[x][j].grp)
Releaser(w, rs, x) == w.whole \/ \E j \in Name : rs[x][j].grp /\ rs[x][j].st \in Done
Keeper(s, g) ==
  /\ Member(s, g) /\ latest[s] # 0
  /\ \/ Holder(wf[s], row, <<s, latest[s]>>)
     \/ Awake(s) /\ Releaser(wf[s], row, <<s, latest[s]>>)
Busy(g) == \E s \in Run : Keeper(s, g)

Watched(r) ==
  LET x == <<r, latest[r]>>
  IN \/ Awake(r)
     \/ Quiet(wf[r], row, x, need[r])
     \/ wf[r].group # None /\ Lively(row, x)
     \/ Stuck(wf[r], row, x) /\ (need[r] \/ Busy(wf[r].group))

OldDone == \A x \in Attempt : x[2] < latest[x[1]] => attempt[x] \in Done
CallsLatest ==
  /\ \A h \in handling : h.latest = latest[h.run]
  /\ \A r \in Run : report[r].pc # "idle" => report[r].att[2] = latest[r]

AllWatched == \A r \in Run : latest[r] # 0 => Watched(r)

WakeInv == cut = {} => AllWatched /\ OldDone /\ CallsLatest

(* The sets agree with those of the resolver.                              *)
LEMMA QuietMeans ==
  ASSUME NEW rs, NEW x
  PROVE  /\ Starts(rs, x) = StartsOf(wf[x[1]], rs, x)
         /\ Skips(rs, x) = UNION {S \in SUBSET Name : Skippable(wf[x[1]], rs, x, S)}
         /\ \A S : Skippable(wf[x[1]], rs, x, S) => S \subseteq Skips(rs, x)
<1>1. Starts(rs, x) = StartsOf(wf[x[1]], rs, x)
  BY DEF Starts, StartsOf
<1>2. \A S : Skippable(wf[x[1]], rs, x, S) => S \in SUBSET WithStatus(rs, x, {"blocked"})
  BY DEF Skippable
<1>3. WithStatus(rs, x, {"blocked"}) \subseteq Name
  BY DEF WithStatus
<1>4. Skips(rs, x) = UNION {S \in SUBSET WithStatus(rs, x, {"blocked"}) :
                              Skippable(wf[x[1]], rs, x, S)}
  BY DEF Skips, Skippable
<1> QED BY <1>1, <1>2, <1>3, <1>4

(* Whoever is watched is not lost.                                         *)
LEMMA WatchedNotLost == ASSUME TypeInv, StartInv, WakeInv PROVE NoLostWakeup
<1> SUFFICES ASSUME cut = {}, NEW r \in Run, latest[r] # 0, ~need[r],
                    Starts(row, <<r, latest[r]>>) \cup Skips(row, <<r, latest[r]>>) # {},
                    ~Awake(r)
             PROVE  Occupied(r)
  BY DEF NoLostWakeup
<1> DEFINE x == <<r, latest[r]>>
<1>1. x[1] = r /\ latest[r] \in 1..MaxAttempt /\ wf[r] # None /\ need[r] = FALSE
  <2>1. latest[r] \in 0..MaxAttempt /\ need[r] = FALSE
    BY DEF TypeInv, TypeOK
  <2>2. latest[r] \in Nat /\ <<r, latest[r]>> \in Attempt
    BY Places
  <2>3. wf[r] # None
    BY <2>2 DEF StartInv, NeedsInv, InOrder, Placed
  <2> QED BY <2>1, <2>3, ActionsRunAssumption
<1>2. ~Quiet(wf[r], row, x, FALSE)
  <2> HIDE DEF x
  <2> SUFFICES ASSUME Quiet(wf[r], row, x, FALSE) PROVE Starts(row, x) \cup Skips(row, x) = {}
    BY DEF x
  <2> QED BY <1>1, QuietMeans DEF Quiet
<1>3. Watched(r)
  BY DEF WakeInv, AllWatched
<1>4. CASE wf[r].group # None /\ Lively(row, x)
  <2>1. PICK j \in Name : row[<<r, latest[r]>>][j].st \in {"waiting"} \cup Active
    BY <1>4 DEF Lively, Out
  <2> QED BY <1>1, <1>4, <2>1 DEF Occupied, Member
<1>5. CASE Busy(wf[r].group)
  <2>1. PICK s \in Run : Keeper(s, wf[r].group)
    BY <1>5 DEF Busy
  <2>2. latest[s] \in 1..MaxAttempt
    <3>1. latest[s] \in 0..MaxAttempt
      BY DEF TypeInv, TypeOK
    <3> QED BY <2>1, <3>1, ActionsRunAssumption DEF Keeper
  <2> QED BY <2>1, <2>2 DEF Keeper, Holder, Occupied, Out
<1> QED BY <1>1, <1>2, <1>3, <1>4, <1>5 DEF Watched
-----------------------------------------------------------------------------
(***************************************************************************)
(* What a transaction does to jobs it does not start.                      *)
(***************************************************************************)

(* A job that is left as it is, stays on its way, or is cancelled.         *)
Soft(u, v) ==
  /\ v.grp = u.grp
  /\ \/ v.st = u.st
     \/ u.st \in Out /\ v.st \in Out
     \/ u.st \in Pending \cup Active /\ v.st = "cancelled"
SoftAt(old, rs, y) == \A j \in Name : Soft(old[y][j], rs[y][j])

(* No job of attempt y is cancelled; each is left, or stays on its way.    *)
NoneCancelled(old, rs, y) ==
  \A j \in Name : old[y][j].st \in Pending \cup Active => rs[y][j].st # "cancelled"
Alike(old, rs, y) ==
  \A j \in Name : /\ rs[y][j].grp = old[y][j].grp
                  /\ rs[y][j].st = old[y][j].st \/ {rs[y][j].st, old[y][j].st} \subseteq Out

(* A job in a group stays in it, and one that holds or has left the group  *)
(* does not go back.                                                       *)
Yield(u, v) ==
  /\ u.grp => v.grp
  /\ u.st \in Done => v.st = u.st
  /\ u.st \in Out => v.st \in Out \cup {"cancelled"}
YieldAt(old, rs, y) == \A j \in Name : Yield(old[y][j], rs[y][j])

(* A job executes only if it was on its way before.                        *)
Lag(old, rs) == \A y \in Attempt, j \in Name : rs[y][j].st \in Active => old[y][j].st \in Out

(* Two transactions one after the other.                                   *)
LEMMA SoftTrans ==
  ASSUME NEW r1, NEW r2, NEW r3, NEW y, SoftAt(r1, r2, y), SoftAt(r2, r3, y)
  PROVE  SoftAt(r1, r3, y)
BY DEF SoftAt, Soft, Out, Pending, Active

(* The same for what only yields.                                          *)
LEMMA YieldTrans ==
  ASSUME NEW r1, NEW r2, NEW r3, NEW y, YieldAt(r1, r2, y), YieldAt(r2, r3, y)
  PROVE  YieldAt(r1, r3, y)
<1>1. "cancelled" \in Done
  BY DEF Done
<1> QED BY <1>1 DEF YieldAt, Yield

(* What is left or cancelled yields.                                       *)
LEMMA SoftYields == ASSUME NEW old, NEW rs, NEW y, SoftAt(old, rs, y) PROVE YieldAt(old, rs, y)
BY DEF SoftAt, Soft, YieldAt, Yield, Out, Pending, Active, Done

(* A transaction that starts nothing lets nothing execute.                 *)
LEMMA SoftLags ==
  ASSUME NEW old, NEW rs, \A y \in Attempt : SoftAt(old, rs, y) PROVE Lag(old, rs)
BY DEF SoftAt, Soft, Lag, Out, Pending, Active

(* Without a cancelled job the attempt is as it was.                       *)
LEMMA SoftAlike ==
  ASSUME NEW old, NEW rs, NEW y, SoftAt(old, rs, y), NoneCancelled(old, rs, y)
  PROVE  Alike(old, rs, y)
BY DEF SoftAt, Soft, NoneCancelled, Alike

(* Attempts with like jobs need the same wake-ups.                         *)
LEMMA AlikeSame ==
  ASSUME NEW old, NEW rs, NEW y, Alike(old, rs, y), NEW w, NEW b
  PROVE  /\ Quiet(w, old, y, b) => Quiet(w, rs, y, b)
         /\ Lively(old, y) => Lively(rs, y)
         /\ Stuck(w, old, y) => Stuck(w, rs, y)
<1>1. "blocked" \notin Out /\ Done \cap Out = {} /\ "success" \in Done
  BY DEF Out, Active, Done
<1>2. \A S : S \cap Out = {} => WithStatus(rs, y, S) = WithStatus(old, y, S)
  BY DEF Alike, WithStatus
<1>3. /\ WithStatus(rs, y, {"blocked"}) = WithStatus(old, y, {"blocked"})
      /\ WithStatus(rs, y, {"success"}) = WithStatus(old, y, {"success"})
      /\ WithStatus(rs, y, Done) = WithStatus(old, y, Done)
      /\ WithStatus(rs, y, Done \ {"success"}) = WithStatus(old, y, Done \ {"success"})
  <2>1. {"blocked"} \cap Out = {} /\ {"success"} \cap Out = {} /\ (Done \ {"success"}) \cap Out = {}
    BY <1>1
  <2> QED BY <1>1, <1>2, <2>1
<1>4. \A S : Skippable(w, rs, y, S) <=> Skippable(w, old, y, S)
  BY <1>3 DEF Skippable
<1>5. StartsOf(w, rs, y) = StartsOf(w, old, y)
  BY <1>3 DEF StartsOf
<1> QED BY <1>1, <1>4, <1>5 DEF Quiet, Lively, Stuck, Alike

(* Cancelling a job; and those of other attempts.                          *)
LEMMA CancelledSoft == ASSUME NEW x, NEW u \in Row PROVE Soft(u, Cancelled(x, u))
<1>1. CASE u.st \notin Pending \cup Active \/ u.task = "done"
  BY <1>1 DEF Cancelled, Soft
<1>2. CASE u.st \in Pending \cup Active /\ u.task # "done"
  <2>2. u.task \in {"none", "live"} /\ u \in Wide /\ (u.task = "live" => u.st \in Out)
    BY <1>2, RowFields DEF Wide
  <2>3. CASE u.task = "none"
    <3>1. Cancelled(x, u).st = "cancelled" /\ Cancelled(x, u).grp = u.grp
      BY <1>2, <2>2, <2>3 DEF Cancelled, Wide
    <3> QED BY <1>2, <3>1 DEF Soft
  <2>4. CASE u.task = "live"
    <3>1. Cancelled(x, u).st \in {"cancelled", "cancelling"} /\ Cancelled(x, u).grp = u.grp
      BY <1>2, <2>2, <2>4 DEF Cancelled, Wide
    <3> QED BY <1>2, <2>2, <2>4, <3>1 DEF Soft, Out, Active
  <2> QED BY <2>2, <2>3, <2>4
<1> QED BY <1>1, <1>2

(* The same for all jobs that a transaction cancels (CancelJobs).          *)
LEMMA CancelJobsSoft ==
  ASSUME NEW rs \in Rows, NEW V PROVE \A y \in Attempt : SoftAt(rs, CancelJobs(rs, V), y)
<1> SUFFICES ASSUME NEW y \in Attempt, NEW j \in Name
             PROVE  Soft(rs[y][j], IF <<y, j>> \in V THEN Cancelled(y, rs[y][j]) ELSE rs[y][j])
  BY DEF SoftAt, CancelJobs
<1>1. rs[y][j] \in Row /\ Soft(rs[y][j], rs[y][j])
  BY DEF Rows, Soft
<1> QED BY <1>1, CancelledSoft
-----------------------------------------------------------------------------
(***************************************************************************)
(* The resolver leaves nothing to do, or a job that its group holds back.  *)
(***************************************************************************)

(* The jobs that are skipped are skipped together.                         *)
LEMMA SkipsSkippable ==
  ASSUME NEW rs, NEW x
  PROVE  Skippable(wf[x[1]], rs, x, Skips(rs, x))
<1> DEFINE w == wf[x[1]]
           All == {S \in SUBSET Name : Skippable(w, rs, x, S)}
<1>1. Skips(rs, x) = UNION All
  BY QuietMeans
<1>2. \A S \in All : S \subseteq WithStatus(rs, x, {"blocked"}) /\ S \subseteq UNION All
  BY DEF Skippable
<1>3. \A S \in All : \A j \in S :
        /\ w.needs[j] \subseteq WithStatus(rs, x, Done) \cup S
        /\ w.needs[j] \cap (WithStatus(rs, x, Done \ {"success"}) \cup S) # {}
  BY DEF Skippable
<1> HIDE DEF All, w
<1>4. UNION All \subseteq WithStatus(rs, x, {"blocked"})
  BY <1>2
<1>5. ASSUME NEW j \in UNION All
      PROVE  /\ w.needs[j] \subseteq WithStatus(rs, x, Done) \cup UNION All
             /\ w.needs[j] \cap (WithStatus(rs, x, Done \ {"success"}) \cup UNION All) # {}
  <2>1. PICK S \in All : j \in S
    OBVIOUS
  <2>2. S \subseteq UNION All
    BY <1>2
  <2>3. /\ w.needs[j] \subseteq WithStatus(rs, x, Done) \cup S
        /\ w.needs[j] \cap (WithStatus(rs, x, Done \ {"success"}) \cup S) # {}
    BY <1>3, <2>1
  <2> DEFINE U == UNION All
  <2> HIDE DEF U
  <2>4. /\ w.needs[j] \subseteq WithStatus(rs, x, Done) \cup U
        /\ w.needs[j] \cap (WithStatus(rs, x, Done \ {"success"}) \cup U) # {}
    BY <2>2, <2>3 DEF U
  <2> QED BY <2>4 DEF U
<1> QED BY <1>1, <1>4, <1>5 DEF Skippable, w

(* A job that may start is not skipped.                                    *)
LEMMA StartsNotSkipped == ASSUME NEW rs, NEW x PROVE Starts(rs, x) \cap Skips(rs, x) = {}
<1> SUFFICES ASSUME NEW j \in Starts(rs, x), j \in Skips(rs, x) PROVE FALSE
  OBVIOUS
<1>1. wf[x[1]].needs[j] \subseteq WithStatus(rs, x, {"success"})
  BY DEF Starts
<1>2. PICK k \in wf[x[1]].needs[j] :
        k \in WithStatus(rs, x, Done \ {"success"}) \cup Skips(rs, x)
  BY SkipsSkippable DEF Skippable
<1>3. k \in WithStatus(rs, x, (Done \ {"success"}) \cup {"blocked"})
  BY <1>2, SkipsSkippable DEF Skippable, WithStatus
<1> QED BY <1>1, <1>2, <1>3 DEF WithStatus

(* Where the resolver starts and skips jobs, there is nothing left to do:  *)
(* success is not added, and what is done was done or is skipped.          *)
LEMMA ResolvedQuiet ==
  ASSUME NEW rs, NEW new, NEW x,
         \A j \in Name : new[x][j].st = "success" => rs[x][j].st = "success",
         \A j \in Name : new[x][j].st \in Done =>
           new[x][j].st = rs[x][j].st \/ (new[x][j].st # "success" /\ j \in Skips(rs, x)),
         \A j \in Name : new[x][j].st = "blocked" =>
           rs[x][j].st = "blocked" /\ j \notin Starts(rs, x) \cup Skips(rs, x)
  PROVE  Quiet(wf[x[1]], new, x, FALSE)
<1> DEFINE w == wf[x[1]]
           skips == Skips(rs, x)
<1>1. StartsOf(w, new, x) = {}
  <2> SUFFICES ASSUME NEW j \in StartsOf(w, new, x) PROVE FALSE
    OBVIOUS
  <2>1. j \in Name /\ new[x][j].st = "blocked"
    BY DEF StartsOf, WithStatus
  <2>2. w.needs[j] \subseteq WithStatus(new, x, {"success"})
    BY DEF StartsOf
  <2>3. WithStatus(new, x, {"success"}) \subseteq WithStatus(rs, x, {"success"})
    BY DEF WithStatus
  <2>4. j \in Starts(rs, x)
    BY <2>1, <2>2, <2>3 DEF Starts, WithStatus
  <2> QED BY <2>1, <2>4
<1>2. ASSUME NEW S, Skippable(w, new, x, S) PROVE S = {}
  <2> DEFINE T == S \cup skips
  <2>1. /\ WithStatus(new, x, {"blocked"}) \subseteq WithStatus(rs, x, {"blocked"}) \ skips
        /\ WithStatus(new, x, Done) \subseteq WithStatus(rs, x, Done) \cup skips
    BY DEF WithStatus
  <2>6. WithStatus(new, x, Done \ {"success"}) \subseteq WithStatus(rs, x, Done \ {"success"}) \cup skips
    BY DEF WithStatus
  <2>2. Skippable(w, rs, x, skips)
    BY SkipsSkippable
  <2> HIDE DEF skips, w
  <2>3. /\ S \subseteq WithStatus(new, x, {"blocked"})
        /\ \A j \in S : w.needs[j] \subseteq WithStatus(new, x, Done) \cup S
        /\ \A j \in S : w.needs[j] \cap (WithStatus(new, x, Done \ {"success"}) \cup S) # {}
    BY <1>2 DEF Skippable
  <2>7. /\ skips \subseteq WithStatus(rs, x, {"blocked"})
        /\ \A j \in skips : w.needs[j] \subseteq WithStatus(rs, x, Done) \cup skips
        /\ \A j \in skips : w.needs[j] \cap (WithStatus(rs, x, Done \ {"success"}) \cup skips) # {}
    BY <2>2 DEF Skippable
  <2>8. T \subseteq WithStatus(rs, x, {"blocked"})
    BY <2>1, <2>3, <2>7
  <2>9. \A j \in T : w.needs[j] \subseteq WithStatus(rs, x, Done) \cup T
    BY <2>1, <2>3, <2>7
  <2>10. \A j \in T : w.needs[j] \cap (WithStatus(rs, x, Done \ {"success"}) \cup T) # {}
    BY <2>3, <2>6, <2>7
  <2>4. Skippable(w, rs, x, T)
    BY <2>8, <2>9, <2>10 DEF Skippable
  <2>5. T \subseteq skips
    BY <2>4, QuietMeans DEF skips, w
  <2> QED BY <2>1, <2>3, <2>5
<1> QED BY <1>1, <1>2 DEF Quiet

(* What a check leaves of an attempt: nothing to do, or a job whose group  *)
(* is held.                                                                *)
Settles(rs, atts, x, new) ==
  LET w == wf[x[1]]
  IN NoneCancelled(rs, new, x) =>
       \/ Quiet(w, new, x, FALSE)
       \/ w.group # None /\ ShouldBlock(w.group, rs, atts) /\ Stuck(w, new, x)
Checks(rs, atts, x, new) ==
  /\ \A y \in Attempt \ {x} : SoftAt(rs, new, y)
  /\ YieldAt(rs, new, x) /\ Lag(rs, new) /\ Settles(rs, atts, x, new)

(* Resolve settles its attempt, and only cancels jobs of others.           *)
LEMMA ResolveChecks ==
  ASSUME NEW rs \in Rows, NEW atts, NEW x \in Attempt, wf[x[1]] \in Workflow,
         NEW o \in Resolve(rs, atts, x), o.ok
  PROVE  Checks(rs, atts, x, o.rs)
<1> DEFINE w == wf[x[1]]
           starts == Starts(rs, x)
           skips == Skips(rs, x)
           mine == starts \cap w.grouped
           skipped == skips \cap w.grouped
           blocked == ShouldBlock(w.group, rs, atts)
           others == IF mine = {} THEN {}
                     ELSE Previous(w.group, rs, atts, {x}) \ ({x} \X (starts \cup skips))
           c == CancelJobs(rs, others)
           st(kept, j) == IF j \in skips THEN "skipped"
                          ELSE IF j \in mine /\ blocked
                          THEN IF j \in kept THEN c[x][j].st ELSE "cancelled"
                          ELSE IF j \in starts THEN "waiting" ELSE c[x][j].st
           f(kept) == [j \in Name |->
              [c[x][j] EXCEPT !.st = st(kept, j), !.grp = @ \/ j \in mine \cup skipped]]
           result(kept) == [ok |-> TRUE, rs |-> [c EXCEPT ![x] = f(kept)]]
<1>1. o = Failed \/ \E kept : o = result(kept)
  <2> SUFFICES o \in {Failed, result(mine), result({})}
                    \cup {result({j \in {last} : ~rs[x][j].grp}) : last \in mine}
    OBVIOUS
  <2> HIDE DEF f
  <2> QED BY DEF Resolve, f
<1>0. Failed.ok = FALSE
  BY DEF Failed
<1> HIDE DEF result
<1>2. PICK kept : o = result(kept)
  BY <1>0, <1>1
<1>3. /\ \A y \in Attempt : SoftAt(rs, c, y)
      /\ \A y \in Attempt, j \in Name : <<y, j>> \notin others => c[y][j] = rs[y][j]
      /\ Keeps(rs, c)
  BY CancelJobsSoft, CancelJobsTame, CancelJobsKeeps
<1>4. \A j \in starts \cup skips : j \in Name /\ rs[x][j].st = "blocked"
  BY DEF Starts, Skips, WithStatus
<1>5. mine \subseteq starts /\ mine \subseteq w.grouped
  OBVIOUS
<1>16. starts \cap skips = {}
  BY StartsNotSkipped
<1>6. \A j \in Name : j \in starts \cup skips => c[x][j] = rs[x][j]
  <2>1. \A j \in Name : j \in starts \cup skips => <<x, j>> \notin others
    OBVIOUS
  <2> QED BY <1>3, <2>1
<1> HIDE DEF starts, skips, mine, skipped, blocked, c
<1>7. o.rs = [c EXCEPT ![x] = f(kept)] /\ c \in Rows
  <2> HIDE DEF f
  <2> QED BY <1>2, <1>3 DEF Keeps, result
<1>8. ASSUME NEW j \in Name
      PROVE  /\ o.rs[x][j].st = st(kept, j)
             /\ o.rs[x][j].grp = (c[x][j].grp \/ j \in mine \cup skipped)
  <2>0. c[x][j] \in Row
    BY <1>7 DEF Rows
  <2>1. c[x][j] \in Wide
    BY <2>0, RowFields
  <2> DEFINE g == c[x][j].grp \/ j \in mine \cup skipped
  <2>2. f(kept)[j] = [c[x][j] EXCEPT !.st = st(kept, j), !.grp = g]
    OBVIOUS
  <2> HIDE DEF f, g, st
  <2>3. o.rs[x] = f(kept)
    BY <1>7 DEF Rows
  <2>4. f(kept)[j].st = st(kept, j) /\ f(kept)[j].grp = g
    BY <2>1, <2>2 DEF Wide
  <2> QED BY <2>3, <2>4 DEF g
<1>9. ASSUME NEW j \in Name
      PROVE  \/ j \in skips /\ o.rs[x][j].st = "skipped"
             \/ j \in mine /\ blocked /\ o.rs[x][j].st = rs[x][j].st /\ o.rs[x][j].grp
             \/ j \in mine /\ blocked /\ o.rs[x][j].st = "cancelled"
             \/ j \in starts /\ ~(j \in mine /\ blocked) /\ o.rs[x][j].st = "waiting"
             \/ j \notin starts \cup skips /\ o.rs[x][j].st = c[x][j].st
  BY <1>5, <1>6, <1>8
<1>10. \A j \in Name : Soft(rs[x][j], c[x][j])
  BY <1>3 DEF SoftAt
<1> HIDE DEF st, f
<1>11. \A y \in Attempt \ {x} : o.rs[y] = c[y]
  BY <1>7 DEF Rows
<1>12. \A y \in Attempt \ {x} : SoftAt(rs, o.rs, y)
  BY <1>3, <1>11 DEF SoftAt
<1>13. YieldAt(rs, o.rs, x)
  <2> SUFFICES ASSUME NEW j \in Name PROVE Yield(rs[x][j], o.rs[x][j])
    BY DEF YieldAt
  <2>1. rs[x][j].grp => o.rs[x][j].grp
    BY <1>8, <1>10 DEF Soft
  <2>2. "blocked" \notin Done /\ "blocked" \notin Out
    BY DEF Done, Out, Active
  <2>3. CASE j \in starts \cup skips
    BY <1>4, <2>1, <2>2, <2>3 DEF Yield
  <2>4. CASE j \notin starts \cup skips
    <3>1. o.rs[x][j].st = c[x][j].st
      BY <1>5, <1>9, <2>4
    <3>2. Yield(rs[x][j], c[x][j])
      <4>1. YieldAt(rs, c, x)
        BY <1>3, SoftYields
      <4> QED BY <4>1 DEF YieldAt
    <3> QED BY <2>1, <3>1, <3>2 DEF Yield
  <2> QED BY <2>3, <2>4
<1>14. Lag(rs, o.rs)
  <2> SUFFICES ASSUME NEW y \in Attempt, NEW j \in Name, o.rs[y][j].st \in Active
               PROVE  rs[y][j].st \in Out
    BY DEF Lag
  <2>1. Lag(rs, c)
    BY <1>3, SoftLags
  <2>2. CASE y # x
    BY <1>11, <2>1, <2>2 DEF Lag
  <2>3. CASE y = x
    <3>1. o.rs[x][j].st = c[x][j].st
      BY <1>4, <1>5, <1>9, <2>3 DEF Active
    <3> QED BY <2>1, <2>3, <3>1 DEF Lag
  <2> QED BY <2>2, <2>3
<1>15. ASSUME NoneCancelled(rs, o.rs, x)
       PROVE  \/ Quiet(w, o.rs, x, FALSE)
              \/ w.group # None /\ ShouldBlock(w.group, rs, atts) /\ Stuck(w, o.rs, x)
  <2>1. ASSUME NEW j \in Name PROVE ~(j \in mine /\ blocked /\ o.rs[x][j].st = "cancelled")
    <3>1. j \in mine => rs[x][j].st \in Pending
      BY <1>4, <1>5 DEF Pending
    <3> QED BY <1>15, <3>1 DEF NoneCancelled
  <2>2. CASE blocked /\ mine # {}
    <3>1. PICK j \in mine : j \in Name
      BY <1>4, <1>5, <2>2
    <3>2. o.rs[x][j].st = "blocked" /\ o.rs[x][j].grp
      <4>0. rs[x][j].st = "blocked"
        BY <1>4, <1>5, <3>1
      <4>1. ~(j \in skips /\ o.rs[x][j].st = "skipped")
        <5>1. j \in starts
          BY <1>5, <3>1
        <5> QED BY <1>16, <5>1
      <4> QED BY <1>5, <1>9, <2>1, <2>2, <3>1, <4>0, <4>1
    <3>3. w.group # None
      <4>1. w.grouped # {}
        BY <1>5, <3>1
      <4> QED BY <4>1, ActionsRunAssumption
    <3> QED BY <2>2, <3>1, <3>2, <3>3 DEF Stuck, blocked
  <2>3. CASE ~(blocked /\ mine # {})
    <3>1. ASSUME NEW j \in Name
          PROVE  \/ j \in skips /\ o.rs[x][j].st = "skipped"
                 \/ j \in starts /\ o.rs[x][j].st = "waiting"
                 \/ j \notin starts \cup skips /\ \/ o.rs[x][j].st = rs[x][j].st
                                                  \/ o.rs[x][j].st \in Out
      <4>1. CASE j \notin starts \cup skips
        <5>1. o.rs[x][j].st = c[x][j].st
          BY <1>5, <1>9, <4>1
        <5> QED BY <1>10, <1>15, <4>1, <5>1 DEF Soft, NoneCancelled
      <4> QED BY <1>9, <2>3, <4>1
    <3>2. /\ "skipped" \in Done /\ "success" \in Done /\ "waiting" \in Out
          /\ Out \cap (Done \cup {"blocked"}) = {}
      BY DEF Done, Out, Active
    <3>3. \A j \in Name : o.rs[x][j].st = "success" => rs[x][j].st = "success"
      BY <3>1, <3>2
    <3>4. \A j \in Name : o.rs[x][j].st \in Done =>
            o.rs[x][j].st = rs[x][j].st \/ (o.rs[x][j].st # "success" /\ j \in skips)
      BY <3>1, <3>2
    <3>5. \A j \in Name : o.rs[x][j].st = "blocked" =>
            rs[x][j].st = "blocked" /\ j \notin starts \cup skips
      BY <3>1, <3>2
    <3> QED BY <3>3, <3>4, <3>5, ResolvedQuiet DEF starts, skips
  <2> QED BY <2>2, <2>3
<1> QED BY <1>12, <1>13, <1>14, <1>15 DEF Checks, Settles

(* So does the check of one attempt: a run that is blocked as a whole may  *)
(* be left as it is (checkJobsOfCurrentRunAttempt).                        *)
LEMMA CheckJobsChecks ==
  ASSUME NEW rs \in Rows, NEW atts, NEW x \in Attempt, wf[x[1]] \in Workflow, NEW blocked,
         NEW o \in CheckJobs(rs, atts, x, blocked), o.ok
  PROVE  Checks(rs, atts, x, o.rs)
<1> DEFINE w == wf[x[1]]
<1>1. \/ o \in Resolve(rs, atts, x)
      \/ /\ o = [ok |-> TRUE, rs |-> rs]
         /\ w.whole /\ ShouldBlock(w.group, rs, atts)
  BY DEF CheckJobs
<1>2. CASE o = [ok |-> TRUE, rs |-> rs] /\ w.whole /\ ShouldBlock(w.group, rs, atts)
  <2>1. o.rs = rs
    BY <1>2
  <2>2. w.group # None
    BY <1>2, ActionsRunAssumption
  <2>3. \A y \in Attempt : SoftAt(rs, rs, y)
    BY DEF SoftAt, Soft
  <2>4. YieldAt(rs, rs, x) /\ Lag(rs, rs)
    BY <2>3, SoftYields, SoftLags
  <2> QED BY <1>2, <2>1, <2>2, <2>3, <2>4 DEF Checks, Settles, Stuck
<1> QED BY <1>1, <1>2, ResolveChecks
-----------------------------------------------------------------------------
(***************************************************************************)
(* Who blocks a group will see to those who wait for it.                   *)
(***************************************************************************)

(* Of an attempt that executes a job is on its way.                        *)
LEMMA ActiveJob ==
  ASSUME NEW rs, NEW y, AggregateJobStatus(JobStatuses(rs, y)) \in Active
  PROVE  \E j \in Name : rs[y][j].st \in Active
<1>1. AggregateJobStatus(JobStatuses(rs, y)) \in JobStatuses(rs, y)
  BY DEF AggregateJobStatus, Active
<1> QED BY <1>1 DEF JobStatuses

(* In a group that is not free a run executes, in its latest attempt: the  *)
(* run has a job on its way, or is reporting.                              *)
Blocker(s, g, rs) ==
  /\ latest[s] # 0 /\ Member(s, g)
  /\ \/ wf[s].whole /\ report[s].pc # "idle"
     \/ \E j \in Name : /\ row[<<s, latest[s]>>][j].st \in Out
                        /\ wf[s].whole \/ rs[<<s, latest[s]>>][j].grp

(* A group that holds someone back has such a run: an attempt that is not  *)
(* done is the latest of its run, and its status that of its jobs.         *)
LEMMA BlockedBySomeone ==
  ASSUME IInv, cut = {}, OldDone, NEW g, g # None, NEW rs, Lag(row, rs),
         ShouldBlock(g, rs, AttemptsWith(rs))
  PROVE  \E s \in Run : Blocker(s, g, rs)
<1>1. TypeInv /\ OneAttemptAlive /\ StatusAgrees
  BY DEF IInv, Statuses
<1>2. ASSUME NEW y \in Attempt, NEW j \in Name, row[y][j].st \in Out
      PROVE  y[1] \in Run /\ y = <<y[1], latest[y[1]]>> /\ latest[y[1]] # 0
  <2>1. /\ y = <<y[1], y[2]>> /\ y[1] \in Run /\ y[2] \in Nat /\ y[2] # 0
        /\ (row[y][j].st # "none" => y[2] <= latest[y[1]])
    BY <1>1, Places
  <2>2. latest[y[1]] \in Nat
    BY <1>1, <2>1, Places
  <2>3. row[y][j].st \notin Done \cup {"none"}
    BY <1>2 DEF Out, Active, Done
  <2>4. ~(y[2] < latest[y[1]])
    BY <1>1, <2>3 DEF OneAttemptAlive
  <2>5. y[2] = latest[y[1]]
    BY <2>1, <2>2, <2>3, <2>4
  <2> QED BY <2>1, <2>5
<1>3. ASSUME NEW y \in Attempt, NEW j \in Name, rs[y][j].st \in Active,
             GroupOf(y) = g, wf[y[1]].whole \/ rs[y][j].grp
      PROVE  \E s \in Run : Blocker(s, g, rs)
  <2>1. row[y][j].st \in Out
    BY <1>3 DEF Lag
  <2>2. y[1] \in Run /\ y = <<y[1], latest[y[1]]>> /\ latest[y[1]] # 0
    BY <1>2, <2>1
  <2>3. Member(y[1], g)
    BY <1>3 DEF GroupOf, Member
  <2>4. Blocker(y[1], g, rs)
    <3> DEFINE s == y[1]
    <3>1. y = <<s, latest[s]>>
      BY <2>2
    <3> HIDE DEF s
    <3>2. row[<<s, latest[s]>>][j].st \in Out /\ (wf[s].whole \/ rs[<<s, latest[s]>>][j].grp)
      BY <1>3, <2>1, <3>1 DEF s
    <3>3. Blocker(s, g, rs)
      BY <2>2, <2>3, <3>2 DEF Blocker, s
    <3> QED BY <3>3 DEF s
  <2> QED BY <2>2, <2>4
<1>4. CASE GroupJobs(g, rs, Active) # {}
  <2>1. PICK p \in GroupJobs(g, rs, Active) : TRUE
    BY <1>4
  <2>2. /\ p[1] \in Attempt /\ p[2] \in Name /\ rs[p[1]][p[2]].grp
        /\ rs[p[1]][p[2]].st \in Active /\ GroupOf(p[1]) = g
    BY DEF GroupJobs
  <2> QED BY <1>3, <2>2
<1>5. CASE GroupAttempts(g, AttemptsWith(rs), Active) # {}
  <2>1. PICK y \in Attempt : AttemptsWith(rs)[y] \in Active /\ InGroup(y, g)
    BY <1>5 DEF GroupAttempts
  <2>2. GroupOf(y) = g /\ wf[y[1]].whole /\ Member(y[1], g)
    BY <2>1 DEF InGroup, GroupOf, Member
  <2>3. CASE ~SameJobs(rs, y)
    <3>1. AggregateJobStatus(JobStatuses(rs, y)) \in Active
      BY <2>1, <2>3 DEF AttemptsWith
    <3>2. PICK j \in Name : rs[y][j].st \in Active
      BY <3>1, ActiveJob
    <3> QED BY <1>3, <2>2, <3>2
  <2>4. CASE SameJobs(rs, y)
    <3>1. attempt[y] \in Active
      BY <2>1, <2>4 DEF AttemptsWith
    <3>2. attempt[y] # "none" /\ attempt[y] \notin Done
      BY <3>1 DEF Active, Done
    <3>3. y[1] \in Run /\ y = <<y[1], latest[y[1]]>> /\ latest[y[1]] # 0
      <4>1. y = <<y[1], y[2]>> /\ y[1] \in Run /\ y[2] \in Nat /\ y[2] # 0
        BY <1>1, Places
      <4>2. latest[y[1]] \in Nat
        BY <1>1, <4>1, Places
      <4>3. ~(y[2] > latest[y[1]]) /\ ~(y[2] < latest[y[1]])
        BY <1>1, <3>2 DEF TypeInv, Inserted, OldDone
      <4>4. y[2] = latest[y[1]]
        BY <4>1, <4>2, <4>3
      <4> QED BY <4>1, <4>4
    <3>4. CASE report[y[1]].pc # "idle"
      BY <2>2, <3>3, <3>4 DEF Blocker
    <3>5. CASE report[y[1]].pc = "idle"
      <4> DEFINE s == y[1]
      <4>0. s \in Run /\ y = <<s, latest[s]>> /\ latest[s] # 0 /\ report[s].pc = "idle"
        BY <3>3, <3>5
      <4>1. attempt[y] = AggregateJobStatus(JobStatuses(row, y))
        <5> HIDE DEF s
        <5> QED BY <1>1, <4>0 DEF StatusAgrees
      <4>2. PICK j \in Name : row[y][j].st \in Active
        BY <3>1, <4>1, ActiveJob
      <4>3. row[y][j].st \in Out
        BY <4>2 DEF Out
      <4> HIDE DEF s
      <4>4. Blocker(s, g, rs)
        BY <2>2, <4>0, <4>3 DEF Blocker, s
      <4> QED BY <4>0, <4>4
    <3> QED BY <3>4, <3>5
  <2> QED BY <2>3, <2>4
<1> QED BY <1>4, <1>5 DEF ShouldBlock

(* The same in the tables as they are.                                     *)
LEMMA SameRowsSame == ASSUME TypeOK PROVE AttemptsWith(row) = attempt /\ Lag(row, row)
BY DEF AttemptsWith, SameJobs, TypeOK, Lag, Out

(* A step after which such a run still has its job on its way, or is awake *)
(* since the job was cancelled: someone will release the group.            *)
LEMMA BlockerKeeps ==
  ASSUME NEW s \in Run, NEW g, NEW rs, Blocker(s, g, rs), report'[s] = report[s],
         latest'[s] = latest[s], wf'[s] = wf[s],
         \A j \in Name : LET y == <<s, latest[s]>>
                         IN /\ rs[y][j].grp => row'[y][j].grp
                            /\ row[y][j].st \in Out =>
                                 row'[y][j].st \in Out \/ (row'[y][j].st = "cancelled" /\ Awake(s)')
  PROVE  Keeper(s, g)'
<1> DEFINE y == <<s, latest[s]>>
<1>1. latest'[s] # 0 /\ Member(s, g)' /\ <<s, latest'[s]>> = y
  BY DEF Blocker, Member
<1>2. CASE wf[s].whole /\ report[s].pc # "idle"
  BY <1>1, <1>2 DEF Keeper, Awake, Releaser
<1>3. CASE \E j \in Name : row[y][j].st \in Out /\ (wf[s].whole \/ rs[y][j].grp)
  <2>1. PICK j \in Name : row[y][j].st \in Out /\ (wf[s].whole \/ rs[y][j].grp)
    BY <1>3
  <2>2. wf'[s].whole \/ row'[y][j].grp
    BY <2>1
  <2>3. row'[y][j].st \in Out \/ (row'[y][j].st = "cancelled" /\ Awake(s)')
    BY <2>1
  <2> HIDE DEF y
  <2>4. "cancelled" \in Done
    BY DEF Done
  <2> QED BY <1>1, <2>2, <2>3, <2>4 DEF Keeper, Holder, Releaser
<1> QED BY <1>2, <1>3 DEF Blocker
-----------------------------------------------------------------------------
(***************************************************************************)
(* What keeps a run watched.                                               *)
(***************************************************************************)

(* A job in the group stays in it; one that leaves the group leaves its    *)
(* run awake.                                                              *)
Hands(u, v, awake) ==
  /\ u.grp => v.grp
  /\ u.st \in Done => v.st \in Done
  /\ u.st \in Out => v.st \in Out \/ (v.st \in Done /\ awake)

(* Who holds the group keeps it, or is awake and will release it.          *)
LEMMA HolderKeeps ==
  ASSUME NEW s \in Run, NEW g, Keeper(s, g), latest'[s] = latest[s], wf'[s] = wf[s],
         Holder(wf[s], row, <<s, latest[s]>>),
         \A j \in Name : Hands(row[<<s, latest[s]>>][j], row'[<<s, latest[s]>>][j], Awake(s)')
  PROVE  Keeper(s, g)'
<1> DEFINE y == <<s, latest[s]>>
<1>1. latest'[s] # 0 /\ Member(s, g)' /\ <<s, latest'[s]>> = y
  BY DEF Keeper, Member
<1>2. PICK j \in Name : row[y][j].st \in Out /\ (wf[s].whole \/ row[y][j].grp)
  BY DEF Holder
<1>3. wf'[s].whole \/ row'[y][j].grp
  BY <1>2 DEF Hands
<1>4. row'[y][j].st \in Out \/ (row'[y][j].st \in Done /\ Awake(s)')
  BY <1>2 DEF Hands
<1> HIDE DEF y
<1> QED BY <1>1, <1>3, <1>4 DEF Keeper, Holder, Releaser

(* A run that holds the group, or is to release it, still does.            *)
LEMMA KeeperKeeps ==
  ASSUME NEW s \in Run, NEW g, Keeper(s, g), latest'[s] = latest[s], wf'[s] = wf[s],
         Awake(s) => Awake(s)',
         \A j \in Name : Hands(row[<<s, latest[s]>>][j], row'[<<s, latest[s]>>][j], Awake(s)')
  PROVE  Keeper(s, g)'
<1> DEFINE y == <<s, latest[s]>>
<1>1. CASE Holder(wf[s], row, y)
  BY <1>1, HolderKeeps
<1>2. CASE Awake(s) /\ Releaser(wf[s], row, y)
  <2>1. Releaser(wf'[s], row', y)
    BY <1>2 DEF Hands, Releaser
  <2>2. latest'[s] # 0 /\ Member(s, g)' /\ <<s, latest'[s]>> = y
    BY DEF Keeper, Member
  <2> QED BY <1>2, <2>1, <2>2 DEF Keeper
<1> QED BY <1>1, <1>2 DEF Keeper

(* What a soft step, or a resolver, hands on.                              *)
LEMMA YieldHands ==
  ASSUME NEW s, NEW y, YieldAt(row, row', y), ~Awake(s)' => NoneCancelled(row, row', y)
  PROVE  \A j \in Name : Hands(row[y][j], row'[y][j], Awake(s)')
<1> SUFFICES ASSUME NEW j \in Name PROVE Hands(row[y][j], row'[y][j], Awake(s)')
  OBVIOUS
<1>1. Yield(row[y][j], row'[y][j]) /\ "cancelled" \in Done
  BY DEF YieldAt, Done
<1>2. row[y][j].st \in Out => row[y][j].st \in Pending \cup Active
  BY DEF Out, Pending
<1>3. row[y][j].st \in Out /\ row'[y][j].st = "cancelled" => Awake(s)'
  BY <1>2 DEF NoneCancelled
<1> QED BY <1>1, <1>3 DEF Hands, Yield

(* A run that nothing happens to stays watched, if its group stays busy.   *)
LEMMA StaysWatched ==
  ASSUME NEW r \in Run, Watched(r), Awake(r) => Awake(r)',
         latest'[r] = latest[r], wf'[r] = wf[r], need'[r] = need[r],
         ~Awake(r)' => /\ Alike(row, row', <<r, latest[r]>>)
                       /\ \A g : g = wf[r].group /\ Stuck(wf[r], row, <<r, latest[r]>>)
                                 /\ Busy(g) => Busy(g)'
  PROVE  Watched(r)'
<1> SUFFICES ASSUME ~Awake(r)' PROVE Watched(r)'
  BY DEF Watched
<1> DEFINE x == <<r, latest[r]>>
           g == wf[r].group
<1>1. Alike(row, row', x)
  OBVIOUS
<1>2. CASE Quiet(wf[r], row, x, need[r])
  <2>1. Quiet(wf[r], row', x, need[r])
    BY <1>1, <1>2, AlikeSame
  <2> QED BY <2>1 DEF Watched
<1>3. CASE g # None /\ Lively(row, x)
  <2>1. Lively(row', x)
    BY <1>1, <1>3, AlikeSame
  <2> QED BY <1>3, <2>1 DEF Watched
<1>4. CASE Stuck(wf[r], row, x) /\ (need[r] \/ Busy(g))
  <2>1. Stuck(wf[r], row', x)
    BY <1>1, <1>4, AlikeSame
  <2>2. CASE need[r]
    BY <2>1, <2>2 DEF Watched
  <2>3. CASE Busy(g)
    <3>1. \A gg : gg = g => Busy(gg)'
      BY <1>4, <2>3
    <3>2. wf'[r].group = g
      OBVIOUS
    <3>3. Busy(wf[r].group)'
      BY <3>1, <3>2
    <3> QED BY <2>1, <3>3 DEF Watched
  <2> QED BY <1>4, <2>2, <2>3
<1> QED BY <1>2, <1>3, <1>4 DEF Watched

(* A step that starts nothing and puts no run to sleep keeps all watched.  *)
Wakes(s) ==
  /\ Awake(s) => Awake(s)'
  /\ ~Awake(s)' => NoneCancelled(row, row', <<s, latest[s]>>)

(* A soft step: what is cancelled is pushed, all else is as it was.        *)
LEMMA SoftStep ==
  ASSUME AllWatched, wf' = wf, need' = need, latest' = latest,
         \A s \in Run : latest[s] # 0 => SoftAt(row, row', <<s, latest[s]>>) /\ Wakes(s)
  PROVE  AllWatched'
<1> SUFFICES ASSUME NEW r \in Run, latest[r] # 0 PROVE Watched(r)'
  BY DEF AllWatched
<1>1. ASSUME NEW g, Busy(g) PROVE Busy(g)'
  <2>1. PICK s \in Run : Keeper(s, g)
    BY <1>1 DEF Busy
  <2>2. latest[s] # 0
    BY <2>1 DEF Keeper
  <2>3. YieldAt(row, row', <<s, latest[s]>>)
    BY <2>2, SoftYields
  <2>4. \A j \in Name : Hands(row[<<s, latest[s]>>][j], row'[<<s, latest[s]>>][j], Awake(s)')
    BY <2>2, <2>3, YieldHands DEF Wakes
  <2>5. Keeper(s, g)'
    BY <2>1, <2>2, <2>4, KeeperKeeps DEF Wakes
  <2> QED BY <2>5 DEF Busy
<1>2. ~Awake(r)' => Alike(row, row', <<r, latest[r]>>)
  BY SoftAlike DEF Wakes
<1> QED BY <1>1, <1>2, StaysWatched DEF AllWatched, Wakes

(* A run whose jobs a transaction cancels is pushed to the queue.          *)
LEMMA CancelledAwake ==
  ASSUME TypeInv, NEW rs, RunsCancelledBy(rs) \subseteq queue', NEW s \in Run, latest[s] # 0, ~Awake(s)'
  PROVE  NoneCancelled(row, rs, <<s, latest[s]>>)
<1>1. latest[s] \in 1..MaxAttempt
  <2>1. latest[s] \in 0..MaxAttempt
    BY DEF TypeInv, TypeOK
  <2> QED BY <2>1, ActionsRunAssumption
<1>2. s \notin RunsCancelledBy(rs)
  BY DEF Awake
<1> QED BY <1>1, <1>2 DEF RunsCancelledBy, NoneCancelled

(* The attempts before the latest stay done.                               *)
LEMMA CommitOld ==
  ASSUME IInv, cut = {}, OldDone, NEW rs, NEW lat, NEW more, Commit(rs, lat, more),
         \A x \in Attempt, j \in Name : x[2] < latest[x[1]] => Kept(row[x][j], rs[x][j]),
         NEW x \in Attempt, x[2] < latest[x[1]]
  PROVE  attempt'[x] \in Done
<1>1. \A j \in Name : row[x][j].st \in Done \cup {"none"}
  BY DEF IInv, Statuses, OneAttemptAlive
<1>2. SameJobs(rs, x)
  BY <1>1 DEF SameJobs, Kept
<1> QED BY <1>2, CommitCut DEF AttemptsWith, OldDone
-----------------------------------------------------------------------------
(***************************************************************************)
(* The steps that start nothing.                                           *)
(***************************************************************************)

(* A transaction that starts no job, and pushes the runs it cancels.       *)
LEMMA SoftCommit ==
  ASSUME IInv, WakeInv, NEW rs, NEW more, Commit(rs, latest, more), Keeps(row, rs),
         \A y \in Attempt : SoftAt(row, rs, y), RunsCancelledBy(rs) \subseteq queue',
         wf' = wf, need' = need, report' = report, handling' = handling, queue \subseteq queue'
  PROVE  WakeInv'
<1> SUFFICES ASSUME cut' = {} PROVE AllWatched' /\ OldDone' /\ CallsLatest'
  BY DEF WakeInv
<1>1. cut = {} /\ row' = rs /\ latest' = latest
  BY CommitCut
<1>2. AllWatched /\ OldDone /\ CallsLatest /\ TypeInv
  BY <1>1 DEF WakeInv, IInv
<1>3. AllWatched'
  <2>1. ASSUME NEW s \in Run, latest[s] # 0
        PROVE  SoftAt(row, row', <<s, latest[s]>>) /\ Wakes(s)
    <3>1. <<s, latest[s]>> \in Attempt
      BY <1>2, <2>1, Places
    <3>2. ~Awake(s)' => NoneCancelled(row, rs, <<s, latest[s]>>)
      BY <1>2, <2>1, CancelledAwake
    <3>3. Awake(s) => Awake(s)'
      BY DEF Awake
    <3> QED BY <1>1, <3>1, <3>2, <3>3 DEF Wakes
  <2> QED BY <1>1, <1>2, <2>1, SoftStep
<1>4. OldDone'
  BY <1>1, <1>2, CommitOld DEF OldDone, Keeps
<1>5. CallsLatest'
  BY <1>1, <1>2 DEF CallsLatest
<1> QED BY <1>3, <1>4, <1>5

(* Cancelling a run.                                                       *)
LEMMA CancelWakes == ASSUME IInv, WakeInv, NEW r \in Run, CancelRun(r) PROVE WakeInv'
<1> DEFINE rs == CancelJobs(row, {<<r, latest[r]>>} \X Name)
<1>1. /\ Commit(rs, latest, {}) /\ queue' = queue \cup RunsCancelledBy(rs)
      /\ wf' = wf /\ need' = need /\ report' = report /\ handling' = handling
  BY DEF CancelRun
<1>2. row \in Rows
  BY DEF IInv, TypeInv, TypeOK, Rows
<1>3. Keeps(row, rs) /\ \A y \in Attempt : SoftAt(row, rs, y)
  BY <1>2, CancelJobsKeeps, CancelJobsSoft
<1> HIDE DEF rs
<1> QED BY <1>1, <1>3, SoftCommit

(* A runner that claims a job.                                             *)
LEMMA ClaimWakes ==
  ASSUME IInv, WakeInv, NEW x \in Attempt, NEW j \in Name, ClaimJob(x, j) PROVE WakeInv'
<1> DEFINE u == row[x][j]
           v == [[u EXCEPT !.st = "running"] EXCEPT !.task = "live"]
           rs == [row EXCEPT ![x][j].st = "running", ![x][j].task = "live"]
<1>1. /\ Commit(rs, latest, {}) /\ queue' = queue /\ u.st = "waiting"
      /\ wf' = wf /\ need' = need /\ report' = report /\ handling' = handling
  BY DEF ClaimJob
<1>2. row \in Rows /\ u \in Row
  BY DEF IInv, TypeInv, TypeOK, Rows
<1>3. u \in Wide
  BY <1>2, RowFields
<1>4. /\ rs[x][j] = v
      /\ \A y \in Attempt, i \in Name : (y = x /\ i = j) \/ rs[y][i] = row[y][i]
      /\ rs = [y \in Attempt |-> [i \in Name |-> IF y = x /\ i = j THEN v ELSE row[y][i]]]
  BY <1>2 DEF Rows
<1>5. v.st = "running" /\ v.grp = u.grp /\ v \in Full
  BY <1>3 DEF Wide, Full, Status, Active
<1> HIDE DEF rs, v
<1>6. v \in Row
  BY <1>5, FullRow DEF Out, Active
<1>7. Keeps(row, rs)
  <2>1. Kept(u, v)
    BY <1>1, <1>5 DEF Kept, Done
  <2>2. rs \in Rows
    BY <1>2, <1>4, <1>6 DEF Rows
  <2> QED BY <1>4, <2>1, <2>2 DEF Keeps, Kept
<1>8. \A y \in Attempt : SoftAt(row, rs, y)
  <2>1. Soft(u, v)
    BY <1>1, <1>5 DEF Soft, Out, Active
  <2> QED BY <1>4, <2>1 DEF SoftAt, Soft
<1>9. RunsCancelledBy(rs) \subseteq queue'
  <2> SUFFICES ASSUME NEW r \in Run, NEW n \in 1..MaxAttempt, NEW i \in Name,
                      row[<<r, n>>][i].st \in Pending \cup Active,
                      rs[<<r, n>>][i].st = "cancelled"
               PROVE  FALSE
    BY DEF RunsCancelledBy
  <2>1. <<r, n>> \in Attempt
    BY DEF Attempt
  <2>2. rs[<<r, n>>][i] = row[<<r, n>>][i]
    BY <1>4, <1>5, <2>1
  <2> QED BY <2>2 DEF Pending, Active
<1> QED BY <1>1, <1>7, <1>8, <1>9, SoftCommit

(* A step that writes no job and lets no run fall asleep.                  *)
LEMMA SameRowsWake ==
  ASSUME WakeInv, wf' = wf, need' = need, latest' = latest, row' = row, cut' = {} => cut = {},
         \A s \in Run : Awake(s) => Awake(s)',
         cut = {} => \A x \in Attempt : x[2] < latest[x[1]] => attempt'[x] = attempt[x],
         CallsLatest => CallsLatest'
  PROVE  WakeInv'
<1> SUFFICES ASSUME cut' = {} PROVE AllWatched' /\ OldDone' /\ CallsLatest'
  BY DEF WakeInv
<1>1. cut = {} /\ AllWatched /\ OldDone /\ CallsLatest
  BY DEF WakeInv
<1>2. \A s \in Run : SoftAt(row, row', <<s, latest[s]>>) /\ Wakes(s)
  BY DEF SoftAt, Soft, Wakes, NoneCancelled, Pending, Active
<1> QED BY <1>1, <1>2, SoftStep DEF OldDone

(* Plans, reports on their way, and calls of the handler that begin.       *)
LEMMA PlanWakes ==
  ASSUME WakeInv, UNCHANGED <<wf, need, latest, rows, report, queue, handling, cut>> PROVE WakeInv'
BY SameRowsWake DEF rows, Awake, CallsLatest

(* The reads and writes of a report: it ends with a push of its run,       *)
(* unless it is refused.                                                   *)
LEMMA ReportWakes ==
  ASSUME IInv, WakeInv, NEW r \in Run, Reports(r) PROVE WakeInv'
<1> SUFFICES ASSUME cut' = {} PROVE WakeInv'
  BY DEF WakeInv
<1>0. /\ report \in [Run -> Report] /\ cut = {} /\ CallsLatest
      /\ attempt \in [Attempt -> Status \cup {"unknown", "none"}]
  <2>1. cut = {}
    BY DEF Reports, ReportAggregate, ReportStore, ReportLoad, ReportRun, ReportRefused, ReportAgain, rows
  <2> QED BY <2>1 DEF WakeInv, IInv, TypeInv, TypeOK
<1>1. ~ReportRefused(r)
  BY DEF ReportRefused
<1>2. /\ wf' = wf /\ need' = need /\ latest' = latest /\ row' = row /\ cut' = cut
      /\ handling' = handling /\ queue \subseteq queue'
      /\ \A s \in Run \ {r} : report'[s] = report[s]
  BY <1>0, <1>1 DEF Reports, ReportAggregate, ReportStore, ReportLoad, ReportRun, ReportAgain, rows
<1>3. Awake(r)' /\ (report'[r].pc # "idle" => report[r].pc # "idle" /\ report'[r].att = report[r].att)
  <2>1. CASE ReportAggregate(r)
    BY <1>0, <2>1 DEF ReportAggregate, Awake, Report
  <2>2. CASE ReportStore(r)
    BY <1>0, <2>2 DEF ReportStore, Awake, Report
  <2>3. CASE ReportLoad(r)
    BY <1>0, <2>3 DEF ReportLoad, Awake, Report, NoReport
  <2>4. CASE ReportRun(r)
    BY <1>0, <2>4 DEF ReportRun, Awake, NoReport
  <2>5. CASE ReportAgain(r)
    BY <2>5 DEF ReportAgain, Awake
  <2> QED BY <1>1, <2>1, <2>2, <2>3, <2>4, <2>5 DEF Reports
<1>4. \A s \in Run : Awake(s) => Awake(s)'
  BY <1>2, <1>3 DEF Awake
<1>5. ASSUME NEW x \in Attempt, x[2] < latest[x[1]]
      PROVE  attempt'[x] = attempt[x]
  <2>1. CASE ReportStore(r)
    <3>1. /\ report[r].att \in Attempt /\ report[r].att[1] = r
          /\ report[r].att[2] = latest[r]
      BY <1>0, <2>1 DEF ReportStore, CallsLatest, IInv, TypeInv, Inserted
    <3>2. x # report[r].att
      <4>1. latest[r] \in Nat
        BY Places DEF IInv
      <4> QED BY <1>5, <3>1, <4>1
    <3> QED BY <1>0, <2>1, <3>2 DEF ReportStore
  <2>2. CASE ~ReportStore(r)
    BY <1>1, <2>2 DEF Reports, ReportAggregate, ReportLoad, ReportRun, ReportAgain, rows
  <2> QED BY <2>1, <2>2
<1>6. CallsLatest'
  <2> SUFFICES ASSUME NEW s \in Run, report'[s].pc # "idle" PROVE report'[s].att[2] = latest'[s]
    BY <1>0, <1>2 DEF CallsLatest
  <2>1. report[s].pc # "idle" /\ report'[s].att = report[s].att
    BY <1>2, <1>3
  <2> QED BY <1>0, <1>2, <2>1 DEF CallsLatest
<1> QED BY <1>0, <1>2, <1>4, <1>5, <1>6, SameRowsWake

(* A run that leaves the queue is in the hands of a handler, with its      *)
(* latest attempt.                                                         *)
LEMMA ReadWakes == ASSUME WakeInv, NEW r \in Run, HandlerRead(r) PROVE WakeInv'
<1> DEFINE h == [run |-> r, blocked |-> run[r] = "blocked", latest |-> latest[r]]
<1>1. /\ queue' = queue \ {r} /\ handling' = handling \cup {h}
      /\ wf' = wf /\ need' = need /\ latest' = latest /\ row' = row /\ cut' = cut
      /\ report' = report /\ attempt' = attempt
  BY DEF HandlerRead, rows
<1>2. h.run = r /\ h.latest = latest[r]
  OBVIOUS
<1> HIDE DEF h
<1>3. \A s \in Run : Awake(s) => Awake(s)'
  BY <1>1, <1>2 DEF Awake
<1>4. CallsLatest => CallsLatest'
  BY <1>1, <1>2 DEF CallsLatest
<1> QED BY <1>1, <1>3, <1>4, SameRowsWake

(* The end of a job: its run is going to be checked.                       *)
LEMMA ReportJobWakes ==
  ASSUME IInv, WakeInv, NEW x \in Attempt, NEW j \in Name, ReportJob(x, j) PROVE WakeInv'
<1> DEFINE r == x[1]
<1> SUFFICES ASSUME cut' = {} PROVE AllWatched' /\ OldDone' /\ CallsLatest'
  BY DEF WakeInv
<1>1. /\ wf' = wf /\ need' = need /\ latest' = latest /\ attempt' = attempt /\ cut' = cut
      /\ queue' = queue /\ handling' = handling
      /\ report' = [report EXCEPT ![r] = [pc |-> "aggregate", att |-> x, agg |-> "none"]]
  BY DEF ReportJob
<1>2. AllWatched /\ OldDone /\ CallsLatest /\ TypeInv /\ row \in Rows /\ r \in Run
      /\ report \in [Run -> Report]
  BY <1>1 DEF WakeInv, IInv, TypeInv, TypeOK, Rows, Attempt
<1>3. PICK verdict \in Done :
        row' = [row EXCEPT ![x][j].st = verdict, ![x][j].task = "done"]
  BY DEF ReportJob, Done
<1>4. /\ \A y \in Attempt, i \in Name : (y = x /\ i = j) \/ row'[y][i] = row[y][i]
      /\ row'[x][j] = [[row[x][j] EXCEPT !.st = verdict] EXCEPT !.task = "done"]
  BY <1>2, <1>3 DEF Rows
<1>5. row[x][j].st \in Out /\ row[x][j] \in Wide
  <2>1. row[x][j].task = "live" /\ row[x][j] \in Row
    BY <1>2 DEF ReportJob, Rows
  <2> QED BY <2>1, RowFields
<1>6. row'[x][j].st \in Done /\ row'[x][j].grp = row[x][j].grp
  BY <1>4, <1>5 DEF Wide, Done
<1>7. Awake(r)'
  BY <1>1, <1>2 DEF Awake
<1>8. \A s \in Run : Awake(s) => Awake(s)'
  BY <1>1, <1>2, <1>7 DEF Awake
<1>9. ASSUME NEW s \in Run, latest[s] # 0, NEW i \in Name
      PROVE  Hands(row[<<s, latest[s]>>][i], row'[<<s, latest[s]>>][i], Awake(s)')
  <2> DEFINE y == <<s, latest[s]>>
  <2>1. y \in Attempt /\ y[1] = s
    BY <1>2, <1>9, Places
  <2> HIDE DEF y
  <2>2. CASE y = x /\ i = j
    <3>1. Awake(s)'
      BY <1>7, <2>1, <2>2
    <3> QED BY <1>5, <1>6, <2>2, <3>1 DEF Hands, Done, Out, Active, y
  <2>3. CASE ~(y = x /\ i = j)
    <3>1. row'[y][i] = row[y][i]
      BY <1>4, <2>1, <2>3
    <3> QED BY <3>1 DEF Hands, y
  <2> QED BY <2>2, <2>3
<1>10. \A g : Busy(g) => Busy(g)'
  <2> SUFFICES ASSUME NEW g, Busy(g) PROVE Busy(g)'
    OBVIOUS
  <2>1. PICK s \in Run : Keeper(s, g)
    BY DEF Busy
  <2>2. latest[s] # 0
    BY <2>1 DEF Keeper
  <2>3. \A i \in Name : Hands(row[<<s, latest[s]>>][i], row'[<<s, latest[s]>>][i], Awake(s)')
    BY <1>9, <2>2
  <2>4. Keeper(s, g)'
    BY <1>1, <1>8, <2>1, <2>3, KeeperKeeps
  <2> QED BY <2>4 DEF Busy
<1>11. AllWatched'
  <2> SUFFICES ASSUME NEW s \in Run, latest[s] # 0 PROVE Watched(s)'
    BY <1>1 DEF AllWatched
  <2>1. Watched(s)
    BY <1>2 DEF AllWatched
  <2>2. ~Awake(s)' => Alike(row, row', <<s, latest[s]>>)
    <3> SUFFICES ASSUME s # r PROVE Alike(row, row', <<s, latest[s]>>)
      BY <1>7
    <3>1. <<s, latest[s]>> \in Attempt /\ <<s, latest[s]>> # x
      BY <1>2, Places
    <3> QED BY <1>4, <3>1 DEF Alike
  <2> QED BY <1>1, <1>8, <1>10, <2>1, <2>2, StaysWatched
<1>12. CallsLatest'
  <2>1. x[2] = latest[r]
    <3>1. /\ x = <<r, x[2]>> /\ x[2] \in Nat /\ latest[r] \in Nat
          /\ (row[x][j].st # "none" => x[2] <= latest[r])
      BY <1>2, Places
    <3>2. row[x][j].st \notin Done \cup {"none"}
      BY <1>5 DEF Out, Active, Done
    <3>3. ~(x[2] < latest[r])
      BY <1>1, <3>2 DEF IInv, Statuses, OneAttemptAlive
    <3> QED BY <3>1, <3>2, <3>3
  <2>2. \A s \in Run \ {r} : report'[s] = report[s]
    BY <1>1
  <2>3. report'[r].att = x
    BY <1>1, <1>2
  <2> QED BY <1>1, <1>2, <2>1, <2>2, <2>3 DEF CallsLatest
<1> QED BY <1>1, <1>2, <1>11, <1>12 DEF OldDone
-----------------------------------------------------------------------------
(***************************************************************************)
(* The handler of the emitter's queue.                                     *)
(***************************************************************************)

(* What is quiet is quiet whether or not the run is approved.              *)
LEMMA QuietAny ==
  ASSUME NEW w, NEW rs, NEW x, Quiet(w, rs, x, FALSE), NEW b PROVE Quiet(w, rs, x, b)
BY DEF Quiet

(* Of two transactions neither cancels a job if both together do not.      *)
LEMMA NoneBetween ==
  ASSUME row \in Rows, NEW r1, NEW r2, Keeps(row, r1), Keeps(r1, r2), NEW y \in Attempt,
         NoneCancelled(row, r2, y)
  PROVE  NoneCancelled(row, r1, y) /\ NoneCancelled(r1, r2, y)
<1> SUFFICES ASSUME NEW j \in Name
             PROVE  /\ row[y][j].st \in Pending \cup Active => r1[y][j].st # "cancelled"
                    /\ r1[y][j].st \in Pending \cup Active => r2[y][j].st # "cancelled"
  BY DEF NoneCancelled
<1>1. /\ row[y][j].st \in Status \cup {"none"}
      /\ Kept(row[y][j], r1[y][j]) /\ Kept(r1[y][j], r2[y][j])
      /\ row[y][j].st \in Pending \cup Active => r2[y][j].st # "cancelled"
  <2>1. row[y][j] \in Row
    BY DEF Rows
  <2> QED BY <2>1, RowFields DEF Wide, Keeps, NoneCancelled
<1> QED BY <1>1 DEF Kept, Status, Pending, Active, Done

(* A group that a transaction finds held stays busy: its holders keep it.  *)
LEMMA HeldStaysBusy ==
  ASSUME IInv, cut = {}, OldDone, NEW g, g # None, NEW rs, Lag(row, rs),
         ShouldBlock(g, rs, AttemptsWith(rs)),
         \A s \in Run : Blocker(s, g, rs) =>
           /\ report'[s] = report[s] /\ latest'[s] = latest[s] /\ wf'[s] = wf[s]
           /\ YieldAt(row, row', <<s, latest[s]>>)
           /\ \A j \in Name : rs[<<s, latest[s]>>][j].grp => row'[<<s, latest[s]>>][j].grp
           /\ ~Awake(s)' => NoneCancelled(row, row', <<s, latest[s]>>)
  PROVE  Busy(g)'
<1>1. PICK s \in Run : Blocker(s, g, rs)
  BY BlockedBySomeone
<1> DEFINE y == <<s, latest[s]>>
<1>2. \A j \in Name : row[y][j].st \in Out =>
        row'[y][j].st \in Out \/ (row'[y][j].st = "cancelled" /\ Awake(s)')
  <2>1. YieldAt(row, row', y) /\ (~Awake(s)' => NoneCancelled(row, row', y))
    BY <1>1
  <2> QED BY <2>1 DEF YieldAt, Yield, NoneCancelled, Out, Pending
<1>3. Keeper(s, g)'
  BY <1>1, <1>2, BlockerKeeps
<1> QED BY <1>3 DEF Busy

(* The rows after the check of run r, and after that of the runs more.     *)
CheckedIn(r, rs1, more, rs) ==
  /\ Keeps(row, rs1) /\ Keeps(rs1, rs)
  /\ Checks(row, attempt, <<r, latest[r]>>, rs1)
  /\ \A t \in more : latest[t] # 0 /\ Checks(rs1, AttemptsWith(rs1), <<t, latest[t]>>, rs)
  /\ \A t \in Run \ more : latest[t] # 0 => SoftAt(rs1, rs, <<t, latest[t]>>)
  /\ ReleasesGroup(r, rs1) => \A t \in BlockedRuns(wf[r].group, rs1) : need[t] \/ t \in more

(* A run that waits for the group of r is found when r releases it: as a   *)
(* whole, since the status of its attempt is that of its jobs, or by a job.*)
LEMMA FoundBlocked ==
  ASSUME IInv, StartInv, cut = {}, NEW t \in Run, latest[t] # 0, ~Awake(t), NEW rs,
         Alike(row, rs, <<t, latest[t]>>), wf[t].group # None,
         ~Quiet(wf[t], row, <<t, latest[t]>>, need[t]), ~Lively(row, <<t, latest[t]>>),
         Stuck(wf[t], row, <<t, latest[t]>>)
  PROVE  t \in BlockedRuns(wf[t].group, rs)
<1> DEFINE y == <<t, latest[t]>>
           g == wf[t].group
<1>1. TypeInv /\ StatusAgrees /\ y \in Attempt /\ y[1] = t /\ row \in Rows
  BY Places DEF IInv, Statuses, TypeInv, TypeOK, Rows
<1>2. wf[t] # None
  <2>1. latest[t] \in Nat
    BY <1>1, Places
  <2> QED BY <1>1, <2>1 DEF StartInv, NeedsInv, InOrder, Placed
<1>3. CASE \E j \in Name : row[y][j].st = "blocked" /\ row[y][j].grp
  <2>1. PICK j \in Name : row[y][j].st = "blocked" /\ row[y][j].grp
    BY <1>3
  <2>2. rs[y][j].st = "blocked" /\ rs[y][j].grp
    BY <2>1 DEF Alike, Out, Active
  <2> DEFINE p == <<y, j>>
  <2>3. p \in Attempt \X Name /\ p[1] = y /\ p[2] = j
    BY <1>1
  <2>4. GroupOf(y) = g
    BY <1>1, <1>2 DEF GroupOf
  <2> HIDE DEF p, y
  <2>5. p \in GroupJobs(g, rs, {"blocked"}) /\ p[1][1] = t
    BY <1>1, <2>2, <2>3, <2>4 DEF GroupJobs
  <2> QED BY <2>5 DEF BlockedRuns
<1>4. CASE wf[t].whole
  <2>1. attempt[y] = AggregateJobStatus(JobStatuses(row, y))
    BY <1>1 DEF StatusAgrees, Awake
  <2>2. \A j \in Name : rs[y][j].st = row[y][j].st
    BY DEF Alike, Lively
  <2>3. \E j \in Name : row[y][j].st = "blocked"
    <3> SUFFICES ASSUME \A j \in Name : row[y][j].st # "blocked" PROVE FALSE
      OBVIOUS
    <3>1. WithStatus(row, y, {"blocked"}) = {}
      BY DEF WithStatus
    <3>2. StartsOf(wf[t], row, y) = {} /\ \A S : Skippable(wf[t], row, y, S) => S = {}
      BY <3>1 DEF StartsOf, Skippable
    <3> QED BY <3>2 DEF Quiet
  <2>4. "blocked" \in JobStatuses(row, y)
    BY <2>3 DEF JobStatuses
  <2>5. JobStatuses(row, y) \cap Out = {}
    BY DEF JobStatuses, Lively
  <2>6. AggregateJobStatus(JobStatuses(row, y)) = "blocked"
    BY <2>4, <2>5 DEF AggregateJobStatus, Out, Active
  <2>7. AttemptsWith(rs)[y] = "blocked"
    BY <1>1, <2>1, <2>2, <2>6 DEF AttemptsWith, SameJobs
  <2>8. InGroup(y, g)
    BY <1>1, <1>2, <1>4 DEF InGroup
  <2> HIDE DEF y
  <2>9. y \in GroupAttempts(g, AttemptsWith(rs), {"blocked"})
    BY <1>1, <2>7, <2>8 DEF GroupAttempts
  <2> QED BY <1>1, <2>9 DEF BlockedRuns
<1> QED BY <1>3, <1>4 DEF Stuck
(* The transaction of a call that succeeds keeps all runs watched.         *)
LEMMA CheckedWakes ==
  ASSUME IInv, StartInv, AllWatched, OldDone, cut = {}, NEW r \in Run, latest[r] # 0,
         NEW rs1, NEW more \in SUBSET Run, CheckedIn(r, rs1, more, row'),
         wf' = wf, need' = need, latest' = latest, report' = report,
         queue \cup RunsCancelledBy(row') \subseteq queue',
         \A h \in handling \ handling' : h.run = r
  PROVE  AllWatched'
<1> DEFINE y(t) == <<t, latest[t]>>
<1>1. TypeInv /\ row \in Rows /\ Keeps(row, rs1) /\ Keeps(rs1, row')
  BY DEF IInv, TypeInv, TypeOK, Rows, CheckedIn
<1>2. rs1 \in Rows
  BY <1>1 DEF Keeps
<1>3. ASSUME NEW t \in Run, latest[t] # 0, ~Awake(t)'
      PROVE  /\ NoneCancelled(row, row', y(t)) /\ NoneCancelled(row, rs1, y(t))
             /\ NoneCancelled(rs1, row', y(t))
  <2>1. y(t) \in Attempt
    BY <1>1, <1>3, Places
  <2>2. NoneCancelled(row, row', y(t))
    BY <1>1, <1>3, CancelledAwake
  <2> HIDE DEF y
  <2> QED BY <1>1, <2>1, <2>2, NoneBetween
<1>4. \A t \in Run \ {r} : Awake(t) => Awake(t)'
  BY DEF Awake
<1>5. \A t \in Run : latest[t] # 0 => y(t) \in Attempt /\ y(t)[1] = t
  BY <1>1, Places
<1>6. \A t \in Run \ {r} : latest[t] # 0 => SoftAt(row, rs1, y(t))
  <2>1. \A t \in Run \ {r} : y(t) # y(r)
    OBVIOUS
  <2> QED BY <1>5, <2>1 DEF CheckedIn, Checks
<1>7. ASSUME NEW t \in Run, latest[t] # 0
      PROVE  YieldAt(row, rs1, y(t)) /\ YieldAt(rs1, row', y(t)) /\ YieldAt(row, row', y(t))
  <2>1. YieldAt(row, rs1, y(t))
    BY <1>6, <1>7, SoftYields DEF CheckedIn, Checks
  <2>2. YieldAt(rs1, row', y(t))
    BY <1>7, SoftYields DEF CheckedIn, Checks
  <2> QED BY <2>1, <2>2, YieldTrans
<1>8. ASSUME NEW t \in Run, latest[t] # 0
      PROVE  \A j \in Name : Hands(row[y(t)][j], row'[y(t)][j], Awake(t)')
  BY <1>3, <1>7, <1>8, YieldHands
<1>9. ASSUME NEW rs, rs \in {row, rs1}, NEW g, g # None, ShouldBlock(g, rs, AttemptsWith(rs))
      PROVE  Busy(g)'
  <2>1. Lag(row, rs)
    <3>1. Lag(row, row) /\ Lag(row, rs1)
      BY SameRowsSame DEF IInv, TypeInv, CheckedIn, Checks
    <3> QED BY <1>9, <3>1
  <2>2. ASSUME NEW s \in Run, Blocker(s, g, rs)
        PROVE  /\ report'[s] = report[s] /\ latest'[s] = latest[s] /\ wf'[s] = wf[s]
               /\ YieldAt(row, row', <<s, latest[s]>>)
               /\ \A j \in Name : rs[<<s, latest[s]>>][j].grp => row'[<<s, latest[s]>>][j].grp
               /\ ~Awake(s)' => NoneCancelled(row, row', <<s, latest[s]>>)
    <3>1. latest[s] # 0
      BY <2>2 DEF Blocker
    <3>2. \A j \in Name : rs[y(s)][j].grp => row'[y(s)][j].grp
      BY <1>7, <1>9, <3>1 DEF YieldAt, Yield
    <3> QED BY <1>3, <1>7, <3>1, <3>2
  <2> QED BY <1>9, <2>1, <2>2, HeldStaysBusy
<1>10. attempt = AttemptsWith(row)
  BY <1>1, SameRowsSame DEF TypeInv
<1> SUFFICES ASSUME NEW t \in Run, latest[t] # 0, ~Awake(t)' PROVE Watched(t)'
  BY DEF AllWatched, Watched
<1>11. CASE t \in more
  <2>1. Settles(rs1, AttemptsWith(rs1), y(t), row')
    BY <1>11 DEF CheckedIn, Checks
  <2>2. \/ Quiet(wf[t], row', y(t), FALSE)
        \/ /\ wf[t].group # None /\ Stuck(wf[t], row', y(t))
           /\ ShouldBlock(wf[t].group, rs1, AttemptsWith(rs1))
    BY <1>3, <1>5, <2>1 DEF Settles
  <2>3. CASE Quiet(wf[t], row', y(t), FALSE)
    BY <2>3, QuietAny DEF Watched
  <2>4. CASE wf[t].group # None /\ Stuck(wf[t], row', y(t))
             /\ ShouldBlock(wf[t].group, rs1, AttemptsWith(rs1))
    <3>1. \A g : g = wf[t].group => Busy(g)'
      BY <1>9, <2>4
    <3>2. Busy(wf[t].group)'
      BY <3>1
    <3> QED BY <2>4, <3>2 DEF Watched
  <2> QED BY <2>2, <2>3, <2>4
<1>12. CASE t \notin more /\ t = r
  <2>1. Settles(row, attempt, y(t), rs1)
    BY <1>12 DEF CheckedIn, Checks
  <2>2. \/ Quiet(wf[t], rs1, y(t), FALSE)
        \/ /\ wf[t].group # None /\ Stuck(wf[t], rs1, y(t))
           /\ ShouldBlock(wf[t].group, row, AttemptsWith(row))
    BY <1>3, <1>5, <1>10, <2>1 DEF Settles
  <2>3. Alike(rs1, row', y(t))
    BY <1>3, <1>12, SoftAlike DEF CheckedIn
  <2>4. CASE Quiet(wf[t], rs1, y(t), FALSE)
    <3>1. Quiet(wf[t], row', y(t), FALSE)
      BY <2>3, <2>4, AlikeSame
    <3> QED BY <3>1, QuietAny DEF Watched
  <2>5. CASE wf[t].group # None /\ Stuck(wf[t], rs1, y(t))
             /\ ShouldBlock(wf[t].group, row, AttemptsWith(row))
    <3>1. \A g : g = wf[t].group => Busy(g)'
      BY <1>9, <2>5
    <3>2. Busy(wf[t].group)'
      BY <3>1
    <3>3. Stuck(wf[t], row', y(t))
      BY <2>3, <2>5, AlikeSame
    <3> QED BY <3>2, <3>3 DEF Watched
  <2> QED BY <2>2, <2>4, <2>5
<1>13. CASE t \notin more /\ t # r
  <2>1. SoftAt(row, rs1, y(t)) /\ SoftAt(rs1, row', y(t))
    BY <1>6, <1>13 DEF CheckedIn
  <2>2. Alike(row, rs1, y(t)) /\ Alike(row, row', y(t))
    <3>1. SoftAt(row, row', y(t))
      BY <2>1, SoftTrans
    <3> QED BY <1>3, <2>1, <3>1, SoftAlike
  <2>3. Watched(t) /\ ~Awake(t)
    BY <1>4, <1>13 DEF AllWatched
  <2>4. CASE Quiet(wf[t], row, y(t), need[t]) \/ ~Stuck(wf[t], row, y(t))
             \/ Lively(row, y(t)) \/ need[t]
    <3>1. CASE Quiet(wf[t], row, y(t), need[t])
      <4>1. Quiet(wf[t], row', y(t), need[t])
        BY <2>2, <3>1, AlikeSame
      <4> QED BY <4>1 DEF Watched
    <3>2. CASE wf[t].group # None /\ Lively(row, y(t))
      <4>1. Lively(row', y(t))
        BY <2>2, <3>2, AlikeSame
      <4> QED BY <3>2, <4>1 DEF Watched
    <3>3. CASE need[t] /\ Stuck(wf[t], row, y(t))
      <4>1. Stuck(wf[t], row', y(t))
        BY <2>2, <3>3, AlikeSame
      <4> QED BY <3>3, <4>1 DEF Watched
    <3>4. CASE Stuck(wf[t], row, y(t)) /\ Busy(wf[t].group) /\ Lively(row, y(t))
      <4>1. wf[t].group # None
        BY <3>4 DEF Busy, Keeper, Member
      <4> QED BY <3>2, <3>4, <4>1
    <3> QED BY <2>3, <2>4, <3>1, <3>2, <3>3, <3>4 DEF Watched
  <2>5. CASE ~Quiet(wf[t], row, y(t), need[t]) /\ Stuck(wf[t], row, y(t))
             /\ ~Lively(row, y(t)) /\ ~need[t]
    <3> DEFINE g == wf[t].group
    <3>1. PICK s \in Run : Keeper(s, g)
      BY <2>3, <2>5 DEF Watched, Busy
    <3>2. latest[s] # 0 /\ Member(s, g)
      BY <3>1 DEF Keeper
    <3>3. CASE s # r \/ Holder(wf[s], row, y(s))
      <4>1. ASSUME NEW gg, gg = g PROVE Keeper(s, gg)'
        <5>1. Keeper(s, gg)
          BY <3>1, <4>1
        <5>2. \A j \in Name : Hands(row[y(s)][j], row'[y(s)][j], Awake(s)')
          BY <1>8, <3>2
        <5>3. CASE s # r
          BY <1>4, <5>1, <5>2, <5>3, KeeperKeeps
        <5>4. CASE Holder(wf[s], row, y(s))
          BY <5>1, <5>2, <5>4, HolderKeeps
        <5> QED BY <3>3, <5>3, <5>4
      <4>2. \A gg : gg = g => Busy(gg)'
        BY <4>1 DEF Busy
      <4>3. Busy(wf[t].group)'
        BY <4>2
      <4>4. Stuck(wf[t], row', y(t))
        BY <2>2, <2>5, AlikeSame
      <4> QED BY <4>3, <4>4 DEF Watched
    <3>4. CASE s = r /\ ~Holder(wf[s], row, y(s))
      <4>1. Releaser(wf[r], row, y(r)) /\ wf[r].group = g /\ g # None
        BY <3>1, <3>2, <3>4 DEF Keeper, Member
      <4>2. ReleasesGroup(r, rs1)
        <5>1. YieldAt(row, rs1, y(r))
          BY <1>7
        <5> QED BY <4>1, <5>1 DEF Releaser, ReleasesGroup, YieldAt, Yield
      <4>3. t \in BlockedRuns(g, rs1)
        BY <2>2, <2>3, <2>5, <4>1, FoundBlocked
      <4>4. \A tt \in BlockedRuns(wf[r].group, rs1) : need[tt] \/ tt \in more
        BY <4>2 DEF CheckedIn
      <4> QED BY <1>13, <2>5, <4>1, <4>3, <4>4
    <3> QED BY <3>3, <3>4
  <2> QED BY <2>4, <2>5
<1> QED BY <1>11, <1>12, <1>13

(* What a call finds and leaves (checkJobsOfCurrentRunAttempt and          *)
(* checkRunConcurrency): of several blocked runs one is checked, which is  *)
(* all there are if no run is passed over.                                 *)
LEMMA CallChecks ==
  ASSUME IInv, StartInv, cut = {}, CallsLatest, NEW h \in handling,
         NEW o1 \in CheckJobs(row, attempt, <<h.run, h.latest>>, h.blocked),
         NEW o \in CheckRunConcurrency(h.run, o1), o.ok, ~PassesOver(h.run, o1.rs)
  PROVE  \E more \in SUBSET Run : CheckedIn(h.run, o1.rs, more, o.rs)
<1> DEFINE r == h.run
           g == wf[r].group
           Second(q) == CheckJobs(o1.rs, AttemptsWith(o1.rs), <<q, latest[q]>>,
                                  RunsWith(o1.rs, latest)[q] = "blocked")
<1>1. /\ TypeInv /\ row \in Rows /\ h.latest = latest[r] /\ r \in Run
      /\ <<r, latest[r]>> \in Attempt /\ latest[r] # 0
  <2>1. h.latest = latest[r] /\ h.latest \in 1..MaxAttempt /\ r \in Run
    BY DEF IInv, TypeInv, TypeOK, Call, CallsLatest
  <2> QED BY <2>1, ActionsRunAssumption DEF IInv, TypeInv, TypeOK, Rows, Attempt
<1>2. \A q \in Run : latest[q] # 0 => wf[q] \in Workflow /\ <<q, latest[q]>> \in Attempt
  <2> SUFFICES ASSUME NEW q \in Run, latest[q] # 0
               PROVE  wf[q] \in Workflow /\ <<q, latest[q]>> \in Attempt
    OBVIOUS
  <2>1. latest[q] \in Nat /\ <<q, latest[q]>> \in Attempt
    BY <1>1, Places
  <2>2. wf[q] # None
    BY <2>1 DEF StartInv, NeedsInv, InOrder, Placed
  <2> QED BY <1>1, <2>1, <2>2 DEF TypeInv, TypeOK
<1>3. o1.ok \in BOOLEAN /\ (o1.ok => Keeps(row, o1.rs))
  BY <1>1, CheckJobsKeeps
<1>4. o1.ok
  <2> SUFFICES ASSUME ~o1.ok PROVE FALSE
    BY <1>3
  <2>1. o = o1
    BY DEF CheckRunConcurrency
  <2> QED BY <2>1
<1>5. Keeps(row, o1.rs) /\ o1.rs \in Rows /\ Checks(row, attempt, <<r, latest[r]>>, o1.rs)
  <2>1. wf[<<r, latest[r]>>[1]] \in Workflow
    BY <1>1, <1>2
  <2> QED BY <1>1, <1>3, <1>4, <2>1, CheckJobsChecks DEF Keeps
<1>6. \A q \in FindBlocked(g, o1.rs) : q \in BlockedRuns(g, o1.rs)
  BY DEF FindBlocked, BlockedRuns
<1>7. BlockedRuns(g, o1.rs) # {} => FindBlocked(g, o1.rs) # {}
  BY DEF FindBlocked, BlockedRuns
<1>8. \A q \in FindBlocked(g, o1.rs) : q \in Run /\ latest[q] # 0
  <2> SUFFICES ASSUME NEW q \in FindBlocked(g, o1.rs) PROVE q \in Run /\ latest[q] # 0
    OBVIOUS
  <2>1. <<q, latest[q]>> \in Attempt
    BY <1>1, <1>5, BlockedInserted
  <2> QED BY <2>1, ActionsRunAssumption DEF Attempt
<1>9. ASSUME o = o1,
             ReleasesGroup(r, o1.rs) => \A t \in BlockedRuns(g, o1.rs) : need[t]
      PROVE  CheckedIn(r, o1.rs, {}, o.rs)
  <2>1. \A t \in Run : SoftAt(o1.rs, o1.rs, <<t, latest[t]>>)
    BY DEF SoftAt, Soft
  <2> QED BY <1>5, <1>9, <2>1, KeepsSelf DEF CheckedIn
<1>10. ASSUME NEW q \in FindBlocked(g, o1.rs), o \in Second(q), ReleasesGroup(r, o1.rs)
       PROVE  CheckedIn(r, o1.rs, {q}, o.rs)
  <2>1. q \in Run /\ latest[q] # 0 /\ wf[q] \in Workflow /\ <<q, latest[q]>> \in Attempt
    BY <1>2, <1>8
  <2> DEFINE y == <<q, latest[q]>>
  <2>2. y \in Attempt /\ wf[y[1]] \in Workflow
    BY <2>1
  <2>3. o \in CheckJobs(o1.rs, AttemptsWith(o1.rs), y, RunsWith(o1.rs, latest)[q] = "blocked")
    BY <1>10
  <2> HIDE DEF y, Second
  <2>4. Keeps(o1.rs, o.rs) /\ Checks(o1.rs, AttemptsWith(o1.rs), y, o.rs)
    BY <1>5, <2>2, <2>3, CheckJobsKeeps, CheckJobsChecks
  <2>5. \A t \in Run \ {q} : latest[t] # 0 => SoftAt(o1.rs, o.rs, <<t, latest[t]>>)
    <3>1. \A t \in Run \ {q} : <<t, latest[t]>> # y
      BY DEF y
    <3> QED BY <1>2, <2>4, <3>1 DEF Checks
  <2>6. \A t \in BlockedRuns(g, o1.rs) : t = q
    BY <1>6, <1>10 DEF PassesOver
  <2> QED BY <1>5, <2>1, <2>4, <2>5, <2>6 DEF CheckedIn, y
<1>11. CASE ~ReleasesGroup(r, o1.rs) \/ FindBlocked(g, o1.rs) = {}
  <2>1. o = o1
    BY <1>11 DEF CheckRunConcurrency
  <2>2. ReleasesGroup(r, o1.rs) => \A t \in BlockedRuns(g, o1.rs) : need[t]
    BY <1>7, <1>11
  <2> QED BY <1>9, <2>1, <2>2
<1>12. CASE ReleasesGroup(r, o1.rs) /\ FindBlocked(g, o1.rs) # {}
  <2>1. PICK q \in FindBlocked(g, o1.rs) : o \in IF need[q] THEN {o1} ELSE Second(q)
    <3> HIDE DEF Second
    <3>1. o \in UNION {IF need[q] THEN {o1} ELSE Second(q) : q \in FindBlocked(g, o1.rs)}
      BY <1>4, <1>12 DEF CheckRunConcurrency, Second
    <3> QED BY <3>1
  <2>2. CASE need[q]
    <3>1. \A t \in BlockedRuns(g, o1.rs) : t = q
      BY <1>6, <1>12, <2>1 DEF PassesOver
    <3> QED BY <1>9, <2>1, <2>2, <3>1
  <2>3. CASE ~need[q]
    <3>1. {q} \in SUBSET Run
      BY <1>8
    <3> QED BY <1>10, <1>12, <2>1, <2>3, <3>1
  <2> QED BY <2>2, <2>3
<1> QED BY <1>11, <1>12

(* The call of the handler.                                                *)
LEMMA CheckWakes ==
  ASSUME IInv, StartInv, WakeInv, NEW h \in handling, HandlerCheck(h) PROVE WakeInv'
<1> DEFINE r == h.run
<1>1. /\ wf' = wf /\ need' = need /\ report' = report /\ handling' = handling \ {h}
  BY DEF HandlerCheck
<1> DEFINE Ends(o1, o) ==
        IF o.ok
        THEN /\ Commit(o.rs, latest, IF PassesOver(r, o1.rs) THEN {"passed"} ELSE {})
             /\ queue' = queue \cup RunsCancelledBy(o.rs)
        ELSE /\ queue' = queue \cup {r}
             /\ UNCHANGED <<latest, rows, cut>>
<1>0. PICK o1 \in CheckJobs(row, attempt, <<r, h.latest>>, h.blocked) :
        \E o \in CheckRunConcurrency(r, o1) : Ends(o1, o)
  BY DEF HandlerCheck
<1>2. PICK o \in CheckRunConcurrency(r, o1) : Ends(o1, o)
  BY <1>0
<1>3. CASE ~o.ok
  <2>1. /\ queue' = queue \cup {r} /\ latest' = latest /\ row' = row /\ attempt' = attempt
        /\ cut' = cut
    BY <1>2, <1>3 DEF rows
  <2>2. \A s \in Run : Awake(s) => Awake(s)'
    BY <1>1, <2>1 DEF Awake
  <2>3. CallsLatest => CallsLatest'
    BY <1>1, <2>1 DEF CallsLatest
  <2> QED BY <1>1, <2>1, <2>2, <2>3, SameRowsWake
<1>4. CASE o.ok
  <2> SUFFICES ASSUME cut' = {} PROVE AllWatched' /\ OldDone' /\ CallsLatest'
    BY DEF WakeInv
  <2>1. /\ Commit(o.rs, latest, IF PassesOver(r, o1.rs) THEN {"passed"} ELSE {})
        /\ queue' = queue \cup RunsCancelledBy(o.rs)
    BY <1>2, <1>4
  <2>2. cut = {} /\ row' = o.rs /\ latest' = latest /\ ~PassesOver(r, o1.rs)
    BY <2>1, CommitCut
  <2>3. AllWatched /\ OldDone /\ CallsLatest
    BY <2>2 DEF WakeInv
  <2>4. PICK more \in SUBSET Run : CheckedIn(r, o1.rs, more, o.rs)
    BY <1>2, <1>4, <2>2, <2>3, CallChecks
  <2>5. r \in Run /\ latest[r] # 0
    <3>1. h.latest = latest[r] /\ h.latest \in 1..MaxAttempt /\ r \in Run
      BY <2>3 DEF IInv, TypeInv, TypeOK, Call, CallsLatest
    <3> QED BY <3>1, ActionsRunAssumption
  <2>6. AllWatched'
    <3>1. \A c \in handling \ handling' : c.run = r
      BY <1>1
    <3>2. queue \cup RunsCancelledBy(row') \subseteq queue'
      BY <2>1, <2>2
    <3> QED BY <1>1, <2>2, <2>3, <2>4, <2>5, <3>1, <3>2, CheckedWakes
  <2>7. OldDone'
    <3>1. Keeps(row, o.rs)
      BY <2>4, KeepsTrans DEF CheckedIn
    <3> QED BY <2>1, <2>2, <2>3, <3>1, CommitOld DEF OldDone, Keeps
  <2>8. CallsLatest'
    BY <1>1, <2>2, <2>3 DEF CallsLatest
  <2> QED BY <2>6, <2>7, <2>8
<1> QED BY <1>3, <1>4
-----------------------------------------------------------------------------
(***************************************************************************)
(* An approval.                                                            *)
(***************************************************************************)

(* What an approval does to the jobs of its run: those without needs that  *)
(* are written were blocked, and wait or are cancelled; if none is written *)
(* and the others are in the group, the group is held.                     *)
Approves(r, held) ==
  LET x == <<r, latest[r]>>
      first == Roots(wf[r], wf[r].jobs)
  IN /\ row' \in Rows /\ Keeps(row, row')
     /\ \A y \in Attempt \ {x} : SoftAt(row, row', y)
     /\ \E written \in SUBSET first :
          /\ first \ wf[r].grouped \subseteq written
          /\ \A j \in written : /\ row[x][j].st = "blocked" /\ row'[x][j].grp = row[x][j].grp
                                /\ row'[x][j].st \in {"waiting", "cancelled"}
          /\ \A j \in Name \ written : Soft(row[x][j], row'[x][j])
          /\ \A j \in first \cap wf[r].grouped : row[x][j].grp /\ (j \in written \/ held)

(* ApproveRuns writes the jobs without needs, or leaves them to a group    *)
(* that is held, and cancels others.                                       *)
LEMMA ApproveApproves ==
  ASSUME IInv, StartInv, NEW r \in Run, ApproveRuns(r), cut' = {}
  PROVE  /\ Approves(r, ShouldBlock(wf[r].group, row, attempt)) /\ latest[r] # 0
         /\ \E more : Commit(row', latest, more) /\ queue' = queue \cup RunsCancelledBy(row')
<1> DEFINE w == wf[r]
           x == <<r, latest[r]>>
           first == Roots(w, w.jobs)
           mine == {j \in first \cap w.grouped : row[x][j].grp}
           blocked == ShouldBlock(w.group, row, attempt)
           others == IF mine = {} THEN {} ELSE Previous(w.group, row, attempt, {x})
           written == (first \ w.grouped) \cup (IF blocked THEN {} ELSE mine)
           kept(last) == IF mine = {last} \/ ~blocked THEN {<<x, last>>} ELSE {}
           c(last) == CancelJobs(row, others \ kept(last))
           f(last) == [j \in Name |->
                       IF j \notin written THEN c(last)[x][j]
                       ELSE IF j \in mine \ {last} THEN Cancelled(x, Waiting(row[x][j]))
                       ELSE Waiting(row[x][j])]
           rs(last) == [c(last) EXCEPT ![x] = f(last)]
           more == (IF \A j \in written : row[x][j].st = "blocked" THEN {} ELSE {"revived"})
                   \cup (IF first \cap w.grouped = mine THEN {} ELSE {"unevaluated"})
<1>1. PICK last \in IF mine = {} THEN {None} ELSE mine :
        Commit(rs(last), latest, more) /\ queue' = queue \cup RunsCancelledBy(rs(last))
  BY DEF ApproveRuns
<1>2. row \in Rows /\ x \in Attempt /\ TypeInv /\ latest[r] # 0
  <2>1. latest[r] # 0 /\ TypeInv
    BY DEF ApproveRuns, IInv
  <2>2. row \in Rows
    BY <2>1 DEF TypeInv, TypeOK, Rows
  <2> QED BY <2>1, <2>2, Places
<1>3. /\ c(last) \in Rows /\ Keeps(row, c(last))
      /\ \A y \in Attempt : SoftAt(row, c(last), y)
  BY <1>2, CancelJobsKeeps, CancelJobsSoft DEF Keeps
<1>4. row' = rs(last) /\ more = {} /\ cut = {}
  <2>1. Commit(rs(last), latest, more)
    BY <1>1
  <2> HIDE DEF rs, more
  <2> QED BY <2>1, CommitCut
<1>5. (\A j \in written : row[x][j].st = "blocked") /\ first \cap w.grouped = mine
  BY <1>4
<1>6. Tidy(row)
  BY <1>4 DEF StartInv, GroupInv, InOrder
<1>7. /\ first \subseteq Name /\ written \subseteq first /\ first \ w.grouped \subseteq written
      /\ \A j \in mine : row[x][j].grp /\ (j \in written \/ blocked)
  <2>1. w # None
    <3>1. latest[r] \in Nat /\ InOrder
      BY <1>2, <1>4, Places DEF InOrder
    <3>2. Placed /\ x[1] = r /\ x[2] <= latest[x[1]]
      BY <3>1 DEF StartInv, NeedsInv
    <3> HIDE DEF x
    <3> QED BY <1>2, <3>2 DEF Placed
  <2>2. w.jobs \subseteq Name
    <3>1. w \in Workflow
      BY <1>2, <2>1 DEF TypeInv, TypeOK
    <3> QED BY <3>1, ActionsRunAssumption DEF Definition
  <2> QED BY <2>2 DEF Roots
<1> HIDE DEF c, written, mine, first, x, blocked, more
<1>8. ASSUME NEW j \in Name
      PROVE  /\ f(last)[j] \in Row /\ Kept(row[x][j], f(last)[j])
             /\ j \in written => /\ f(last)[j].grp = row[x][j].grp
                                 /\ f(last)[j].st \in {"waiting", "cancelled"}
             /\ j \notin written => Soft(row[x][j], f(last)[j])
  <2> DEFINE u == row[x][j]
  <2>1. u \in Row /\ c(last)[x][j] \in Row /\ Kept(u, c(last)[x][j]) /\ Soft(u, c(last)[x][j])
    BY <1>2, <1>3 DEF Keeps, Rows, SoftAt
  <2>2. CASE j \notin written
    BY <2>1, <2>2
  <2>3. CASE j \in written
    <3>1. u.st = "blocked" /\ u \in Wide /\ u.task = "none"
      BY <1>2, <1>5, <1>6, <2>1, <2>3, RowFields DEF Tidy, Unclaimed, Pending
    <3> HIDE DEF u
    <3>2. /\ Waiting(u) \in Row /\ Waiting(u).st = "waiting" /\ Waiting(u).task = "none"
          /\ Waiting(u).grp = u.grp
      <4>1. Waiting(u).task = "none" /\ Waiting(u).grp = u.grp
        BY <3>1 DEF Waiting, Wide
      <4> QED BY <2>1, <4>1, WaitingType
    <3>3. /\ Cancelled(x, Waiting(u)) \in Row /\ Cancelled(x, Waiting(u)).st = "cancelled"
          /\ Cancelled(x, Waiting(u)).grp = u.grp
      <4>1. Soft(Waiting(u), Cancelled(x, Waiting(u)))
        BY <3>2, CancelledSoft
      <4> QED BY <3>2, <4>1, CancelledTame, CancelledKept DEF Pending, Soft
    <3>4. f(last)[j] \in {Waiting(u), Cancelled(x, Waiting(u))}
      BY <2>3 DEF u
    <3> HIDE DEF f
    <3>5. f(last)[j] \in Row /\ f(last)[j].grp = u.grp /\ f(last)[j].st \in {"waiting", "cancelled"}
      BY <3>2, <3>3, <3>4
    <3> QED BY <2>3, <3>1, <3>5 DEF Kept, Done, u
  <2> QED BY <2>2, <2>3
<1>9. f(last) \in [Name -> Row] /\ \A j \in Name : Kept(row[x][j], f(last)[j])
  BY <1>8
<1> HIDE DEF f
<1>10. Keeps(row, rs(last))
  BY <1>2, <1>3, <1>9, WriteKeeps
<1>11. rs(last)[x] = f(last) /\ \A y \in Attempt \ {x} : rs(last)[y] = c(last)[y]
  BY <1>2, <1>3 DEF Rows
<1> HIDE DEF rs
<1>12. row' \in Rows /\ Keeps(row, row') /\ \A y \in Attempt \ {x} : SoftAt(row, row', y)
  BY <1>3, <1>4, <1>10, <1>11 DEF SoftAt, Keeps
<1>13. /\ \A j \in written : /\ row[x][j].st = "blocked" /\ row'[x][j].grp = row[x][j].grp
                             /\ row'[x][j].st \in {"waiting", "cancelled"}
       /\ \A j \in Name \ written : Soft(row[x][j], row'[x][j])
  BY <1>4, <1>5, <1>7, <1>8, <1>11
<1>14. written \in SUBSET first /\ first \ w.grouped \subseteq written
       /\ \A j \in first \cap w.grouped : row[x][j].grp /\ (j \in written \/ blocked)
  BY <1>5, <1>7
<1>15. Approves(r, blocked)
  BY <1>12, <1>13, <1>14 DEF Approves, x, first
<1> QED BY <1>1, <1>2, <1>4, <1>15 DEF blocked

(* So that the jobs of the run start, or wait for a group that is busy.    *)
LEMMA ApproveWakes ==
  ASSUME IInv, StartInv, WakeInv, NEW r \in Run, ApproveRuns(r) PROVE WakeInv'
<1> DEFINE w == wf[r]
           x == <<r, latest[r]>>
           first == Roots(w, w.jobs)
           held == ShouldBlock(w.group, row, attempt)
<1> SUFFICES ASSUME cut' = {} PROVE AllWatched' /\ OldDone' /\ CallsLatest'
  BY DEF WakeInv
<1>1. /\ Approves(r, held) /\ latest[r] # 0
      /\ \E more : Commit(row', latest, more) /\ queue' = queue \cup RunsCancelledBy(row')
  BY ApproveApproves
<1>2. PICK more : Commit(row', latest, more)
  BY <1>1
<1>3. /\ cut = {} /\ latest' = latest /\ wf' = wf /\ report' = report /\ handling' = handling
      /\ need' = [need EXCEPT ![r] = FALSE] /\ queue' = queue \cup RunsCancelledBy(row')
  BY <1>1, CommitCut DEF ApproveRuns
<1>4. /\ AllWatched /\ OldDone /\ CallsLatest /\ TypeInv /\ row \in Rows
      /\ need \in [Run -> BOOLEAN] /\ x \in Attempt
  BY <1>1, <1>3, Places DEF WakeInv, IInv, TypeInv, TypeOK, Rows
<1>5. PICK written \in SUBSET first :
        /\ first \ w.grouped \subseteq written
        /\ \A j \in written : /\ row[x][j].st = "blocked" /\ row'[x][j].grp = row[x][j].grp
                              /\ row'[x][j].st \in {"waiting", "cancelled"}
        /\ \A j \in Name \ written : Soft(row[x][j], row'[x][j])
        /\ \A j \in first \cap w.grouped : row[x][j].grp /\ (j \in written \/ held)
  BY <1>1 DEF Approves
<1>6. \A s \in Run : Awake(s) => Awake(s)'
  BY <1>3 DEF Awake
<1>7. \A s \in Run : latest[s] # 0 /\ ~Awake(s)' => NoneCancelled(row, row', <<s, latest[s]>>)
  BY <1>3, <1>4, CancelledAwake
<1>8. ASSUME NEW s \in Run, latest[s] # 0
      PROVE  /\ YieldAt(row, row', <<s, latest[s]>>)
             /\ s # r => SoftAt(row, row', <<s, latest[s]>>)
  <2>1. CASE s # r
    <3>1. <<s, latest[s]>> \in Attempt \ {x}
      BY <1>4, <1>8, <2>1, Places
    <3>2. SoftAt(row, row', <<s, latest[s]>>)
      BY <1>1, <3>1 DEF Approves
    <3> QED BY <3>2, SoftYields
  <2>2. CASE s = r
    <3> SUFFICES ASSUME NEW j \in Name PROVE Yield(row[x][j], row'[x][j])
      BY <2>2 DEF YieldAt
    <3>1. CASE j \in written
      BY <1>5, <3>1 DEF Yield, Done, Out, Active
    <3>2. CASE j \notin written
      <4>1. Soft(row[x][j], row'[x][j])
        BY <1>5, <3>2
      <4> QED BY <4>1 DEF Soft, Yield, Out, Pending, Active, Done
    <3> QED BY <3>1, <3>2
  <2> QED BY <2>1, <2>2
<1>9. ASSUME NEW g, Busy(g) PROVE Busy(g)'
  <2>1. PICK s \in Run : Keeper(s, g)
    BY <1>9 DEF Busy
  <2>2. latest[s] # 0
    BY <2>1 DEF Keeper
  <2>3. \A j \in Name : Hands(row[<<s, latest[s]>>][j], row'[<<s, latest[s]>>][j], Awake(s)')
    BY <1>7, <1>8, <2>2, YieldHands
  <2>4. Keeper(s, g)'
    BY <1>3, <1>6, <2>1, <2>3, KeeperKeeps
  <2> QED BY <2>4 DEF Busy
<1>10. ASSUME NEW t \in Run, t # r, latest[t] # 0 PROVE Watched(t)'
  <2>1. Watched(t) /\ need'[t] = need[t]
    BY <1>3, <1>4, <1>10 DEF AllWatched
  <2>2. ~Awake(t)' => Alike(row, row', <<t, latest[t]>>)
    BY <1>7, <1>8, <1>10, SoftAlike
  <2> QED BY <1>3, <1>6, <1>9, <2>1, <2>2, StaysWatched
<1>11. ASSUME ~Awake(r)' PROVE Watched(r)'
  <2>1. ~Awake(r) /\ Watched(r) /\ NoneCancelled(row, row', x) /\ need'[r] = FALSE
    BY <1>1, <1>3, <1>4, <1>6, <1>7, <1>11 DEF AllWatched
  <2>2. w # None /\ w \in Workflow
    <3>1. latest[r] \in Nat
      BY <1>4, Places
    <3>2. w # None
      BY <1>3, <1>4, <3>1 DEF StartInv, NeedsInv, InOrder, Placed
    <3> QED BY <1>4, <3>2 DEF TypeInv, TypeOK
  <2>3. first \subseteq w.jobs /\ w.jobs \subseteq Name /\ first # {}
    <3>1. PICK j \in w.jobs : w.needs[j] \cap w.jobs = {}
      BY <2>2, ActionsRunAssumption
    <3>2. j \in first
      BY <3>1 DEF Roots
    <3> QED BY <2>2, <3>2, ActionsRunAssumption DEF Roots, Definition
  <2>4. \A j \in written : j \in Name /\ row'[x][j].st = "waiting"
    <3> SUFFICES ASSUME NEW j \in written PROVE j \in Name /\ row'[x][j].st = "waiting"
      OBVIOUS
    <3>1. j \in Name /\ row[x][j].st \in Pending
      BY <1>5, <2>3 DEF Pending
    <3> QED BY <1>5, <2>1, <3>1 DEF NoneCancelled
  <2>5. \A j \in Name \ written : /\ row'[x][j].grp = row[x][j].grp
                                  /\ \/ row'[x][j].st = row[x][j].st
                                     \/ {row'[x][j].st, row[x][j].st} \subseteq Out
    BY <1>5, <2>1 DEF NoneCancelled, Soft
  <2>6. CASE w.group # None /\ written # {}
    <3>1. Lively(row', x)
      BY <2>4, <2>6 DEF Lively, Out
    <3> QED BY <1>3, <2>6, <3>1 DEF Watched
  <2>7. CASE w.group = None
    <3>1. ~w.whole /\ w.grouped = {}
      BY <2>2, <2>7, ActionsRunAssumption
    <3>2. written = first
      BY <1>5, <3>1
    <3>3. ~Stuck(w, row, x)
      <4>1. Tidy(row)
        BY <1>3 DEF StartInv, GroupInv, InOrder
      <4>2. \A j \in Name : row[x][j].st = "blocked" /\ row[x][j].grp => j \in w.grouped
        BY <1>4, <4>1 DEF Tidy
      <4> QED BY <3>1, <4>2 DEF Stuck
    <3>4. Quiet(w, row, x, need[r])
      BY <2>1, <2>7, <3>3 DEF Watched
    <3>5. /\ WithStatus(row', x, {"blocked"}) \subseteq WithStatus(row, x, {"blocked"}) \ first
          /\ WithStatus(row', x, {"success"}) = WithStatus(row, x, {"success"})
          /\ WithStatus(row', x, Done) = WithStatus(row, x, Done)
          /\ WithStatus(row', x, Done \ {"success"}) = WithStatus(row, x, Done \ {"success"})
      <4>1. "blocked" \notin Out \cup Done /\ Done \cap Out = {} /\ "success" \in Done
            /\ "waiting" \notin Done /\ "waiting" # "blocked"
        BY DEF Out, Active, Done
      <4>2. ASSUME NEW j \in Name
            PROVE  /\ row'[x][j].st = "blocked" => row[x][j].st = "blocked" /\ j \notin first
                   /\ row'[x][j].st \in Done \/ row[x][j].st \in Done => row'[x][j].st = row[x][j].st
        BY <1>5, <2>4, <2>5, <3>2, <4>1
      <4> QED BY <4>1, <4>2 DEF WithStatus
    <3>6. \A S : Skippable(w, row', x, S) => Skippable(w, row, x, S)
      BY <3>5 DEF Skippable
    <3>7. StartsOf(w, row', x) \subseteq StartsOf(w, row, x) \ first
      BY <3>5 DEF StartsOf
    <3>8. Quiet(w, row', x, FALSE)
      <4>1. StartsOf(w, row, x) \subseteq first
        BY <3>4 DEF Quiet
      <4> QED BY <3>4, <3>6, <3>7, <4>1 DEF Quiet
    <3> QED BY <1>3, <2>1, <3>8 DEF Watched
  <2>8. CASE w.group # None /\ written = {}
    <3>1. first \subseteq w.grouped /\ held /\ \A j \in first : row[x][j].grp
      BY <1>5, <2>3, <2>8
    <3>2. Alike(row, row', x)
      BY <2>5, <2>8 DEF Alike
    <3>3. Busy(w.group)'
      <4>1. attempt = AttemptsWith(row) /\ Lag(row, row)
        BY <1>4, SameRowsSame DEF TypeInv
      <4>2. ASSUME NEW s \in Run, NEW g, Blocker(s, g, row)
            PROVE  /\ report'[s] = report[s] /\ latest'[s] = latest[s] /\ wf'[s] = wf[s]
                   /\ YieldAt(row, row', <<s, latest[s]>>)
                   /\ \A j \in Name : row[<<s, latest[s]>>][j].grp => row'[<<s, latest[s]>>][j].grp
                   /\ ~Awake(s)' => NoneCancelled(row, row', <<s, latest[s]>>)
        <5>1. latest[s] # 0
          BY <4>2 DEF Blocker
        <5> QED BY <1>3, <1>7, <1>8, <5>1 DEF YieldAt, Yield
      <4>3. ASSUME NEW g, g = w.group PROVE Busy(g)'
        <5>1. g # None /\ ShouldBlock(g, row, AttemptsWith(row))
          BY <2>8, <3>1, <4>1, <4>3
        <5> HIDE DEF held
        <5> QED BY <1>3, <1>4, <4>1, <4>2, <5>1, HeldStaysBusy
      <4>4. \A g : g = w.group => Busy(g)'
        BY <4>3
      <4> QED BY <1>3, <4>4
    <3>4. CASE Stuck(w, row, x)
      <4>1. Stuck(w, row', x)
        BY <3>2, <3>4, AlikeSame
      <4> QED BY <1>3, <3>3, <4>1 DEF Watched
    <3>5. CASE Lively(row, x)
      <4>1. Lively(row', x)
        BY <3>2, <3>5, AlikeSame
      <4> QED BY <1>3, <2>8, <4>1 DEF Watched
    <3>6. CASE Quiet(w, row, x, need[r])
      <4>1. Quiet(w, row', x, need[r])
        BY <3>2, <3>6, AlikeSame
      <4>2. CASE StartsOf(w, row', x) = {}
        <5>1. Quiet(w, row', x, FALSE)
          BY <4>1, <4>2 DEF Quiet
        <5> QED BY <1>3, <2>1, <5>1 DEF Watched
      <4>3. CASE StartsOf(w, row', x) # {}
        <5>1. PICK j \in StartsOf(w, row', x) : j \in first
          BY <4>1, <4>3 DEF Quiet
        <5>2. row'[x][j].st = "blocked" /\ j \in Name /\ row'[x][j].grp
          BY <3>1, <3>2, <5>1 DEF StartsOf, WithStatus, Alike
        <5>3. Stuck(w, row', x)
          BY <5>2 DEF Stuck
        <5> QED BY <1>3, <3>3, <5>3 DEF Watched
      <4> QED BY <4>2, <4>3
    <3> QED BY <2>1, <3>4, <3>5, <3>6 DEF Watched
  <2> QED BY <2>6, <2>7, <2>8
<1>12. AllWatched'
  BY <1>3, <1>10, <1>11 DEF AllWatched, Watched
<1>13. OldDone'
  BY <1>1, <1>2, <1>3, <1>4, CommitOld DEF OldDone, Approves, Keeps
<1>14. CallsLatest'
  BY <1>3, <1>4 DEF CallsLatest
<1> QED BY <1>12, <1>13, <1>14
-----------------------------------------------------------------------------
(***************************************************************************)
(* New attempts.                                                           *)
(***************************************************************************)

(* The jobs of a new attempt in the group: the last waits, or is blocked   *)
(* and the group is held by others.                                        *)
GroupLast(x, g, new, SG, rs) ==
  SG # {} => \E last \in SG :
    /\ rs[x][last].grp = new[last].grp
    /\ \/ rs[x][last].st = "waiting"
       \/ /\ rs[x][last].st = "blocked"
          /\ \E base : /\ ShouldBlock(g, base, AttemptsWith(base)) /\ base[x] = new
                       /\ \A y \in Attempt \ {x} : SoftAt(row, base, y) /\ SoftAt(base, rs, y)

(* What StartInGroup leaves.                                               *)
LEMMA NewAttemptSoft ==
  ASSUME row \in Rows, NEW r, NEW w, NEW g, NEW x \in Attempt, NEW new \in [Name -> Row],
         NEW SG \in SUBSET Name,
         NEW rs \in StartInGroup([AfterRunConcurrency(r, w) EXCEPT ![x] = new], g, x, SG)
  PROVE  /\ \A y \in Attempt \ {x} : SoftAt(row, rs, y)
         /\ SG = {} => rs[x] = new
         /\ GroupLast(x, g, new, SG, rs)
<1> DEFINE c == AfterRunConcurrency(r, w)
           base == [c EXCEPT ![x] = new]
<1>1. c \in Rows /\ \A y \in Attempt : SoftAt(row, c, y)
  <2>1. \A y \in Attempt : SoftAt(row, row, y)
    BY DEF SoftAt, Soft
  <2> QED BY <2>1, RunConcurrencyKeeps, CancelJobsSoft DEF AfterRunConcurrency, Keeps
<1> HIDE DEF c
<1>2. base \in Rows /\ base[x] = new /\ \A y \in Attempt \ {x} : base[y] = c[y]
  BY <1>1 DEF Rows
<1>3. rs \in StartInGroup(base, g, x, SG)
  BY DEF c
<1> HIDE DEF base
<1>4. \A y \in Attempt \ {x} : SoftAt(row, base, y)
  BY <1>1, <1>2 DEF SoftAt
<1>5. CASE SG = {}
  <2>1. rs = base
    BY <1>3, <1>5 DEF StartInGroup
  <2> QED BY <1>2, <1>4, <1>5, <2>1 DEF GroupLast
<1>6. CASE SG # {}
  <2> DEFINE others == Previous(g, base, AttemptsWith(base), {x}) \ ({x} \X SG)
             held == ShouldBlock(g, base, AttemptsWith(base))
             st == IF held THEN "blocked" ELSE "waiting"
             d == CancelJobs(base, others)
             f(last) == [j \in Name |->
                IF j \notin SG THEN d[x][j]
                ELSE [d[x][j] EXCEPT !.st = IF j = last THEN st ELSE "cancelled"]]
  <2>1. PICK last \in SG : rs = [d EXCEPT ![x] = f(last)]
    BY <1>3, <1>6 DEF StartInGroup
  <2>2. /\ d \in Rows /\ \A y \in Attempt : SoftAt(base, d, y)
    BY <1>2, CancelJobsKeeps, CancelJobsSoft DEF Keeps
  <2> HIDE DEF d, held
  <2>3. /\ \A y \in Attempt \ {x} : rs[y] = d[y]
        /\ rs[x] = f(last)
    BY <2>1, <2>2 DEF Rows
  <2>4. last \in Name /\ d[x][last] \in Row /\ Soft(new[last], d[x][last])
    BY <1>2, <2>2 DEF Rows, SoftAt
  <2>5. rs[x][last] = [d[x][last] EXCEPT !.st = st]
    BY <2>3, <2>4
  <2>6. rs[x][last].st = st /\ rs[x][last].grp = new[last].grp
    <3>1. d[x][last] \in Wide
      BY <2>4, RowFields
    <3> HIDE DEF st
    <3> QED BY <2>4, <2>5, <3>1 DEF Wide, Soft
  <2>7. \A y \in Attempt \ {x} : SoftAt(base, rs, y)
    BY <2>2, <2>3 DEF SoftAt
  <2>8. \A y \in Attempt \ {x} : SoftAt(row, rs, y)
    BY <1>4, <2>7, SoftTrans
  <2>9. rs[x][last].st = "waiting" \/ (rs[x][last].st = "blocked" /\ held)
    BY <2>6
  <2> HIDE DEF f, st
  <2>10. GroupLast(x, g, new, SG, rs)
    <3>1. held => \E b : /\ ShouldBlock(g, b, AttemptsWith(b)) /\ b[x] = new
                        /\ \A y \in Attempt \ {x} : SoftAt(row, b, y) /\ SoftAt(b, rs, y)
      BY <1>2, <1>4, <2>7 DEF held
    <3> QED BY <2>6, <2>9, <3>1 DEF GroupLast
  <2> QED BY <1>6, <2>8, <2>10
<1> QED BY <1>5, <1>6

(* Of jobs without cyclic needs none can be skipped or started as long as  *)
(* each needs another, or the run is not approved.                         *)
LEMMA FreshQuiet ==
  ASSUME NEW w \in Workflow, NEW again \in SUBSET w.jobs, NEW rs, NEW x, NEW b \in BOOLEAN,
         \A j \in again : rs[x][j].st \in Pending,
         \A j \in Name : rs[x][j].st = "blocked" =>
           /\ j \in again
           /\ w.needs[j] \cap again # {} \/ (b /\ j \in Roots(w, w.jobs))
  PROVE  Quiet(w, rs, x, b)
<1>0. again \subseteq Name /\ w.jobs \subseteq Name /\ \A j \in Name : w.needs[j] \subseteq w.jobs
  BY ActionsRunAssumption DEF Definition
<1>1. ASSUME NEW j \in again PROVE \A T : j \notin WithStatus(rs, x, T) \/ T \cap Pending # {}
  BY DEF WithStatus
<1>2. Pending \cap Done = {} /\ "success" \notin Pending
  BY DEF Pending, Done
<1>3. StartsOf(w, rs, x) \subseteq IF b THEN Roots(w, w.jobs) ELSE {}
  <2> SUFFICES ASSUME NEW j \in StartsOf(w, rs, x) PROVE b /\ j \in Roots(w, w.jobs)
    OBVIOUS
  <2>1. j \in Name /\ rs[x][j].st = "blocked" /\ w.needs[j] \subseteq WithStatus(rs, x, {"success"})
    BY DEF StartsOf, WithStatus
  <2>2. w.needs[j] \cap again = {}
    BY <1>1, <1>2, <2>1
  <2> QED BY <2>1, <2>2
<1>4. ASSUME NEW S, Skippable(w, rs, x, S) PROVE S = {}
  <2> SUFFICES ASSUME S # {} PROVE FALSE
    OBVIOUS
  <2>1. \A j \in S : j \in Name /\ rs[x][j].st = "blocked"
    BY <1>4 DEF Skippable, WithStatus
  <2>2. S \in SUBSET w.jobs
    BY <2>1
  <2>3. PICK j \in S : w.needs[j] \cap S = {}
    BY <2>2, ActionsRunAssumption
  <2>4. /\ w.needs[j] \subseteq WithStatus(rs, x, Done) \cup S
        /\ w.needs[j] \cap (WithStatus(rs, x, Done \ {"success"}) \cup S) # {}
    BY <1>4 DEF Skippable
  <2>5. w.needs[j] \cap again = {}
    BY <1>1, <1>2, <2>3, <2>4
  <2>6. j \in Roots(w, w.jobs)
    BY <2>1, <2>5
  <2>7. w.needs[j] = {}
    BY <1>0, <2>1, <2>6 DEF Roots
  <2> QED BY <2>4, <2>7
<1> QED BY <1>3, <1>4 DEF Quiet

(* An attempt with only ended jobs, and with any, is recorded as done.     *)
LEMMA EndedDone ==
  ASSUME NEW rs, NEW y, Ended(rs, y), NEW j \in Name, rs[y][j].st # "none"
  PROVE  AggregateJobStatus(JobStatuses(rs, y)) \in Done
<1> DEFINE S == JobStatuses(rs, y)
<1>1. S \subseteq Done /\ S # {}
  BY DEF JobStatuses, Ended
<1> HIDE DEF S
<1>2. /\ S \subseteq {"success", "failure", "cancelled", "skipped"}
      /\ {"success", "failure", "cancelled", "skipped"} = Done
  BY <1>1 DEF Done
<1>3. /\ "cancelling" \notin S /\ "running" \notin S
      /\ "waiting" \notin S /\ "blocked" \notin S
  BY <1>2
<1>4. "cancelled" \in S \/ "failure" \in S \/ S \subseteq {"success", "skipped"}
  BY <1>2
<1>5. AggregateJobStatus(S) \in {"success", "failure", "cancelled", "skipped"}
  BY <1>1, <1>3, <1>4 DEF AggregateJobStatus
<1> QED BY <1>2, <1>5 DEF S

(* The rows that are inserted, and which of them start: none as the whole  *)
(* run is blocked or unapproved, else those that need no other.            *)
Inserts(w, again, new, SG, unapproved) ==
  /\ again \in SUBSET w.jobs /\ again # {} /\ new \in [Name -> Row] /\ SG \in SUBSET Name
  /\ \A j \in again : new[j].st \in Pending
  /\ \A j \in Name : /\ new[j].st \notin Active
                     /\ new[j].st = "blocked" => j \in again
  /\ \A j \in SG : new[j].grp /\ j \in w.grouped
  /\ \/ RunBlocked(w)
     \/ unapproved /\ again = w.jobs /\ SG = {}
     \/ /\ SG = Roots(w, again) \cap w.grouped
        /\ \A j \in Roots(w, again) : new[j].st = "waiting"

(* A run that nobody is about to check, and whose attempt so far has ended *)
(* if it has any, gets attempt x; other attempts only have jobs cancelled, *)
(* and their runs are pushed.                                              *)
Joins(r, x) ==
  /\ cut = {} /\ x = <<r, latest[r] + 1>> /\ x \in Attempt
  /\ ~Awake(r) /\ (latest[r] # 0 => Ended(row, <<r, latest[r]>>))
  /\ \A y \in Attempt \ {x} : SoftAt(row, row', y)
  /\ \A s \in Run \ {r} : wf'[s] = wf[s] /\ need'[s] = need[s] /\ latest'[s] = latest[s]
  /\ queue' = queue \cup RunsCancelledBy(row')
  /\ latest'[r] = latest[r] + 1 /\ report' = report /\ handling' = handling

(* The runs that were there stay watched, and busy groups busy: the run    *)
(* that gets the attempt kept no group busy.                               *)
LEMMA JoinsKeeps ==
  ASSUME IInv, AllWatched, OldDone, NEW r \in Run, NEW x, Joins(r, x)
  PROVE  /\ \A t \in Run \ {r} : latest[t] # 0 => Watched(t)'
         /\ \A g, rs : /\ g # None /\ Lag(row, rs) /\ ShouldBlock(g, rs, AttemptsWith(rs))
                       /\ \A y \in Attempt \ {x} : SoftAt(rs, row', y)
                       => Busy(g)'
<1>1. TypeInv /\ cut = {} /\ report' = report
  BY DEF IInv, Joins
<1>2. \A s \in Run : Awake(s) => Awake(s)'
  BY DEF Awake, Joins
<1>3. ASSUME NEW s \in Run \ {r}, latest[s] # 0
      PROVE  /\ <<s, latest[s]>> \in Attempt \ {x}
             /\ latest'[s] = latest[s] /\ wf'[s] = wf[s] /\ need'[s] = need[s]
             /\ SoftAt(row, row', <<s, latest[s]>>) /\ YieldAt(row, row', <<s, latest[s]>>)
             /\ ~Awake(s)' => NoneCancelled(row, row', <<s, latest[s]>>)
  <2>1. <<s, latest[s]>> \in Attempt /\ <<s, latest[s]>> # x
    BY <1>1, <1>3, Places DEF Joins
  <2>2. latest'[s] = latest[s] /\ wf'[s] = wf[s] /\ need'[s] = need[s]
    BY DEF Joins
  <2>3. SoftAt(row, row', <<s, latest[s]>>)
    BY <2>1 DEF Joins
  <2>4. RunsCancelledBy(row') \subseteq queue'
    BY DEF Joins
  <2>5. ~Awake(s)' => NoneCancelled(row, row', <<s, latest[s]>>)
    BY <1>1, <1>3, <2>4, CancelledAwake
  <2> QED BY <2>1, <2>2, <2>3, <2>5, SoftYields
<1>4. /\ ~Awake(r) /\ report[r].pc = "idle"
      /\ latest[r] # 0 => \A j \in Name : row[<<r, latest[r]>>][j].st \notin Out
  BY DEF Joins, Awake, Ended, Out, Active, Done
<1>5. ASSUME NEW g, Busy(g) PROVE Busy(g)'
  <2>1. PICK s \in Run : Keeper(s, g)
    BY <1>5 DEF Busy
  <2>2. latest[s] # 0 /\ s # r
    BY <1>4, <2>1 DEF Keeper, Holder
  <2>3. \A j \in Name : Hands(row[<<s, latest[s]>>][j], row'[<<s, latest[s]>>][j], Awake(s)')
    BY <1>3, <2>2, YieldHands
  <2>4. Keeper(s, g)'
    BY <1>2, <1>3, <2>1, <2>2, <2>3, KeeperKeeps
  <2> QED BY <2>4 DEF Busy
<1>6. ASSUME NEW t \in Run \ {r}, latest[t] # 0 PROVE Watched(t)'
  <2>1. Watched(t)
    BY <1>6 DEF AllWatched
  <2>2. ~Awake(t)' => Alike(row, row', <<t, latest[t]>>)
    BY <1>3, <1>6, SoftAlike
  <2> QED BY <1>2, <1>3, <1>5, <1>6, <2>1, <2>2, StaysWatched
<1>7. ASSUME NEW g, NEW rs, g # None, Lag(row, rs), ShouldBlock(g, rs, AttemptsWith(rs)),
             \A y \in Attempt \ {x} : SoftAt(rs, row', y)
      PROVE  Busy(g)'
  <2>1. ASSUME NEW s \in Run, Blocker(s, g, rs)
        PROVE  /\ report'[s] = report[s] /\ latest'[s] = latest[s] /\ wf'[s] = wf[s]
               /\ YieldAt(row, row', <<s, latest[s]>>)
               /\ \A j \in Name : rs[<<s, latest[s]>>][j].grp => row'[<<s, latest[s]>>][j].grp
               /\ ~Awake(s)' => NoneCancelled(row, row', <<s, latest[s]>>)
    <3>1. latest[s] # 0 /\ s # r
      BY <1>4, <2>1 DEF Blocker
    <3>2. SoftAt(rs, row', <<s, latest[s]>>)
      BY <1>3, <1>7, <3>1
    <3> QED BY <1>1, <1>3, <3>1, <3>2 DEF SoftAt, Soft
  <2> QED BY <1>1, <1>7, <2>1, HeldStaysBusy
<1> QED BY <1>6, <1>7

(* The run with the new attempt is watched.                                *)
LEMMA JoinsWatched ==
  ASSUME IInv, AllWatched, OldDone, NEW r \in Run, NEW x, Joins(r, x),
         NEW w \in Workflow, wf'[r] = w, need'[r] \in BOOLEAN,
         NEW again, NEW new, NEW SG, Inserts(w, again, new, SG, need'[r]),
         row' \in StartInGroup([AfterRunConcurrency(r, w) EXCEPT ![x] = new], w.group, x, SG)
  PROVE  Watched(r)'
<1>1. /\ x \in Attempt /\ x = <<r, latest'[r]>> /\ row \in Rows /\ TypeOK
      /\ wf'[r].group = w.group
  BY DEF Joins, IInv, TypeInv, TypeOK, Rows
<1>2. /\ again \in SUBSET w.jobs /\ again # {} /\ new \in [Name -> Row] /\ SG \in SUBSET Name
      /\ \A j \in again : new[j].st \in Pending
      /\ \A j \in Name : /\ new[j].st \notin Active
                         /\ new[j].st = "blocked" => j \in again
      /\ \A j \in SG : new[j].grp /\ j \in w.grouped
  BY DEF Inserts
<1>3. w.jobs \subseteq Name /\ (w.group = None => ~w.whole /\ w.grouped = {})
  BY ActionsRunAssumption DEF Definition
<1>4. \A g, rs : /\ g # None /\ Lag(row, rs) /\ ShouldBlock(g, rs, AttemptsWith(rs))
                 /\ \A y \in Attempt \ {x} : SoftAt(rs, row', y)
                 => Busy(g)'
  BY JoinsKeeps
<1>5. ASSUME Busy(w.group)', Stuck(w, row', x) PROVE Watched(r)'
  <2>1. ASSUME NEW g, g = w.group PROVE Busy(g)'
    BY <1>5, <2>1
  <2>2. Busy(wf[r].group)'
    BY <1>1, <2>1
  <2> QED BY <1>1, <1>5, <2>2 DEF Watched
<1>6. ASSUME Lively(row', x), w.group # None PROVE Watched(r)'
  BY <1>1, <1>6 DEF Watched
<1>7. /\ \A y \in Attempt \ {x} : SoftAt(row, row', y)
      /\ SG = {} => row'[x] = new
      /\ GroupLast(x, w.group, new, SG, row')
  <2> DEFINE rs == row'
             g == w.group
  <2>1. rs \in StartInGroup([AfterRunConcurrency(r, w) EXCEPT ![x] = new], g, x, SG)
    OBVIOUS
  <2> HIDE DEF rs, g
  <2>2. /\ \A y \in Attempt \ {x} : SoftAt(row, rs, y)
        /\ SG = {} => rs[x] = new
        /\ GroupLast(x, g, new, SG, rs)
    BY <1>1, <1>2, <2>1, NewAttemptSoft
  <2> QED BY <2>2 DEF rs, g
<1>8. CASE RunBlocked(w)
  <2>1. attempt = AttemptsWith(row) /\ Lag(row, row)
    BY <1>1, SameRowsSame
  <2>2. w.group # None /\ ShouldBlock(w.group, row, AttemptsWith(row)) /\ w.whole
    BY <1>3, <1>8, <2>1 DEF RunBlocked
  <2>3. Busy(w.group)'
    BY <1>4, <1>7, <2>1, <2>2
  <2> QED BY <1>5, <2>2, <2>3 DEF Stuck
<1>9. CASE SG # {}
  <2>1. w.group # None
    BY <1>2, <1>3, <1>9
  <2>2. PICK last \in SG :
           /\ row'[x][last].grp = new[last].grp
           /\ \/ row'[x][last].st = "waiting"
              \/ /\ row'[x][last].st = "blocked"
                 /\ \E base : /\ ShouldBlock(w.group, base, AttemptsWith(base)) /\ base[x] = new
                              /\ \A y \in Attempt \ {x} : SoftAt(row, base, y) /\ SoftAt(base, row', y)
    BY <1>7, <1>9 DEF GroupLast
  <2>3. CASE row'[x][last].st = "waiting"
    <3>1. Lively(row', x)
      BY <1>2, <2>3 DEF Lively, Out
    <3> QED BY <1>6, <2>1, <3>1
  <2>4. CASE row'[x][last].st = "blocked" /\ row'[x][last].st # "waiting"
    <3>1. PICK base : /\ ShouldBlock(w.group, base, AttemptsWith(base)) /\ base[x] = new
                      /\ \A y \in Attempt \ {x} : SoftAt(row, base, y) /\ SoftAt(base, row', y)
      BY <2>2, <2>4
    <3>2. Lag(row, base)
      BY <1>2, <3>1 DEF Lag, SoftAt, Soft, Out, Pending, Active
    <3>3. Busy(w.group)'
      BY <1>4, <2>1, <3>1, <3>2
    <3>4. Stuck(w, row', x)
      BY <1>2, <2>2, <2>4 DEF Stuck
    <3> QED BY <1>5, <3>3, <3>4
  <2> QED BY <2>2, <2>3, <2>4
<1>10. CASE need'[r] /\ again = w.jobs /\ SG = {}
  <2>1. row'[x] = new
    BY <1>7, <1>10
  <2>2. \A j \in Name : new[j].st = "blocked" =>
          j \in again /\ (w.needs[j] \cap again # {} \/ j \in Roots(w, w.jobs))
    BY <1>2, <1>10 DEF Roots
  <2>3. Quiet(w, row', x, TRUE)
    BY <1>2, <2>1, <2>2, FreshQuiet
  <2> QED BY <1>1, <1>10, <2>3 DEF Watched
<1>11. CASE SG = {} /\ Roots(w, again) \cap w.grouped = {} /\ \A j \in Roots(w, again) : new[j].st = "waiting"
  <2>1. row'[x] = new
    BY <1>7, <1>11
  <2>2. \A j \in Name : new[j].st = "blocked" => j \in again /\ w.needs[j] \cap again # {}
    BY <1>2, <1>11 DEF Roots
  <2>3. Quiet(w, row', x, FALSE)
    BY <1>2, <2>1, <2>2, FreshQuiet
  <2>4. Quiet(w, row', x, need'[r])
    BY <2>3, QuietAny
  <2> QED BY <1>1, <2>4 DEF Watched
<1> QED BY <1>8, <1>9, <1>10, <1>11 DEF Inserts

(* After a new attempt all runs are watched, the attempts before it are    *)
(* done, and no call of the emitter is about the one before.               *)
LEMMA JoinsWakes ==
  ASSUME IInv, StartInv, WakeInv, NEW r \in Run, NEW x, Joins(r, x), Starts_(x, row'),
         NEW more, Commit(row', [latest EXCEPT ![r] = latest[r] + 1], more), Watched(r)'
  PROVE  WakeInv'
<1>1. /\ cut = {} /\ AllWatched /\ OldDone /\ CallsLatest /\ TypeInv /\ x \in Attempt
      /\ x = <<r, latest[r] + 1>> /\ report[r].pc = "idle" /\ ~Awake(r)
  BY DEF Joins, WakeInv, IInv, Awake
<1>2. /\ \A q \in Run : latest[q] \in Nat
      /\ latest' = [latest EXCEPT ![r] = latest[r] + 1] /\ attempt' = AttemptsWith(row')
  BY <1>1, Places, CommitCut
<1>3. latest'[r] = latest[r] + 1 /\ \A q \in Run \ {r} : latest'[q] = latest[q]
  BY <1>1, <1>2 DEF TypeInv, TypeOK
<1>4. AllWatched'
  BY <1>1, <1>3, JoinsKeeps DEF AllWatched
<1>5. ASSUME NEW y \in Attempt, y[2] < latest[y[1]] PROVE attempt'[y] \in Done
  <2>1. \A z \in Attempt, j \in Name : z[2] < latest[z[1]] => Kept(row[z][j], row'[z][j])
    <3> SUFFICES ASSUME NEW z \in Attempt, z[2] < latest[z[1]], NEW j \in Name
                 PROVE  Kept(row[z][j], row'[z][j])
      OBVIOUS
    <3>1. z # x
      BY <1>1, <1>2
    <3> QED BY <3>1 DEF Starts_
  <2> QED BY <1>1, <1>5, <2>1, CommitOld
<1>6. ASSUME latest[r] # 0 PROVE attempt'[<<r, latest[r]>>] \in Done
  <2> DEFINE y == <<r, latest[r]>>
  <2>1. y \in Attempt /\ y # x
    BY <1>1, <1>2, <1>6, Places
  <2>2. Ended(row, y) /\ attempt[y] = AggregateJobStatus(JobStatuses(row, y))
    BY <1>1, <1>6 DEF Joins, IInv, Statuses, StatusAgrees
  <2>3. \E j \in Name : row[y][j].st # "none"
    <3>1. wf[r] # None /\ \A j \in Name : row[y][j].st # "none" <=> j \in wf[r].jobs
      <4>1. y[1] = r /\ y[2] <= latest[y[1]]
        BY <1>2
      <4> HIDE DEF y
      <4> QED BY <1>1, <2>1, <4>1 DEF StartInv, NeedsInv, InOrder, Placed
    <3>2. wf[r].jobs \subseteq Name /\ wf[r].jobs # {}
      BY <1>1, <3>1, ActionsRunAssumption DEF TypeInv, TypeOK, Definition
    <3> QED BY <3>1, <3>2
  <2>4. attempt[y] \in Done
    <3> HIDE DEF y
    <3> QED BY <2>2, <2>3, EndedDone
  <2>5. SameJobs(row', y)
    <3> HIDE DEF y
    <3> QED BY <2>1, <2>2 DEF Starts_, Ended, SameJobs, Kept
  <2> QED BY <1>2, <2>1, <2>4, <2>5 DEF AttemptsWith
<1>7. OldDone'
  <2> SUFFICES ASSUME NEW y \in Attempt, y[2] < latest'[y[1]] PROVE attempt'[y] \in Done
    BY DEF OldDone
  <2>1. y[1] \in Run /\ y[2] \in Nat /\ y = <<y[1], y[2]>>
    BY <1>1, Places
  <2>2. y[2] < latest[y[1]] \/ (y[1] = r /\ y[2] = latest[r] /\ latest[r] # 0)
    <3>1. y[2] # 0
      BY <1>1, Places
    <3> QED BY <1>2, <1>3, <2>1, <3>1
  <2> QED BY <1>5, <1>6, <2>1, <2>2
<1>8. CallsLatest'
  <2>1. \A h \in handling : h.run # r /\ h.run \in Run
    BY <1>1 DEF Awake, TypeInv, TypeOK, Call
  <2> QED BY <1>1, <1>3, <2>1 DEF CallsLatest, Joins
<1> QED BY <1>4, <1>7, <1>8 DEF WakeInv

(* InsertRun: the jobs are blocked as the run is or until it is approved,  *)
(* else those without needs start or wait for their group.                 *)
LEMMA InsertWakes ==
  ASSUME IInv, StartInv, WakeInv, NEW r \in Run, NEW w \in Workflow, InsertRun(r, w) PROVE WakeInv'
<1> DEFINE x == <<r, 1>>
           first == Roots(w, w.jobs)
           start == IF RunBlocked(w) \/ w.approval THEN {} ELSE first
           new == [j \in Name |->
             IF j \notin w.jobs THEN NoRow
             ELSE [st |-> IF j \in start THEN "waiting" ELSE "blocked", task |-> "none",
                   grp |-> j \in first \cap w.grouped]]
           SG == start \cap w.grouped
<1> SUFFICES ASSUME cut' = {} PROVE WakeInv'
  BY DEF WakeInv
<1>1. PICK rs \in StartInGroup([AfterRunConcurrency(r, w) EXCEPT ![x] = new], w.group, x, SG) :
        Commit(rs, [latest EXCEPT ![r] = 1], {}) /\ queue' = queue \cup RunsCancelledBy(rs)
  BY DEF InsertRun
<1>2. /\ w.jobs \subseteq Name /\ w.jobs # {} /\ w.approval \in BOOLEAN
  BY ActionsRunAssumption DEF Definition
<1>3. TypeInv /\ row \in Rows /\ latest[r] = 0 /\ x \in Attempt
  BY InsertStarts DEF IInv, TypeInv, TypeOK, Rows
<1>4. first \subseteq w.jobs /\ start \subseteq first
  BY DEF Roots
<1>5. \/ RunBlocked(w)
      \/ w.approval /\ SG = {}
      \/ start = first
  OBVIOUS
<1> HIDE DEF first, start
<1>6. ASSUME NEW j \in Name
      PROVE  /\ new[j] \in Row
             /\ j \in w.jobs => new[j].st \in Pending
             /\ new[j].st \notin Active /\ (new[j].st = "blocked" => j \in w.jobs)
             /\ j \in start => new[j].st = "waiting"
             /\ j \in SG => new[j].grp /\ j \in w.grouped /\ new[j].task # "live"
  <2>1. NoRow \in Row /\ NoRow.st = "none"
    BY DEF NoRow, Row
  <2>2. CASE j \notin w.jobs
    BY <1>4, <2>1, <2>2 DEF Active
  <2>3. CASE j \in w.jobs
    <3> DEFINE s == IF j \in start THEN "waiting" ELSE "blocked"
               g == j \in first \cap w.grouped
    <3>1. new[j] = [st |-> s, task |-> "none", grp |-> g]
      BY <2>3
    <3>2. s \in Pending /\ s \notin Active /\ (j \in start => s = "waiting")
      BY DEF Pending, Active
    <3>3. g \in BOOLEAN /\ (j \in SG => g /\ j \in w.grouped)
      BY <1>4
    <3> HIDE DEF s, g, new, SG
    <3>4. new[j] \in Row /\ new[j].st = s /\ new[j].task = "none" /\ new[j].grp = g
      BY <3>1, <3>2, <3>3, NewRow
    <3> QED BY <2>3, <3>2, <3>3, <3>4
  <2> QED BY <2>2, <2>3
<1>7. SG \in SUBSET Name /\ SG \subseteq start
  BY <1>2, <1>4
<1>8. start = first => SG = first \cap w.grouped
  OBVIOUS
<1> HIDE DEF SG
<1>9. new \in [Name -> Row] /\ \E j \in Name : new[j].st # "none"
  BY <1>2, <1>6 DEF Pending
<1> HIDE DEF new
<1>10. Starts_(x, rs)
  <2>1. \A j \in SG : new[j].st \in Pending /\ new[j].task # "live"
    BY <1>6, <1>7 DEF Pending
  <2> QED BY <1>1, <1>3, <1>7, <1>9, <2>1, NewAttempt
<1>11. Inserts(w, w.jobs, new, SG, w.approval)
  <2>1. ASSUME start = first
        PROVE  /\ SG = Roots(w, w.jobs) \cap w.grouped
               /\ \A j \in Roots(w, w.jobs) : new[j].st = "waiting"
    BY <1>2, <1>4, <1>6, <1>8, <2>1 DEF first
  <2> QED BY <1>2, <1>5, <1>6, <1>7, <1>9, <2>1 DEF Inserts
<1>12. /\ row' = rs /\ cut = {} /\ wf'[r] = w /\ need'[r] = w.approval
       /\ \A s \in Run \ {r} : wf'[s] = wf[s] /\ need'[s] = need[s]
       /\ report' = report /\ handling' = handling
  <2>1. wf \in [Run -> Workflow \cup {None}] /\ need \in [Run -> BOOLEAN]
    BY <1>3 DEF TypeInv, TypeOK
  <2>2. /\ wf' = [wf EXCEPT ![r] = w] /\ need' = [need EXCEPT ![r] = w.approval]
        /\ report' = report /\ handling' = handling
    BY DEF InsertRun
  <2>3. row' = rs /\ cut = {}
    BY <1>1, CommitCut
  <2> QED BY <2>1, <2>2, <2>3
<1>13. ~Awake(r)
  <2>1. r \notin queue \cup {h.run : h \in handling}
    BY <1>3 DEF TypeInv, Inserted
  <2>2. report[r].pc = "idle"
    <3> SUFFICES ASSUME report[r].pc # "idle" PROVE FALSE
      OBVIOUS
    <3>1. report[r].att \in Attempt /\ report[r].att[2] <= latest[r]
      BY <1>3 DEF TypeInv, Inserted
    <3>2. report[r].att[2] \in Nat /\ report[r].att[2] # 0
      BY <1>3, <3>1, Places
    <3> QED BY <1>3, <3>1, <3>2
  <2> QED BY <2>1, <2>2 DEF Awake
<1>14. Joins(r, x)
  <2>1. \A y \in Attempt \ {x} : SoftAt(row, rs, y)
    BY <1>1, <1>3, <1>7, <1>9, NewAttemptSoft
  <2>2. latest' = [latest EXCEPT ![r] = 1] /\ latest \in [Run -> 0..MaxAttempt]
    BY <1>1, <1>3, CommitCut DEF TypeInv, TypeOK
  <2>3. /\ latest'[r] = latest[r] + 1 /\ x = <<r, latest[r] + 1>>
        /\ \A s \in Run \ {r} : latest'[s] = latest[s]
    BY <1>3, <2>2
  <2> QED BY <1>1, <1>3, <1>12, <1>13, <2>1, <2>3 DEF Joins
<1> HIDE DEF x
<1>15. Watched(r)'
  <2>1. AllWatched /\ OldDone
    BY <1>12 DEF WakeInv
  <2>2. need'[r] \in BOOLEAN /\ Inserts(w, w.jobs, new, SG, need'[r])
    BY <1>2, <1>11, <1>12
  <2>3. row' \in StartInGroup([AfterRunConcurrency(r, w) EXCEPT ![x] = new], w.group, x, SG)
    BY <1>1, <1>12
  <2> QED BY <1>12, <1>14, <2>1, <2>2, <2>3, JoinsWatched
<1>16. Commit(row', [latest EXCEPT ![r] = latest[r] + 1], {})
  BY <1>1, <1>3, <1>12
<1> QED BY <1>10, <1>12, <1>14, <1>15, <1>16, JoinsWakes

(* execRerunPlan: the jobs that run again wait for each other, for the     *)
(* group or for the run; the others are those of an attempt that has ended.*)
LEMMA RerunWakes ==
  ASSUME IInv, StartInv, WakeInv, NEW p \in plans, ExecRerunPlan(p) PROVE WakeInv'
<1> DEFINE r == p.run
           n == p.attempt + 1
           w == wf[r]
           x == <<r, n>>
           old == p.template
           again == p.jobs
           start == IF RunBlocked(w) THEN {} ELSE Roots(w, again)
           new == [j \in Name |->
             IF j \in again
             THEN [st |-> IF j \in start THEN "waiting" ELSE "blocked", task |-> "none",
                   grp |-> j \in start \cap w.grouped]
             ELSE [old[j] EXCEPT !.task = "none"]]
           SG == start \cap w.grouped
           more == IF Awake(r) THEN {"superseded"} ELSE {}
<1> SUFFICES ASSUME cut' = {} PROVE WakeInv'
  BY DEF WakeInv
<1>1. PICK rs \in StartInGroup([AfterRunConcurrency(r, w) EXCEPT ![x] = new], w.group, x, SG) :
        Commit(rs, [latest EXCEPT ![r] = n], more) /\ queue' = queue \cup RunsCancelledBy(rs)
  BY DEF ExecRerunPlan
<1>2. /\ TypeInv /\ r \in Run /\ p.attempt \in 1..(MaxAttempt - 1) /\ again \subseteq Name
      /\ again # {} /\ old \in [Name -> Row]
  BY DEF IInv, TypeInv, TypeOK, Plan
<1>3. /\ <<r, p.attempt>> \in Attempt /\ x \in Attempt /\ row \in Rows /\ latest[r] = p.attempt
      /\ p.attempt \in Nat /\ p.attempt # 0
  BY <1>2, ActionsRunAssumption DEF ExecRerunPlan, MayExecute, AttemptUnique, Attempt, TypeInv, TypeOK, Rows
<1>4. /\ row' = rs /\ cut = {} /\ ~Awake(r) /\ latest' = [latest EXCEPT ![r] = n]
  BY <1>1, CommitCut
<1>5. w \in Workflow /\ again \subseteq w.jobs
      /\ \A j \in Name : old[j].st \in Done \cup {"none"}
  <2>1. InOrder
    BY <1>4 DEF InOrder
  <2>2. w # None
    <3> DEFINE y == <<r, p.attempt>>
    <3>1. y \in Attempt /\ y[1] = r /\ y[2] <= latest[y[1]]
      BY <1>3
    <3> HIDE DEF y
    <3> QED BY <2>1, <3>1 DEF StartInv, NeedsInv, Placed
  <2>3. w \in Workflow
    BY <1>2, <2>2 DEF TypeInv, TypeOK
  <2> QED BY <2>1, <2>3 DEF StartInv, NeedsInv, Templates, Template
<1>6. start \subseteq again /\ (RunBlocked(w) \/ start = Roots(w, again))
  BY DEF Roots
<1> HIDE DEF start, old
<1>7. ASSUME NEW j \in Name
      PROVE  /\ new[j] \in Row
             /\ j \in again => new[j].st \in Pending
             /\ new[j].st \notin Active /\ (new[j].st = "blocked" => j \in again)
             /\ j \in start => new[j].st = "waiting"
             /\ j \in SG => new[j].grp /\ j \in w.grouped /\ new[j].task # "live"
  <2>1. CASE j \notin again
    <3>1. old[j] \in Row /\ [old[j] EXCEPT !.task = "none"] \in Row
      BY <1>2, DropTask
    <3>2. old[j] \in Wide
      BY <3>1, RowFields
    <3>3. [old[j] EXCEPT !.task = "none"].st = old[j].st
      BY <3>2 DEF Wide
    <3>4. new[j].st = old[j].st /\ old[j].st \in Done \cup {"none"}
      BY <1>5, <2>1, <3>3
    <3>5. new[j].st \notin Active /\ new[j].st # "blocked"
      BY <3>4 DEF Done, Active
    <3> QED BY <1>6, <2>1, <3>1, <3>5
  <2>2. CASE j \in again
    <3> DEFINE s == IF j \in start THEN "waiting" ELSE "blocked"
               g == j \in start \cap w.grouped
    <3>1. new[j] = [st |-> s, task |-> "none", grp |-> g]
      BY <2>2
    <3>2. s \in Pending /\ s \notin Active /\ (j \in start => s = "waiting")
      BY DEF Pending, Active
    <3>3. g \in BOOLEAN /\ (j \in SG => g /\ j \in w.grouped)
      OBVIOUS
    <3> HIDE DEF s, g, new, SG, again
    <3>4. new[j] \in Row /\ new[j].st = s /\ new[j].task = "none" /\ new[j].grp = g
      BY <3>1, <3>2, <3>3, NewRow
    <3> QED BY <2>2, <3>2, <3>3, <3>4
  <2> QED BY <2>1, <2>2
<1>8. SG \in SUBSET Name /\ SG \subseteq start
  BY <1>2, <1>6
<1>9. start = Roots(w, again) => SG = Roots(w, again) \cap w.grouped
  OBVIOUS
<1> HIDE DEF SG
<1>10. new \in [Name -> Row] /\ \E j \in Name : new[j].st # "none"
  BY <1>2, <1>7 DEF Pending
<1> HIDE DEF new
<1>11. Starts_(x, rs)
  <2>1. \A j \in SG : new[j].st \in Pending /\ new[j].task # "live"
    BY <1>7, <1>8 DEF Pending
  <2> QED BY <1>1, <1>3, <1>8, <1>10, <2>1, NewAttempt
<1>12. \A b : Inserts(w, again, new, SG, b)
  <2>1. ASSUME start = Roots(w, again)
        PROVE  /\ SG = Roots(w, again) \cap w.grouped
               /\ \A j \in Roots(w, again) : new[j].st = "waiting"
    <3>1. Roots(w, again) \subseteq Name
      BY <1>2, <1>6, <2>1
    <3> QED BY <1>7, <1>9, <2>1, <3>1
  <2> QED BY <1>2, <1>5, <1>6, <1>7, <1>8, <1>10, <2>1 DEF Inserts
<1>13. /\ wf' = wf /\ need' = need /\ need[r] \in BOOLEAN /\ report' = report /\ handling' = handling
  BY <1>2 DEF ExecRerunPlan, TypeInv, TypeOK
<1>14. Joins(r, x)
  <2>1. \A y \in Attempt \ {x} : SoftAt(row, rs, y)
    <3> HIDE DEF r, w, x
    <3> QED BY <1>1, <1>3, <1>8, <1>10, NewAttemptSoft
  <2>2. /\ n = latest[r] + 1 /\ latest'[r] = latest[r] + 1 /\ x = <<r, latest[r] + 1>>
        /\ \A s \in Run \ {r} : latest'[s] = latest[s]
    BY <1>2, <1>3, <1>4 DEF TypeInv, TypeOK
  <2>3. Ended(row, <<r, latest[r]>>)
    <3>1. p \in freshPlans /\ Fresh /\ RunDone
      BY DEF ExecRerunPlan, MayExecute, RunUnchanged, IInv, Statuses
    <3>2. latest[r] # 0 /\ run[r] \in Done
      BY <1>3, <3>1 DEF Fresh
    <3> QED BY <1>2, <1>4, <3>1, <3>2 DEF RunDone
  <2> QED BY <1>1, <1>3, <1>4, <1>13, <2>1, <2>2, <2>3 DEF Joins
<1>15. n = latest[r] + 1
  BY <1>3
<1> HIDE DEF x, r, w, n, again, more
<1>16. Watched(r)'
  <2>1. AllWatched /\ OldDone
    BY <1>4 DEF WakeInv
  <2>2. need'[r] \in BOOLEAN /\ Inserts(w, again, new, SG, need'[r]) /\ wf'[r] = w
    BY <1>12, <1>13 DEF w
  <2>3. row' \in StartInGroup([AfterRunConcurrency(r, w) EXCEPT ![x] = new], w.group, x, SG)
    BY <1>1, <1>4
  <2> QED BY <1>2, <1>5, <1>14, <2>1, <2>2, <2>3, JoinsWatched
<1>17. Commit(row', [latest EXCEPT ![r] = latest[r] + 1], more)
  BY <1>1, <1>4, <1>15
<1> QED BY <1>2, <1>4, <1>11, <1>14, <1>16, <1>17, JoinsWakes
-----------------------------------------------------------------------------
(***************************************************************************)
(* No wake-up is lost.                                                     *)
(***************************************************************************)

(* Nothing has been inserted.                                              *)
LEMMA WakeInit == Init => WakeInv
<1> SUFFICES ASSUME Init PROVE AllWatched /\ OldDone /\ CallsLatest
  BY DEF WakeInv
<1>1. \A r \in Run : latest[r] = 0
  BY DEF Init
<1>2. \A x \in Attempt : x[1] \in Run /\ x[2] \in Nat
  BY ActionsRunAssumption DEF Attempt
<1>3. OldDone
  BY <1>1, <1>2 DEF OldDone
<1> QED BY <1>1, <1>3 DEF AllWatched, CallsLatest, Init, NoReport

(* Every step leaves all runs watched, unless it cuts something.           *)
LEMMA WakeStep == IInv /\ StartInv /\ WakeInv /\ [Next]_vars => WakeInv'
<1> SUFFICES ASSUME IInv, StartInv, WakeInv, [Next]_vars PROVE WakeInv'
  OBVIOUS
<1>1. ASSUME NEW r \in Run, Users(r) PROVE WakeInv'
  <2>1. ASSUME NEW jobs \in SUBSET Name, BuildRerunPlan(r, jobs) PROVE WakeInv'
    BY <2>1, PlanWakes DEF BuildRerunPlan
  <2> QED BY <1>1, <2>1, InsertWakes, ApproveWakes, CancelWakes DEF Users
<1>2. ASSUME NEW p \in plans, ExecRerunPlan(p) \/ RerunRefused(p) PROVE WakeInv'
  <2>1. ASSUME RerunRefused(p) PROVE WakeInv'
    BY <2>1, PlanWakes DEF RerunRefused
  <2> QED BY <1>2, <2>1, RerunWakes
<1>3. ASSUME NEW x \in Attempt, NEW j \in Name, ClaimJob(x, j) \/ ReportJob(x, j) PROVE WakeInv'
  BY <1>3, ClaimWakes, ReportJobWakes
<1>4. CASE Crash
  <2>1. cut' # {}
    BY <1>4 DEF Crash
  <2> QED BY <2>1 DEF WakeInv
<1>5. CASE UNCHANGED vars
  BY <1>5, PlanWakes DEF vars
<1> QED BY <1>1, <1>2, <1>3, <1>4, <1>5, ReportWakes, ReadWakes, CheckWakes DEF Next

(* No wake-up of the job emitter is lost: as long as nothing crashes, no   *)
(* report is overtaken or refused, no rerun supersedes a check, no         *)
(* approval revives a job or leaves one unevaluated and no group that      *)
(* several runs wait for is released, a job that could start or be skipped *)
(* is blocked only while its run, or one of its group, is to be checked or *)
(* has a job on its way, for any runs, workflows, groups, attempts and     *)
(* handlers (checkJobsByRunID, checkRunConcurrency,                        *)
(* EmitJobsIfReadyByJobs).                                                 *)
THEOREM NoWakeupIsLost == Spec => []NoLostWakeup
<1>1. IInv /\ StartInv /\ WakeInv => NoLostWakeup
  BY WatchedNotLost DEF IInv
<1> QED BY <1>1, RunInvariant, InitStart, StepStart, WakeInit, WakeStep, PTL DEF Spec
-----------------------------------------------------------------------------
(***************************************************************************)
(* The runs keep RunContract.  What a transaction makes of a job is a stop *)
(* (Contract!Stops), the start of a blocked job whose needs had succeeded, *)
(* or the skip of one that cannot start any more.                          *)
(***************************************************************************)

Legal(old, rs, y, j) ==
  \/ Contract!Stops(old[y][j].st, rs[y][j].st)
  \/ /\ old[y][j].st = "blocked" /\ rs[y][j].st = "waiting"
     /\ NeedsSucceeded(old, y, j)
  \/ /\ old[y][j].st = "blocked" /\ rs[y][j].st = "skipped"
     /\ \A k \in Name : k \in wf[y[1]].needs[j] => rs[y][k].st \in Done
     /\ \E k \in Name : k \in wf[y[1]].needs[j] /\ rs[y][k].st # "success"
AllLegal(old, rs) == \A y \in Attempt, j \in Name : Legal(old, rs, y, j)

(* What has an end keeps it, and nothing succeeds in a transaction.        *)
LEMMA LegalEnds ==
  ASSUME NEW old, NEW rs, NEW y, NEW j, Legal(old, rs, y, j)
  PROVE  /\ old[y][j].st \in Done => rs[y][j].st = old[y][j].st
         /\ rs[y][j].st = "success" => old[y][j].st = "success"
BY DEF Legal, Contract!Stops, Done

(* Two legal steps of a transaction are a legal one.                       *)
LEMMA LegalTrans ==
  ASSUME NEW r1, NEW r2, NEW r3, AllLegal(r1, r2), AllLegal(r2, r3)
  PROVE  AllLegal(r1, r3)
<1> SUFFICES ASSUME NEW y \in Attempt, NEW j \in Name PROVE Legal(r1, r3, y, j)
  BY DEF AllLegal
<1>1. \A k \in Name : Legal(r1, r2, y, k) /\ Legal(r2, r3, y, k)
  BY DEF AllLegal
<1>2. \A k \in Name : /\ r2[y][k].st = "success" => r1[y][k].st = "success"
                      /\ r2[y][k].st \in Done => r3[y][k].st = r2[y][k].st
  BY <1>1, LegalEnds
<1>3. NeedsSucceeded(r2, y, j) => NeedsSucceeded(r1, y, j)
  BY <1>2 DEF NeedsSucceeded
<1>4. CASE Contract!Stops(r1[y][j].st, r2[y][j].st)
  <2>1. CASE Contract!Stops(r2[y][j].st, r3[y][j].st)
    <3>1. Contract!Stops(r1[y][j].st, r3[y][j].st)
      BY <1>4, <2>1 DEF Contract!Stops
    <3> QED BY <3>1 DEF Legal
  <2>2. CASE ~Contract!Stops(r2[y][j].st, r3[y][j].st)
    <3>1. r2[y][j].st = "blocked"
      BY <1>1, <2>2 DEF Legal
    <3>2. r1[y][j].st = "blocked"
      BY <1>4, <3>1 DEF Contract!Stops
    <3> QED BY <1>1, <1>3, <2>2, <3>1, <3>2 DEF Legal
  <2> QED BY <2>1, <2>2
<1>5. CASE ~Contract!Stops(r1[y][j].st, r2[y][j].st)
  <2>1. r1[y][j].st = "blocked" /\ r2[y][j].st \in {"waiting", "skipped"}
    BY <1>1, <1>5 DEF Legal
  <2>2. Contract!Stops(r2[y][j].st, r3[y][j].st)
    BY <1>1, <2>1 DEF Legal
  <2>3. CASE r3[y][j].st = r2[y][j].st
    BY <1>1, <1>2, <1>5, <2>1, <2>3 DEF Legal
  <2>4. CASE r3[y][j].st # r2[y][j].st
    <3>1. r3[y][j].st = "cancelled"
      BY <2>1, <2>2, <2>4 DEF Contract!Stops
    <3>2. Contract!Stops(r1[y][j].st, r3[y][j].st)
      BY <2>1, <3>1 DEF Contract!Stops
    <3> QED BY <3>2 DEF Legal
  <2> QED BY <2>3, <2>4
<1> QED BY <1>4, <1>5

(* Cancelling a job, unless it is pending and claimed, is a stop.          *)
LEMMA CancelledStops ==
  ASSUME NEW x, NEW u \in Row, u.st \in Pending => u.task = "none"
  PROVE  Contract!Stops(u.st, Cancelled(x, u).st)
<1>1. CASE u.st \notin Pending \cup Active \/ u.task = "done"
  BY <1>1 DEF Cancelled, Contract!Stops
<1>2. CASE u.st \in Pending \cup Active /\ u.task # "done"
  <2>1. u.task \in {"none", "live"} /\ u \in Wide
    BY <1>2, RowFields DEF Wide
  <2>2. \/ u.task = "none" /\ Cancelled(x, u) = [u EXCEPT !.st = "cancelled"]
        \/ u.task = "live" /\ Cancelled(x, u) = [u EXCEPT !.st = "cancelling"]
        \/ u.task = "live" /\ Cancelled(x, u) = [u EXCEPT !.st = "cancelled", !.task = "done"]
    BY <1>2, <2>1 DEF Cancelled
  <2>3. /\ [u EXCEPT !.st = "cancelled"].st = "cancelled"
        /\ [u EXCEPT !.st = "cancelling"].st = "cancelling"
        /\ [u EXCEPT !.st = "cancelled", !.task = "done"].st = "cancelled"
    BY <2>1 DEF Wide
  <2>4. u.task = "live" => u.st \in Active
    BY <1>2
  <2> QED BY <1>2, <2>2, <2>3, <2>4 DEF Contract!Stops, Pending, Active
<1> QED BY <1>1, <1>2

(* So is cancelling jobs where no pending one is claimed.                  *)
LEMMA CancelJobsStops ==
  ASSUME NEW rs \in Rows, Unclaimed(rs), NEW V
  PROVE  \A y \in Attempt, j \in Name : Contract!Stops(rs[y][j].st, CancelJobs(rs, V)[y][j].st)
<1> SUFFICES ASSUME NEW y \in Attempt, NEW j \in Name
             PROVE  Contract!Stops(rs[y][j].st,
                      (IF <<y, j>> \in V THEN Cancelled(y, rs[y][j]) ELSE rs[y][j]).st)
  BY DEF CancelJobs
<1>1. rs[y][j] \in Row /\ (rs[y][j].st \in Pending => rs[y][j].task = "none")
  BY DEF Rows, Unclaimed
<1>2. Contract!Stops(rs[y][j].st, rs[y][j].st)
  BY DEF Contract!Stops
<1> QED BY <1>1, <1>2, CancelledStops

(* What only stops jobs is legal.                                          *)
LEMMA StopsLegal ==
  ASSUME NEW old, NEW rs,
         \A y \in Attempt, j \in Name : Contract!Stops(old[y][j].st, rs[y][j].st)
  PROVE  AllLegal(old, rs)
BY DEF AllLegal, Legal

(* The resolver starts, skips and stops jobs of its attempt legally.       *)
LEMMA ResolveLegal ==
  ASSUME NEW rs \in Rows, Unclaimed(rs), NEW atts, NEW x \in Attempt,
         NEW o \in Resolve(rs, atts, x), o.ok
  PROVE  AllLegal(rs, o.rs)
<1> DEFINE w == wf[x[1]]
           starts == Starts(rs, x)
           skips == Skips(rs, x)
           mine == starts \cap w.grouped
           skipped == skips \cap w.grouped
           blocked == ShouldBlock(w.group, rs, atts)
           others == IF mine = {} THEN {}
                     ELSE Previous(w.group, rs, atts, {x}) \ ({x} \X (starts \cup skips))
           c == CancelJobs(rs, others)
           st(kept, j) == IF j \in skips THEN "skipped"
                          ELSE IF j \in mine /\ blocked
                          THEN IF j \in kept THEN c[x][j].st ELSE "cancelled"
                          ELSE IF j \in starts THEN "waiting" ELSE c[x][j].st
           f(kept) == [j \in Name |->
              [c[x][j] EXCEPT !.st = st(kept, j), !.grp = @ \/ j \in mine \cup skipped]]
           result(kept) == [ok |-> TRUE, rs |-> [c EXCEPT ![x] = f(kept)]]
<1>1. o = Failed \/ \E kept : o = result(kept)
  <2> SUFFICES o \in {Failed, result(mine), result({})}
                    \cup {result({j \in {last} : ~rs[x][j].grp}) : last \in mine}
    OBVIOUS
  <2> HIDE DEF f
  <2> QED BY DEF Resolve, f
<1>2. Failed.ok = FALSE
  BY DEF Failed
<1> HIDE DEF result
<1>3. PICK kept : o = result(kept)
  BY <1>1, <1>2
<1>4. /\ \A y \in Attempt, j \in Name : Contract!Stops(rs[y][j].st, c[y][j].st)
      /\ c \in Rows
  BY CancelJobsStops, CancelJobsKeeps DEF Keeps
<1>5. \A j \in starts \cup skips : j \in Name /\ rs[x][j].st = "blocked"
  BY DEF Starts, Skips, WithStatus
<1>6. \A j \in starts : NeedsSucceeded(rs, x, j)
  BY DEF Starts, WithStatus, NeedsSucceeded
<1>7. \A j \in skips :
        /\ w.needs[j] \subseteq WithStatus(rs, x, Done) \cup skips
        /\ \E k \in w.needs[j] : k \in WithStatus(rs, x, Done \ {"success"}) \cup skips
  BY SkipsSkippable DEF Skippable
<1>8. mine \subseteq starts
  OBVIOUS
<1> HIDE DEF starts, skips, mine, skipped, blocked, c
<1>9. o.rs = [c EXCEPT ![x] = f(kept)]
  <2> HIDE DEF f
  <2> QED BY <1>3 DEF result
<1>10. ASSUME NEW j \in Name PROVE o.rs[x][j].st = st(kept, j)
  <2>1. c[x][j] \in Wide
    BY <1>4, RowFields DEF Rows
  <2> HIDE DEF st
  <2> DEFINE g == j \in mine \cup skipped
  <2>2. f(kept)[j] = [c[x][j] EXCEPT !.st = st(kept, j), !.grp = c[x][j].grp \/ g]
    OBVIOUS
  <2> HIDE DEF f, g
  <2>3. o.rs[x] = f(kept)
    BY <1>4, <1>9 DEF Rows
  <2> QED BY <2>1, <2>2, <2>3 DEF Wide
<1>11. \A y \in Attempt \ {x} : o.rs[y] = c[y]
  BY <1>4, <1>9 DEF Rows
<1> HIDE DEF f
<1>12. ASSUME NEW k \in Name, rs[x][k].st \in Done
       PROVE  o.rs[x][k].st = rs[x][k].st
  <2>1. k \notin starts \cup skips
    BY <1>5, <1>12 DEF Done
  <2>2. o.rs[x][k].st = c[x][k].st
    BY <1>8, <1>10, <2>1
  <2> QED BY <1>4, <1>12, <2>2 DEF Contract!Stops, Done
<1>13. ASSUME NEW k \in skips PROVE k \in Name /\ o.rs[x][k].st = "skipped"
  BY <1>5, <1>10
<1>14. ASSUME NEW j \in skips PROVE Legal(rs, o.rs, x, j)
  <2>1. rs[x][j].st = "blocked" /\ o.rs[x][j].st = "skipped"
    BY <1>5, <1>13
  <2>2. \A k \in Name : k \in w.needs[j] => o.rs[x][k].st \in Done
    BY <1>7, <1>12, <1>13 DEF WithStatus, Done
  <2>3. \E k \in Name : k \in w.needs[j] /\ o.rs[x][k].st # "success"
    <3>1. PICK k \in w.needs[j] : k \in WithStatus(rs, x, Done \ {"success"}) \cup skips
      BY <1>7
    <3> QED BY <1>12, <1>13, <3>1 DEF WithStatus
  <2> QED BY <2>1, <2>2, <2>3 DEF Legal
<1>15. ASSUME NEW j \in Name, j \notin skips PROVE Legal(rs, o.rs, x, j)
  <2>1. \/ o.rs[x][j].st = c[x][j].st
        \/ j \in starts /\ o.rs[x][j].st \in {"waiting", "cancelled"}
    BY <1>8, <1>10, <1>15
  <2> HIDE DEF st
  <2>2. CASE o.rs[x][j].st = c[x][j].st
    BY <1>4, <2>2 DEF Legal
  <2>3. CASE j \in starts /\ o.rs[x][j].st \in {"waiting", "cancelled"}
    BY <1>5, <1>6, <2>3 DEF Legal, Contract!Stops
  <2> QED BY <2>1, <2>2, <2>3
<1>16. \A y \in Attempt \ {x}, j \in Name : Legal(rs, o.rs, y, j)
  BY <1>4, <1>11 DEF Legal
<1> QED BY <1>14, <1>15, <1>16 DEF AllLegal

(* So does the check of one attempt,                                       *)
LEMMA CheckJobsLegal ==
  ASSUME NEW rs \in Rows, Unclaimed(rs), NEW atts, NEW x \in Attempt, NEW blocked,
         NEW o \in CheckJobs(rs, atts, x, blocked), o.ok
  PROVE  AllLegal(rs, o.rs)
<1>1. o \in Resolve(rs, atts, x) \/ o = [ok |-> TRUE, rs |-> rs]
  BY DEF CheckJobs
<1>2. CASE o = [ok |-> TRUE, rs |-> rs]
  <2>1. o.rs = rs
    BY <1>2
  <2> QED BY <2>1 DEF AllLegal, Legal, Contract!Stops
<1> QED BY <1>1, <1>2, ResolveLegal

(* and the check of another run of the group after it.                     *)
LEMMA CheckRunConcurrencyLegal ==
  ASSUME TypeInv, Placed, Tidy(row), NEW h \in handling,
         NEW o1 \in CheckJobs(row, attempt, <<h.run, h.latest>>, h.blocked),
         NEW o \in CheckRunConcurrency(h.run, o1), o.ok
  PROVE  AllLegal(row, o.rs)
<1>1. row \in Rows /\ <<h.run, h.latest>> \in Attempt /\ h.run \in Run /\ Unclaimed(row)
  BY DEF TypeInv, TypeOK, Rows, Call, Attempt, Tidy
<1>2. wf[h.run] # None
  <2> DEFINE x == <<h.run, latest[h.run]>>
  <2>1. x \in Attempt /\ x[1] = h.run /\ x[2] <= latest[x[1]]
    <3>1. latest[h.run] # 0
      BY DEF TypeInv, Inserted
    <3>2. latest[h.run] \in Nat
      BY <1>1, Places
    <3> QED BY <1>1, <3>1, <3>2, Places
  <2> HIDE DEF x
  <2> QED BY <2>1 DEF Placed
<1>3. o1.ok \in BOOLEAN /\ (o1.ok => o1.rs \in Rows /\ Tidy(o1.rs) /\ AllLegal(row, o1.rs))
  <2>1. o1.ok => Tidy(o1.rs) /\ AllLegal(row, o1.rs)
    BY <1>1, <1>2, CheckJobsGroup, CheckJobsLegal
  <2> QED BY <1>1, <2>1, CheckJobsKeeps DEF Keeps
<1>4. o = o1 \/ (o1.ok /\ \E q \in FindBlocked(wf[h.run].group, o1.rs) :
        o \in CheckJobs(o1.rs, AttemptsWith(o1.rs), <<q, latest[q]>>,
                        RunsWith(o1.rs, latest)[q] = "blocked"))
  BY <1>3 DEF CheckRunConcurrency
<1>5. CASE o = o1
  BY <1>3, <1>5
<1>6. ASSUME o1.ok, NEW q \in FindBlocked(wf[h.run].group, o1.rs),
             o \in CheckJobs(o1.rs, AttemptsWith(o1.rs), <<q, latest[q]>>,
                             RunsWith(o1.rs, latest)[q] = "blocked")
      PROVE  AllLegal(row, o.rs)
  <2>1. Keeps(row, o1.rs)
    BY <1>1, <1>6, CheckJobsKeeps
  <2>2. <<q, latest[q]>> \in Attempt
    BY <1>6, <2>1, BlockedInserted
  <2>3. AllLegal(o1.rs, o.rs)
    BY <1>3, <1>6, <2>2, CheckJobsLegal DEF Tidy
  <2> QED BY <1>3, <1>6, <2>3, LegalTrans
<1> QED BY <1>4, <1>5, <1>6

(* An approval that revives nothing starts jobs that need nothing.         *)
LEMMA ApproveLegal ==
  ASSUME TypeInv, Tidy(row), NEW r \in Run, wf[r] # None, ApproveRuns(r), "revived" \notin cut'
  PROVE  AllLegal(row, row')
<1> DEFINE w == wf[r]
           x == <<r, latest[r]>>
           first == Roots(w, w.jobs)
           mine == {j \in first \cap w.grouped : row[x][j].grp}
           blocked == ShouldBlock(w.group, row, attempt)
           others == IF mine = {} THEN {} ELSE Previous(w.group, row, attempt, {x})
           written == (first \ w.grouped) \cup (IF blocked THEN {} ELSE mine)
           kept(last) == IF mine = {last} \/ ~blocked THEN {<<x, last>>} ELSE {}
           c(last) == CancelJobs(row, others \ kept(last))
           f(last) == [j \in Name |->
                       IF j \notin written THEN c(last)[x][j]
                       ELSE IF j \in mine \ {last} THEN Cancelled(x, Waiting(row[x][j]))
                       ELSE Waiting(row[x][j])]
           rs(last) == [c(last) EXCEPT ![x] = f(last)]
           more == (IF \A j \in written : row[x][j].st = "blocked" THEN {} ELSE {"revived"})
                   \cup (IF first \cap w.grouped = mine THEN {} ELSE {"unevaluated"})
<1>1. PICK last \in IF mine = {} THEN {None} ELSE mine : Commit(rs(last), latest, more)
  BY DEF ApproveRuns
<1>2. row \in Rows /\ x \in Attempt
  <2>1. latest[r] # 0
    BY DEF ApproveRuns
  <2>2. latest[r] \in 0..MaxAttempt /\ row \in Rows
    BY DEF TypeInv, TypeOK, Rows
  <2>3. latest[r] \in 1..MaxAttempt
    BY <2>1, <2>2, ActionsRunAssumption
  <2> QED BY <2>2, <2>3 DEF Attempt
<1>3. /\ c(last) \in Rows
      /\ \A y \in Attempt, j \in Name : Contract!Stops(row[y][j].st, c(last)[y][j].st)
  BY <1>2, CancelJobsKeeps, CancelJobsStops DEF Keeps, Tidy
<1>4. \A j \in written : wf[x[1]].needs[j] = {}
  <2>1. w \in Workflow
    BY DEF TypeInv, TypeOK
  <2>2. \A j \in first : w.needs[j] \cap w.jobs = {} /\ j \in Name /\ w.needs[j] \subseteq w.jobs
    BY <2>1, ActionsRunAssumption DEF Roots, Definition
  <2>3. written \subseteq first
    OBVIOUS
  <2> HIDE DEF first, written
  <2> QED BY <2>2, <2>3
<1>5. \A j \in written : row[x][j].st = "blocked"
  <2> HIDE DEF written, rs, first, mine
  <2> QED BY <1>1 DEF Commit
<1> HIDE DEF c, written, mine, x, blocked
<1>6. row' = rs(last) /\ rs(last)[x] = f(last) /\ \A y \in Attempt \ {x} : rs(last)[y] = c(last)[y]
  <2>1. row' = rs(last)
    <3> HIDE DEF rs, more
    <3> QED BY <1>1 DEF Commit
  <2> QED BY <1>2, <1>3, <2>1 DEF Rows
<1>7. ASSUME NEW j \in written, j \in Name PROVE f(last)[j].st \in {"waiting", "cancelled"}
  <2> DEFINE u == row[x][j]
  <2>1. u \in Row /\ u.st = "blocked" /\ u.task = "none"
    BY <1>2, <1>5, <1>7 DEF Rows, Tidy, Unclaimed, Pending
  <2>2. u \in Wide
    BY <2>1, RowFields
  <2> HIDE DEF u
  <2>3. Waiting(u) \in Row /\ Waiting(u).st = "waiting" /\ Waiting(u).task = "none"
    <3>1. Waiting(u).task = "none"
      BY <2>1, <2>2 DEF Waiting, Wide
    <3> QED BY <2>1, <3>1, WaitingType
  <2>4. Cancelled(x, Waiting(u)).st = "cancelled"
    BY <2>3, CancelledTame DEF Pending
  <2>5. f(last)[j] = Cancelled(x, Waiting(u)) \/ f(last)[j] = Waiting(u)
    BY <1>7 DEF u
  <2> HIDE DEF f
  <2> QED BY <2>3, <2>4, <2>5
<1>8. \A j \in Name : j \notin written => f(last)[j] = c(last)[x][j]
  OBVIOUS
<1> HIDE DEF f, rs
<1>9. ASSUME NEW j \in Name PROVE Legal(row, row', x, j)
  <2>1. CASE j \in written
    <3>1. row[x][j].st = "blocked" /\ NeedsSucceeded(row, x, j)
      BY <1>4, <1>5, <2>1 DEF NeedsSucceeded
    <3>2. row'[x][j].st \in {"waiting", "cancelled"}
      BY <1>6, <1>7, <2>1
    <3> QED BY <3>1, <3>2 DEF Legal, Contract!Stops
  <2>2. CASE j \notin written
    <3>1. row'[x][j] = c(last)[x][j]
      BY <1>6, <1>8, <2>2
    <3> QED BY <1>2, <1>3, <3>1 DEF Legal
  <2> QED BY <2>1, <2>2
<1>10. \A y \in Attempt \ {x}, j \in Name : Legal(row, row', y, j)
  BY <1>3, <1>6 DEF Legal
<1> QED BY <1>9, <1>10 DEF AllLegal

(* The jobs of a new attempt that wait in their group wait, are blocked or *)
(* cancelled; all others are only stopped.                                 *)
LEMMA StartInGroupStops ==
  ASSUME NEW rs \in Rows, NEW g, NEW x \in Attempt, NEW SG \in SUBSET Name, Unclaimed(rs),
         NEW new \in StartInGroup(rs, g, x, SG)
  PROVE  /\ \A y \in Attempt \ {x}, j \in Name : Contract!Stops(rs[y][j].st, new[y][j].st)
         /\ \A j \in Name \ SG : Contract!Stops(rs[x][j].st, new[x][j].st)
         /\ \A j \in SG : new[x][j].st \in {"blocked", "waiting", "cancelled"}
<1> DEFINE others == Previous(g, rs, AttemptsWith(rs), {x}) \ ({x} \X SG)
           st == IF ShouldBlock(g, rs, AttemptsWith(rs)) THEN "blocked" ELSE "waiting"
           c == CancelJobs(rs, others)
           s(last, j) == IF j = last THEN st ELSE "cancelled"
           f(last) == [j \in Name |->
              IF j \notin SG THEN c[x][j] ELSE [c[x][j] EXCEPT !.st = s(last, j)]]
<1>1. CASE SG = {}
  <2>1. new = rs
    BY <1>1 DEF StartInGroup
  <2> QED BY <1>1, <2>1 DEF Contract!Stops
<1>2. CASE SG # {}
  <2>1. PICK last \in SG : new = [c EXCEPT ![x] = f(last)]
    BY <1>2 DEF StartInGroup
  <2>2. c \in Rows /\ \A y \in Attempt, j \in Name : Contract!Stops(rs[y][j].st, c[y][j].st)
    BY CancelJobsKeeps, CancelJobsStops DEF Keeps
  <2> HIDE DEF c
  <2>3. new[x] = f(last) /\ \A y \in Attempt \ {x} : new[y] = c[y]
    BY <2>1, <2>2 DEF Rows
  <2>4. ASSUME NEW j \in SG PROVE new[x][j].st \in {"blocked", "waiting", "cancelled"}
    <3>1. new[x][j] = [c[x][j] EXCEPT !.st = s(last, j)] /\ c[x][j] \in Wide
      BY <2>2, <2>3, RowFields DEF Rows
    <3>2. s(last, j) \in {"blocked", "waiting", "cancelled"}
      OBVIOUS
    <3> HIDE DEF s
    <3> QED BY <3>1, <3>2 DEF Wide
  <2>5. \A j \in Name \ SG : new[x][j] = c[x][j]
    BY <2>3
  <2> HIDE DEF f
  <2> QED BY <2>2, <2>3, <2>4, <2>5
<1> QED BY <1>1, <1>2

(* What inserting the rows new as attempt x, with the jobs SG in the group *)
(* that wait, does to the jobs.                                            *)
InsertStops(x, new, SG, rs) ==
  /\ \A y \in Attempt \ {x}, j \in Name : Contract!Stops(row[y][j].st, rs[y][j].st)
  /\ \A j \in Name \ SG : Contract!Stops(new[j].st, rs[x][j].st)
  /\ \A j \in SG : rs[x][j].st \in {"blocked", "waiting", "cancelled"}

(* That is what InsertRun and execRerunPlan do, whatever the group holds.  *)
LEMMA NewAttemptStops ==
  ASSUME row \in Rows, Unclaimed(row), NEW r, NEW w, NEW g, NEW x \in Attempt,
         NEW new \in [Name -> Row], NEW SG \in SUBSET Name,
         \A j \in Name : new[j].st \in Pending => new[j].task = "none",
         NEW rs \in StartInGroup([AfterRunConcurrency(r, w) EXCEPT ![x] = new], g, x, SG)
  PROVE  InsertStops(x, new, SG, rs)
<1> DEFINE c == AfterRunConcurrency(r, w)
           base == [c EXCEPT ![x] = new]
<1>1. /\ c \in Rows /\ AllTame(row, c)
      /\ \A y \in Attempt, j \in Name : Contract!Stops(row[y][j].st, c[y][j].st)
  <2>1. AllTame(row, row) /\ \A y \in Attempt, j \in Name : Contract!Stops(row[y][j].st, row[y][j].st)
    BY DEF AllTame, Tame, Contract!Stops
  <2> QED BY <2>1, RunConcurrencyKeeps, CancelJobsTame, CancelJobsStops DEF AfterRunConcurrency, Keeps
<1>2. Unclaimed(c)
  BY <1>1 DEF AllTame, Tame, Unclaimed
<1> HIDE DEF c
<1>3. base \in Rows /\ base[x] = new /\ \A y \in Attempt \ {x} : base[y] = c[y]
  BY <1>1 DEF Rows
<1>4. Unclaimed(base)
  BY <1>2, <1>3 DEF Unclaimed
<1>5. rs \in StartInGroup(base, g, x, SG)
  BY DEF c
<1> HIDE DEF base
<1>6. /\ \A y \in Attempt \ {x}, j \in Name : Contract!Stops(base[y][j].st, rs[y][j].st)
      /\ \A j \in Name \ SG : Contract!Stops(base[x][j].st, rs[x][j].st)
      /\ \A j \in SG : rs[x][j].st \in {"blocked", "waiting", "cancelled"}
  BY <1>3, <1>4, <1>5, StartInGroupStops
<1>7. \A y \in Attempt \ {x}, j \in Name : Contract!Stops(row[y][j].st, rs[y][j].st)
  BY <1>1, <1>3, <1>6 DEF Contract!Stops
<1> QED BY <1>3, <1>6, <1>7 DEF InsertStops
-----------------------------------------------------------------------------
(* An attempt that begins as RunContract says.  Its jobs S run, and n is   *)
(* the number of the attempt before it.                                    *)
Opens(r, n, w, S) ==
  /\ w # None /\ S # {} /\ S \subseteq w.jobs
  /\ \A j \in w.jobs : w.needs[j] \cap S # {} => j \in S
  /\ n = 0 => \A j \in Name : j \notin S => row'[<<r, n + 1>>][j].st = "none"
  /\ n # 0 => \A j \in Name :
       /\ row[<<r, n>>][j].st \in Done \cup {"none"}
       /\ j \notin S => row'[<<r, n + 1>>][j].st = row[<<r, n>>][j].st
  /\ \A j \in S :
       /\ row'[<<r, n + 1>>][j].st \in {"blocked", "waiting", "cancelled"}
       /\ row'[<<r, n + 1>>][j].st = "waiting" => w.needs[j] \cap S = {}
  /\ \A y \in Attempt \ {<<r, n + 1>>}, j \in Name : Contract!Stops(row[y][j].st, row'[y][j].st)

(* It is a step of RunContract.                                            *)
LEMMA OpensBegins ==
  ASSUME TypeInv, NEW r \in Run, NEW n, NEW w, NEW S \in SUBSET Name, w \in Workflow,
         n = latest[r], <<r, n + 1>> \in Attempt, latest' = [latest EXCEPT ![r] = n + 1],
         Defines(r, w), n # 0 => wf[r] = w, Opens(r, n, w, S)
  PROVE  Contract!Begin(r, S)
<1> DEFINE x == <<r, n + 1>>
           z == <<r, n>>
<1>1. n # 0 => z \in Attempt
  BY Places
<1>2. wf'[r] = w /\ \A q \in Run : q # r \/ n # 0 => wf'[q] = wf[q]
  BY DEF Defines
<1>3. S \subseteq w.jobs /\ w.jobs \subseteq Name
  BY ActionsRunAssumption DEF Opens, Definition
<1> DEFINE job == [y \in Attempt |-> [j \in Name |-> row[y][j].st]]
           later == [y \in Attempt |-> [j \in Name |-> row'[y][j].st]]
<1>4. \A y \in Attempt, j \in Name : job[y][j] = row[y][j].st /\ later[y][j] = row'[y][j].st
  OBVIOUS
<1> HIDE DEF job, later, x, z
<1>5. n = 0 => \A j \in Name : j \notin S => later[x][j] = "none"
  BY <1>4 DEF Opens, x
<1>6. n # 0 => /\ \A j \in Name : job[z][j] \in Done \cup {"none"}
               /\ \A j \in Name : j \notin S => later[x][j] = job[z][j]
  BY <1>1, <1>4 DEF Opens, x, z
<1>7. \A j \in S : /\ later[x][j] \in {"blocked", "waiting", "cancelled"}
                   /\ later[x][j] = "waiting" => w.needs[j] \cap S = {}
  BY <1>4 DEF Opens, x
<1>8. \A y \in Attempt : y # x => \A j \in Name : Contract!Stops(job[y][j], later[y][j])
  BY <1>4 DEF Opens, x
<1>9. /\ w # None /\ S # {} /\ S \subseteq w.jobs
      /\ \A j \in w.jobs : w.needs[j] \cap S # {} => j \in S
  BY DEF Opens
<1> HIDE DEF Defines, Opens
<1> DEFINE J == [y \in Attempt |-> [j \in Name |-> row[y][j].st]]
<1>10. J = job /\ J' = later
  BY DEF job, later
<1> HIDE DEF J
<1>11. <<r, latest[r] + 1>> \in Contract!Attempts /\ latest' = [latest EXCEPT ![r] = latest[r] + 1]
  BY DEF Contract!Attempts, Attempt
<1>12. \A q \in Run : q # r \/ latest[r] # 0 => wf'[q] = wf[q]
  BY <1>2
<1>13. /\ wf'[r] # None /\ S # {} /\ S \subseteq wf'[r].jobs
       /\ \A j \in wf'[r].jobs : wf'[r].needs[j] \cap S # {} => j \in S
  BY <1>2, <1>9
<1>14. latest[r] = 0 => \A j \in Name : j \notin S => J'[<<r, latest[r] + 1>>][j] = "none"
  BY <1>5, <1>10 DEF x
<1>15. latest[r] # 0 =>
         /\ \A j \in Name : J[<<r, latest[r]>>][j] \in Contract!Ends \cup {"none"}
         /\ \A j \in Name : j \notin S => J'[<<r, latest[r] + 1>>][j] = J[<<r, latest[r]>>][j]
  BY <1>6, <1>10 DEF x, z, Contract!Ends, Done
<1>16. \A j \in S :
         /\ J'[<<r, latest[r] + 1>>][j] \in {"blocked", "waiting", "cancelled"}
         /\ J'[<<r, latest[r] + 1>>][j] = "waiting" => wf'[r].needs[j] \cap S = {}
  BY <1>2, <1>7, <1>10 DEF x
<1>17. \A y \in Contract!Attempts : y # <<r, latest[r] + 1>> =>
         \A j \in Name : Contract!Stops(J[y][j], J'[y][j])
  BY <1>8, <1>10 DEF Contract!Attempts, Attempt, x
<1> QED BY <1>11, <1>12, <1>13, <1>14, <1>15, <1>16, <1>17 DEF Contract!Begin, J

(* InsertRun begins the first attempt, with all jobs of the workflow.      *)
LEMMA InsertBegins ==
  ASSUME TypeInv, Unclaimed(row), NEW r \in Run, NEW w \in Workflow, InsertRun(r, w)
  PROVE  w.jobs \in SUBSET Name /\ Contract!Begin(r, w.jobs)
<1> DEFINE x == <<r, 1>>
           first == Roots(w, w.jobs)
           start == IF RunBlocked(w) \/ w.approval THEN {} ELSE first
           new == [j \in Name |->
             IF j \notin w.jobs THEN NoRow
             ELSE [st |-> IF j \in start THEN "waiting" ELSE "blocked", task |-> "none",
                   grp |-> j \in first \cap w.grouped]]
           SG == start \cap w.grouped
<1>1. PICK rs \in StartInGroup([AfterRunConcurrency(r, w) EXCEPT ![x] = new], w.group, x, SG) :
        Commit(rs, [latest EXCEPT ![r] = 1], {})
  BY DEF InsertRun
<1>2. w.jobs \subseteq Name /\ w.jobs # {} /\ w # None
  BY ActionsRunAssumption DEF Definition
<1>3. /\ start \subseteq w.jobs /\ SG \subseteq start /\ SG \in SUBSET Name
      /\ \A j \in start : w.needs[j] \cap w.jobs = {}
  BY <1>2 DEF Roots
<1> HIDE DEF first, start, SG
<1>4. ASSUME NEW j \in Name
      PROVE  /\ new[j] \in Row /\ (new[j].st \in Pending => new[j].task = "none")
             /\ j \notin w.jobs => new[j].st = "none"
             /\ j \in w.jobs => /\ new[j].st \in {"blocked", "waiting"}
                                /\ new[j].st = "waiting" => j \in start
  <2>1. CASE j \notin w.jobs
    BY <2>1 DEF NoRow, Row, Pending
  <2>2. CASE j \in w.jobs
    <3> DEFINE s == IF j \in start THEN "waiting" ELSE "blocked"
               g == j \in first \cap w.grouped
    <3>1. new[j] = [st |-> s, task |-> "none", grp |-> g]
      BY <2>2
    <3>2. s \in Pending /\ s \in {"blocked", "waiting"} /\ (s = "waiting" => j \in start)
      BY DEF Pending
    <3>3. g \in BOOLEAN
      OBVIOUS
    <3> HIDE DEF s, g, new
    <3> QED BY <2>2, <3>1, <3>2, <3>3, NewRow
  <2> QED BY <2>1, <2>2
<1>5. new \in [Name -> Row]
  BY <1>4
<1> HIDE DEF new
<1>6. x \in Attempt /\ row \in Rows /\ latest[r] = 0
  <2>1. latest[r] = 0
    BY DEF InsertRun
  <2>2. MaxAttempt \in Nat /\ MaxAttempt # 0
    BY ActionsRunAssumption
  <2> QED BY <2>1, <2>2 DEF Attempt, TypeInv, TypeOK, Rows
<1>7. row' = rs /\ latest' = [latest EXCEPT ![r] = 1]
  BY <1>1, CommitCut
<1>8. /\ \A y \in Attempt \ {x}, j \in Name : Contract!Stops(row[y][j].st, row'[y][j].st)
      /\ \A j \in Name \ SG : Contract!Stops(new[j].st, row'[x][j].st)
      /\ \A j \in SG : row'[x][j].st \in {"blocked", "waiting", "cancelled"}
  <2> HIDE DEF x
  <2>1. InsertStops(x, new, SG, rs)
    BY <1>1, <1>3, <1>4, <1>5, <1>6, NewAttemptStops
  <2> QED BY <1>7, <2>1 DEF InsertStops
<1>9. \A j \in Name : /\ j \notin w.jobs => row'[x][j].st = "none"
                      /\ j \in w.jobs => /\ row'[x][j].st \in {"blocked", "waiting", "cancelled"}
                                         /\ row'[x][j].st = "waiting" => j \in start
  BY <1>3, <1>4, <1>8 DEF Contract!Stops
<1>10. /\ wf' = [wf EXCEPT ![r] = w] /\ wf \in [Run -> Workflow \cup {None}]
  BY DEF InsertRun, TypeInv, TypeOK
<1>11. Defines(r, w)
  BY <1>10 DEF Defines
<1> DEFINE n == 0
<1>12. n + 1 = 1 /\ n = latest[r]
  BY <1>6
<1> HIDE DEF n
<1>13. Opens(r, n, w, w.jobs)
  <2>1. \A j \in w.jobs : row'[x][j].st = "waiting" => w.needs[j] \cap w.jobs = {}
    BY <1>2, <1>3, <1>9
  <2>2. \A j \in w.jobs : row'[x][j].st \in {"blocked", "waiting", "cancelled"}
    BY <1>2, <1>9
  <2>3. n = 0
    BY <1>6, <1>12
  <2> QED BY <1>2, <1>8, <1>9, <1>12, <2>1, <2>2, <2>3 DEF Opens
<1>14. <<r, n + 1>> \in Attempt /\ latest' = [latest EXCEPT ![r] = n + 1]
  BY <1>6, <1>7, <1>12
<1>15. n = 0
  BY <1>6, <1>12
<1> HIDE DEF x
<1> QED BY <1>2, <1>11, <1>12, <1>13, <1>14, <1>15, OpensBegins

(* execRerunPlan begins the next one once the attempt before is over, with *)
(* the jobs of its plan and, of the others, what they had come to.         *)
LEMMA RerunBegins ==
  ASSUME TypeInv, StartInv, InOrder, NEW p \in plans, ExecRerunPlan(p)
  PROVE  p.run \in Run /\ p.jobs \in SUBSET Name /\ Contract!Begin(p.run, p.jobs)
<1> DEFINE r == p.run
           n == p.attempt
           w == wf[r]
           x == <<r, n + 1>>
           old == p.template
           again == p.jobs
           start == IF RunBlocked(w) THEN {} ELSE Roots(w, again)
           new == [j \in Name |->
             IF j \in again
             THEN [st |-> IF j \in start THEN "waiting" ELSE "blocked", task |-> "none",
                   grp |-> j \in start \cap w.grouped]
             ELSE [old[j] EXCEPT !.task = "none"]]
           SG == start \cap w.grouped
           more == IF Awake(r) THEN {"superseded"} ELSE {}
<1>1. PICK rs \in StartInGroup([AfterRunConcurrency(r, w) EXCEPT ![x] = new], w.group, x, SG) :
        Commit(rs, [latest EXCEPT ![r] = n + 1], more)
  BY DEF ExecRerunPlan
<1>2. /\ r \in Run /\ n \in 1..(MaxAttempt - 1) /\ again \subseteq Name /\ again # {}
      /\ old \in [Name -> Row]
  BY DEF TypeInv, TypeOK, Plan
<1>3. /\ <<r, n>> \in Attempt /\ x \in Attempt /\ row \in Rows /\ latest[r] = n
      /\ n \in Nat /\ n # 0
  BY <1>2, ActionsRunAssumption DEF ExecRerunPlan, MayExecute, AttemptUnique, Attempt, TypeInv, TypeOK, Rows
<1>4. /\ start \subseteq again /\ SG \subseteq start /\ SG \in SUBSET Name
      /\ \A j \in start : w.needs[j] \cap again = {}
  BY <1>2 DEF Roots
<1>5. /\ again \subseteq w.jobs
      /\ \A j \in w.jobs : w.needs[j] \cap again # {} => j \in again
      /\ \A k \in Name : /\ old[k].st \in Done \cup {"none"}
                         /\ old[k].st = row[<<r, n>>][k].st
  BY DEF StartInv, NeedsInv, Templates, Template
<1>6. w # None /\ w \in Workflow
  <2> DEFINE y == <<r, n>>
  <2>1. y \in Attempt /\ y[1] = r /\ y[2] <= latest[y[1]]
    BY <1>3
  <2> HIDE DEF y
  <2>2. w # None
    BY <2>1 DEF StartInv, NeedsInv, Placed
  <2> QED BY <1>2, <2>2 DEF TypeInv, TypeOK
<1> HIDE DEF start, old, SG
<1>7. ASSUME NEW j \in Name
      PROVE  /\ new[j] \in Row /\ (new[j].st \in Pending => new[j].task = "none")
             /\ j \in again => /\ new[j].st \in {"blocked", "waiting"}
                               /\ new[j].st = "waiting" => j \in start
             /\ j \notin again => new[j].st = old[j].st
  <2>1. CASE j \notin again
    <3>1. [old[j] EXCEPT !.task = "none"] \in Row /\ old[j] \in Wide
      BY <1>2, DropTask, RowFields
    <3>2. /\ [old[j] EXCEPT !.task = "none"].st = old[j].st
          /\ [old[j] EXCEPT !.task = "none"].task = "none"
      BY <3>1 DEF Wide
    <3> QED BY <2>1, <3>1, <3>2
  <2>2. CASE j \in again
    <3> DEFINE s == IF j \in start THEN "waiting" ELSE "blocked"
               g == j \in start \cap w.grouped
    <3>1. new[j] = [st |-> s, task |-> "none", grp |-> g]
      BY <2>2
    <3>2. s \in Pending /\ s \in {"blocked", "waiting"} /\ (s = "waiting" => j \in start)
      BY DEF Pending
    <3>3. g \in BOOLEAN
      OBVIOUS
    <3> HIDE DEF s, g, new, again
    <3> QED BY <2>2, <3>1, <3>2, <3>3, NewRow
  <2> QED BY <2>1, <2>2
<1>8. new \in [Name -> Row]
  BY <1>7
<1> HIDE DEF new
<1>9. row' = rs /\ latest' = [latest EXCEPT ![r] = n + 1]
  <2> HIDE DEF more
  <2> QED BY <1>1, CommitCut
<1>10. /\ \A y \in Attempt \ {x}, j \in Name : Contract!Stops(row[y][j].st, row'[y][j].st)
       /\ \A j \in Name \ SG : Contract!Stops(new[j].st, row'[x][j].st)
       /\ \A j \in SG : row'[x][j].st \in {"blocked", "waiting", "cancelled"}
  <2>1. InOrder => Unclaimed(row)
    BY DEF StartInv, GroupInv, Tidy
  <2> HIDE DEF x, r, w
  <2>2. InsertStops(x, new, SG, rs)
    BY <1>1, <1>3, <1>4, <1>7, <1>8, <2>1, NewAttemptStops
  <2> QED BY <1>9, <2>2 DEF InsertStops
<1>11. \A j \in Name :
         /\ j \notin again => row'[x][j].st = old[j].st
         /\ j \in again => /\ row'[x][j].st \in {"blocked", "waiting", "cancelled"}
                           /\ row'[x][j].st = "waiting" => j \in start
  <2> HIDE DEF x, again
  <2> QED BY <1>4, <1>5, <1>7, <1>10 DEF Contract!Stops, Done
<1>12. Opens(r, n, w, again)
  <2>1. \A j \in again : /\ row'[x][j].st \in {"blocked", "waiting", "cancelled"}
                         /\ row'[x][j].st = "waiting" => w.needs[j] \cap again = {}
    BY <1>2, <1>4, <1>11
  <2>2. \A j \in Name : /\ row[<<r, n>>][j].st \in Done \cup {"none"}
                        /\ j \notin again => row'[x][j].st = row[<<r, n>>][j].st
    BY <1>5, <1>11
  <2> HIDE DEF r, w, again, n
  <2> QED BY <1>2, <1>3, <1>5, <1>6, <1>10, <2>1, <2>2 DEF Opens
<1>13. Defines(r, w) /\ wf[r] = w
  BY DEF Defines, ExecRerunPlan
<1>14. again \in SUBSET Name
  BY <1>2
<1> HIDE DEF r, w, again, n
<1> QED BY <1>2, <1>3, <1>6, <1>9, <1>12, <1>13, <1>14, OpensBegins DEF r, again

(* A transaction that is legal is a check of RunContract.                  *)
LEMMA LegalChecks ==
  ASSUME wf' = wf, latest' = latest, AllLegal(row, row')
  PROVE  Contract!Check
<1> DEFINE J == [y \in Attempt |-> [j \in Name |-> row[y][j].st]]
<1>1. /\ \A y \in Attempt, j \in Name : J[y][j] = row[y][j].st
      /\ \A y \in Attempt, j \in Name : J'[y][j] = row'[y][j].st
  OBVIOUS
<1> HIDE DEF J
<1>2. \A y \in Attempt, j \in Name :
        \/ Contract!Stops(J[y][j], J'[y][j])
        \/ /\ J[y][j] = "blocked" /\ J'[y][j] = "waiting"
           /\ \A k \in Name : k \in wf[y[1]].needs[j] => J[y][k] = "success"
        \/ /\ J[y][j] = "blocked" /\ J'[y][j] = "skipped"
           /\ \A k \in Name : k \in wf[y[1]].needs[j] => J'[y][k] \in Contract!Ends
           /\ \E k \in Name : k \in wf[y[1]].needs[j] /\ J'[y][k] # "success"
  <2> SUFFICES ASSUME NEW y \in Attempt, NEW j \in Name
               PROVE  \/ Contract!Stops(J[y][j], J'[y][j])
                      \/ /\ J[y][j] = "blocked" /\ J'[y][j] = "waiting"
                         /\ \A k \in Name : k \in wf[y[1]].needs[j] => J[y][k] = "success"
                      \/ /\ J[y][j] = "blocked" /\ J'[y][j] = "skipped"
                         /\ \A k \in Name : k \in wf[y[1]].needs[j] => J'[y][k] \in Contract!Ends
                         /\ \E k \in Name : k \in wf[y[1]].needs[j] /\ J'[y][k] # "success"
    OBVIOUS
  <2>1. Legal(row, row', y, j)
    BY DEF AllLegal
  <2>2. Contract!Ends = Done
    BY DEF Contract!Ends, Done
  <2> QED BY <1>1, <2>1, <2>2 DEF Legal, NeedsSucceeded
<1>3. \A y \in Contract!Attempts, j \in Name :
        Contract!Stops(J[y][j], J'[y][j]) \/ Contract!Starts(y, j) \/ Contract!Skips(y, j)
  <2>1. \A y : y \in Contract!Attempts => y \in Attempt
    BY DEF Contract!Attempts, Attempt
  <2> QED BY <1>2, <2>1 DEF Contract!Starts, Contract!Skips, J
<1> QED BY <1>3 DEF Contract!Check, J

(* So is a step that writes no job.                                        *)
LEMMA SameChecks ==
  ASSUME wf' = wf, latest' = latest, row' = row
  PROVE  Contract!Check
<1>1. AllLegal(row, row')
  BY DEF AllLegal, Legal, Contract!Stops
<1> QED BY <1>1, LegalChecks

(* A write of one status is a write of one status in RunContract.          *)
LEMMA WriteOne ==
  ASSUME row \in Rows, NEW x \in Attempt, NEW j \in Name, NEW v,
         row' = [row EXCEPT ![x] = [row[x] EXCEPT ![j] = v]],
         NEW S, v.st \in S, row[x][j].st \notin S, wf' = wf, latest' = latest
  PROVE  Contract!Writes(x, j, S)
<1> DEFINE J == [y \in Attempt |-> [k \in Name |-> row[y][k].st]]
           s == v.st
<1>1. /\ row'[x][j] = v /\ \A k \in Name \ {j} : row'[x][k] = row[x][k]
      /\ \A y \in Attempt \ {x} : row'[y] = row[y]
  BY DEF Rows
<1>2. J' = [y \in Attempt |-> [k \in Name |-> row'[y][k].st]]
  OBVIOUS
<1>3. J' = [J EXCEPT ![x][j] = s]
  <2>1. ASSUME NEW y \in Attempt
        PROVE  [k \in Name |-> row'[y][k].st] = [J EXCEPT ![x][j] = s][y]
    BY <1>1
  <2> DEFINE K == [J EXCEPT ![x][j] = s]
  <2>2. K = [y \in Attempt |-> K[y]]
    OBVIOUS
  <2> HIDE DEF K, J
  <2> QED BY <1>2, <2>1, <2>2 DEF K
<1>4. J[x][j] = row[x][j].st
  OBVIOUS
<1> HIDE DEF s
<1>5. s \in S /\ J[x][j] \notin S
  BY <1>4 DEF s
<1> HIDE DEF J
<1>6. J[x][j] \notin S /\ \E t \in S : J' = [J EXCEPT ![x][j] = t]
  BY <1>3, <1>5
<1> QED BY <1>6 DEF Contract!Writes, J

(* ClaimJob is a claim.                                                    *)
LEMMA ClaimClaims ==
  ASSUME TypeInv, NEW x \in Attempt, NEW j \in Name, ClaimJob(x, j)
  PROVE  Contract!Claim(x, j)
<1> DEFINE u == row[x][j]
           v == [u EXCEPT !.st = "running", !.task = "live"]
<1>1. row \in Rows /\ u \in Row /\ u.st = "waiting"
  BY DEF ClaimJob, TypeInv, TypeOK, Rows
<1>2. v.st = "running"
  <2>1. u \in Wide
    BY <1>1, RowFields
  <2> QED BY <2>1 DEF Wide
<1>3. row' = [row EXCEPT ![x] = [row[x] EXCEPT ![j] = v]] /\ wf' = wf /\ latest' = latest
  BY <1>1 DEF ClaimJob, Commit, Rows
<1> HIDE DEF v
<1>4. v.st \in {"running"} /\ row[x][j].st \notin {"running"}
  BY <1>1, <1>2
<1>5. Contract!Writes(x, j, {"running"})
  BY <1>1, <1>3, <1>4, WriteOne
<1>6. [y \in Attempt |-> [k \in Name |-> row[y][k].st]][x][j] = "waiting"
  BY <1>1
<1> QED BY <1>5, <1>6 DEF Contract!Claim

(* ReportJob is a report: the job runs, or is being cancelled.             *)
LEMMA ReportReports ==
  ASSUME TypeInv, Unclaimed(row), NEW x \in Attempt, NEW j \in Name, ReportJob(x, j)
  PROVE  Contract!Report(x, j)
<1> DEFINE u == row[x][j]
           S == IF u.st = "cancelling" THEN {"cancelled"} ELSE Done
           v(verdict) == [u EXCEPT !.st = verdict, !.task = "done"]
<1>1. PICK verdict \in S : row' = [row EXCEPT ![x][j].st = verdict, ![x][j].task = "done"]
  BY DEF ReportJob
<1>2. row \in Rows /\ u \in Row /\ u.task = "live"
  BY DEF ReportJob, TypeInv, TypeOK, Rows
<1>3. u.st \in {"running", "cancelling"} /\ u \in Wide
  <2>1. u.st \in Out /\ u \in Wide
    BY <1>2, RowFields
  <2>2. u.st \notin Pending
    BY <1>2 DEF Unclaimed
  <2> QED BY <2>1, <2>2 DEF Out, Pending, Active
<1>4. row' = [row EXCEPT ![x] = [row[x] EXCEPT ![j] = v(verdict)]] /\ wf' = wf /\ latest' = latest
  BY <1>1, <1>2 DEF ReportJob, Rows
<1>5. v(verdict).st = verdict
  BY <1>3 DEF Wide
<1> HIDE DEF v
<1> DEFINE vv == v(verdict)
<1>6. vv.st \in S
  BY <1>1, <1>5
<1>7. row' = [row EXCEPT ![x] = [row[x] EXCEPT ![j] = vv]]
  BY <1>4
<1> HIDE DEF vv
<1>8. ASSUME u.st = "running" PROVE Contract!Writes(x, j, Contract!Ends)
  BY <1>2, <1>4, <1>6, <1>7, <1>8, WriteOne DEF Done, Contract!Ends
<1>9. ASSUME u.st = "cancelling" PROVE Contract!Writes(x, j, {"cancelled"})
  BY <1>2, <1>4, <1>6, <1>7, <1>9, WriteOne
<1>10. [y \in Attempt |-> [k \in Name |-> row[y][k].st]][x][j] = u.st
  OBVIOUS
<1> HIDE DEF u
<1> QED BY <1>3, <1>8, <1>9, <1>10 DEF Contract!Report

(* The emitter's transaction is a check, also if it fails.                 *)
LEMMA CheckChecks ==
  ASSUME TypeInv, Placed, Tidy(row), NEW h \in handling, HandlerCheck(h)
  PROVE  Contract!Check
<1> DEFINE more(o1) == IF PassesOver(h.run, o1.rs) THEN {"passed"} ELSE {}
<1>1. wf' = wf
  BY DEF HandlerCheck
<1>2. PICK o1 \in CheckJobs(row, attempt, <<h.run, h.latest>>, h.blocked) :
      \E o \in CheckRunConcurrency(h.run, o1) :
         IF o.ok THEN Commit(o.rs, latest, more(o1)) ELSE UNCHANGED <<latest, rows, cut>>
  BY DEF HandlerCheck
<1>3. PICK o \in CheckRunConcurrency(h.run, o1) :
         IF o.ok THEN Commit(o.rs, latest, more(o1)) ELSE UNCHANGED <<latest, rows, cut>>
  BY <1>2
<1>4. CASE o.ok
  <2> HIDE DEF more
  <2>1. row' = o.rs /\ latest' = latest
    BY <1>3, <1>4, CommitCut
  <2>2. AllLegal(row, o.rs)
    BY <1>4, CheckRunConcurrencyLegal
  <2> QED BY <1>1, <2>1, <2>2, LegalChecks
<1>5. CASE ~o.ok
  BY <1>1, <1>3, <1>5, SameChecks DEF rows
<1> QED BY <1>4, <1>5

(* So are an approval and a cancellation.                                  *)
LEMMA UserChecks ==
  ASSUME TypeInv, Placed, Tidy(row), NEW r \in Run, "revived" \notin cut',
         CancelRun(r) \/ ApproveRuns(r)
  PROVE  Contract!Check
<1>1. wf' = wf /\ latest' = latest
  BY DEF CancelRun, ApproveRuns, Commit
<1>2. row \in Rows /\ Unclaimed(row)
  BY DEF TypeInv, TypeOK, Rows, Tidy
<1>3. CASE CancelRun(r)
  <2> DEFINE V == {<<r, latest[r]>>} \X Name
  <2>1. row' = CancelJobs(row, V)
    BY <1>3 DEF CancelRun, Commit
  <2> HIDE DEF V
  <2>2. AllLegal(row, CancelJobs(row, V))
    BY <1>2, CancelJobsStops, StopsLegal
  <2> QED BY <1>1, <2>1, <2>2, LegalChecks
<1>4. CASE ApproveRuns(r)
  <2> DEFINE x == <<r, latest[r]>>
  <2>1. x \in Attempt /\ x[1] = r /\ x[2] <= latest[x[1]]
    <3>1. latest[r] \in Nat /\ latest[r] # 0
      BY <1>4, Places DEF ApproveRuns
    <3> QED BY <3>1, Places
  <2> HIDE DEF x
  <2>2. wf[r] # None
    BY <2>1 DEF Placed
  <2> QED BY <1>1, <1>4, <2>2, ApproveLegal, LegalChecks
<1> QED BY <1>3, <1>4

(* A step takes nothing back that spoils the promises.                     *)
LEMMA SpoiledStays == [Next]_vars => cut \subseteq cut'
<1> SUFFICES ASSUME [Next]_vars PROVE cut \subseteq cut'
  OBVIOUS
<1>1. \A rs, lat, more : Commit(rs, lat, more) => cut \subseteq cut'
  BY DEF Commit
<1>2. ASSUME NEW r \in Run, Users(r) PROVE cut \subseteq cut'
  BY <1>1, <1>2 DEF Users, InsertRun, BuildRerunPlan, ApproveRuns, CancelRun
<1>3. ASSUME NEW r \in Run, Reports(r) \/ HandlerRead(r) PROVE cut \subseteq cut'
  BY <1>3 DEF Reports, ReportAggregate, ReportStore, ReportLoad, ReportRun, ReportRefused,
              ReportAgain, HandlerRead
<1>4. ASSUME NEW x \in Attempt, NEW j \in Name, ClaimJob(x, j) \/ ReportJob(x, j)
      PROVE  cut \subseteq cut'
  BY <1>1, <1>4 DEF ClaimJob, ReportJob
<1>5. ASSUME NEW p \in plans, ExecRerunPlan(p) \/ RerunRefused(p) PROVE cut \subseteq cut'
  BY <1>1, <1>5 DEF ExecRerunPlan, RerunRefused
<1>6. ASSUME NEW h \in handling, HandlerCheck(h) PROVE cut \subseteq cut'
  BY <1>1, <1>6 DEF HandlerCheck
<1>7. CASE Crash
  BY <1>7 DEF Crash
<1>8. CASE UNCHANGED vars
  BY <1>8 DEF vars
<1> QED BY <1>2, <1>3, <1>4, <1>5, <1>6, <1>7, <1>8 DEF Next

(* As long as nothing is spoiled every step is one that RunContract has.   *)
LEMMA StepPromised ==
  ASSUME IInv, StartInv, InOrder, InOrder', [Next]_vars PROVE Contract!Promised
<1>1. TypeInv /\ Placed /\ Tidy(row) /\ Unclaimed(row) /\ "revived" \notin cut'
  BY DEF IInv, StartInv, NeedsInv, GroupInv, InOrder, Tidy
<1>2. \A r \in Run, S \in SUBSET Name : Contract!Begin(r, S) => Contract!Promised
  BY DEF Contract!Promised
<1>3. ASSUME UNCHANGED <<wf, latest, row>> PROVE Contract!Promised
  BY <1>3, SameChecks DEF Contract!Promised
<1>4. ASSUME NEW r \in Run, Users(r) PROVE Contract!Promised
  <2>1. ASSUME NEW w \in Workflow, InsertRun(r, w) PROVE Contract!Promised
    BY <1>1, <1>2, <2>1, InsertBegins
  <2>2. ASSUME NEW jobs \in SUBSET Name, BuildRerunPlan(r, jobs) PROVE Contract!Promised
    BY <1>3, <2>2 DEF BuildRerunPlan, rows
  <2>3. CASE ApproveRuns(r) \/ CancelRun(r)
    BY <1>1, <2>3, UserChecks DEF Contract!Promised
  <2> QED BY <1>4, <2>1, <2>2, <2>3 DEF Users
<1>5. ASSUME NEW r \in Run, Reports(r) \/ HandlerRead(r) PROVE Contract!Promised
  <2>1. UNCHANGED <<wf, latest, row>>
    BY <1>5 DEF Reports, ReportAggregate, ReportStore, ReportLoad, ReportRun, ReportRefused,
                ReportAgain, HandlerRead, rows
  <2> QED BY <1>3, <2>1
<1>6. ASSUME NEW x \in Attempt, NEW j \in Name, ClaimJob(x, j) \/ ReportJob(x, j)
      PROVE  Contract!Promised
  <2>1. Contract!Claim(x, j) \/ Contract!Report(x, j)
    BY <1>1, <1>6, ClaimClaims, ReportReports
  <2>2. x \in Contract!Attempts
    BY DEF Contract!Attempts, Attempt
  <2> QED BY <2>1, <2>2 DEF Contract!Promised
<1>7. ASSUME NEW p \in plans, ExecRerunPlan(p) PROVE Contract!Promised
  BY <1>1, <1>2, <1>7, RerunBegins
<1>8. ASSUME NEW p \in plans, RerunRefused(p) PROVE Contract!Promised
  BY <1>3, <1>8 DEF RerunRefused, rows
<1>9. ASSUME NEW h \in handling, HandlerCheck(h) PROVE Contract!Promised
  BY <1>1, <1>9, CheckChecks DEF Contract!Promised
<1>10. CASE Crash
  BY <1>3, <1>10 DEF Crash, rows
<1>11. CASE UNCHANGED vars
  BY <1>3, <1>11 DEF vars, rows
<1> QED BY <1>4, <1>5, <1>6, <1>7, <1>8, <1>9, <1>10, <1>11 DEF Next

(* The jobs of runs go from inserted to done as RunContract says, for any  *)
(* workflows, groups, reruns, approvals, cancellations, reports, checks    *)
(* and crashes, unless an approval restarts jobs: each action of services/ *)
(* actions is a step of it or changes no status.                           *)
THEOREM RunsKeepContract == Spec => KeepsRunContract
<1>1. Init => Contract!Init
  <2> SUFFICES ASSUME Init PROVE Contract!Init
    OBVIOUS
  <2>1. [x \in Attempt |-> [j \in Name |-> row[x][j].st]] =
          [x \in Contract!Attempts |-> [j \in Name |-> "none"]]
    BY DEF Init, NoRow, Contract!Attempts, Attempt
  <2>2. ("revived" \in cut) = FALSE
    BY DEF Init
  <2> QED BY <2>1, <2>2 DEF Init, Contract!Init
<1>2. IInv /\ StartInv /\ [Next]_vars => Contract!Next
  <2> SUFFICES ASSUME IInv, StartInv, [Next]_vars PROVE Contract!Next
    OBVIOUS
  <2>1. cut \subseteq cut'
    BY SpoiledStays
  <2>2. CASE InOrder'
    <3>1. InOrder
      BY <2>1, <2>2 DEF InOrder
    <3>2. Contract!Promised
      BY <2>2, <3>1, StepPromised
    <3> QED BY <2>2, <3>1, <3>2 DEF Contract!Next, InOrder
  <2>3. CASE ~InOrder'
    BY <2>3 DEF Contract!Next, InOrder
  <2> QED BY <2>2, <2>3
<1>3. IInv /\ StartInv /\ [Next]_vars => [Contract!Next]_(Contract!cvars)
  BY <1>2
<1> QED BY <1>1, <1>3, RunInvariant, InitStart, StepStart, PTL
        DEF Spec, KeepsRunContract, Contract!Spec
=============================================================================

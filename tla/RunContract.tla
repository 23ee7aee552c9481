------------------------------ MODULE RunContract ------------------------------
(***************************************************************************)
(* What services/actions promises about the jobs of workflow runs, without *)
(* saying who sees to it, in how many transactions and with which locks.   *)
(* An attempt begins when the one before it is over, and takes over the    *)
(* results of the jobs that it does not run again.  A job starts once what *)
(* it needs has succeeded and is skipped once that cannot happen any more; *)
(* it is claimed once, and what has an end keeps it.  A cancel, also one   *)
(* for a concurrency group, may end a job, or ask a runner to, at any time.*)
(***************************************************************************)
EXTENDS Integers

CONSTANTS Run, Name, MaxAttempt, None

VARIABLES
  wf,      \* the workflow of each run, None before it is inserted
  latest,  \* the number of its latest attempt
  job,     \* the status of each job of each attempt, "none" if it has none
  spoiled  \* someone restarted jobs that were not blocked: nothing is
           \* promised any more

cvars == <<wf, latest, job, spoiled>>

Attempts == Run \X (1..MaxAttempt)
Ends == {"success", "failure", "cancelled", "skipped"}

Init ==
  /\ wf = [r \in Run |-> None] /\ latest = [r \in Run |-> 0]
  /\ job = [x \in Attempts |-> [j \in Name |-> "none"]] /\ spoiled = FALSE

(* What a cancel may do to a job.                                          *)
Stops(u, v) ==
  \/ v = u
  \/ u \in {"blocked", "waiting", "running", "cancelling"} /\ v = "cancelled"
  \/ u = "running" /\ v = "cancelling"

(* What a check or an approval may do to a job that is blocked.            *)
Starts(x, j) ==
  /\ job[x][j] = "blocked" /\ job'[x][j] = "waiting"
  /\ \A k \in Name : k \in wf[x[1]].needs[j] => job[x][k] = "success"
Skips(x, j) ==
  /\ job[x][j] = "blocked" /\ job'[x][j] = "skipped"
  /\ \A k \in Name : k \in wf[x[1]].needs[j] => job'[x][k] \in Ends
  /\ \E k \in Name : k \in wf[x[1]].needs[j] /\ job'[x][k] # "success"

Check ==
  /\ UNCHANGED <<wf, latest>>
  /\ \A x \in Attempts, j \in Name :
       Stops(job[x][j], job'[x][j]) \/ Starts(x, j) \/ Skips(x, j)

Writes(x, j, S) ==
  /\ job[x][j] \notin S
  /\ \E s \in S : job' = [job EXCEPT ![x][j] = s]
  /\ UNCHANGED <<wf, latest>>
Claim(x, j) == job[x][j] = "waiting" /\ Writes(x, j, {"running"})
Report(x, j) ==
  \/ job[x][j] = "running" /\ Writes(x, j, Ends)
  \/ job[x][j] = "cancelling" /\ Writes(x, j, {"cancelled"})

(* Run r gets an attempt that runs the jobs S: all jobs of the first one,  *)
(* with each job all that need it in a later one.                          *)
Begin(r, S) ==
  LET w == wf'[r]
      n == latest[r]
      new == job'[<<r, n + 1>>]
  IN /\ <<r, n + 1>> \in Attempts /\ latest' = [latest EXCEPT ![r] = n + 1]
     /\ \A q \in Run : q # r \/ n # 0 => wf'[q] = wf[q]
     /\ w # None /\ S # {} /\ S \subseteq w.jobs
     /\ \A j \in w.jobs : w.needs[j] \cap S # {} => j \in S
     /\ n = 0 => \A j \in Name : j \notin S => new[j] = "none"
     /\ n # 0 => /\ \A j \in Name : job[<<r, n>>][j] \in Ends \cup {"none"}
                 /\ \A j \in Name : j \notin S => new[j] = job[<<r, n>>][j]
     /\ \A j \in S : /\ new[j] \in {"blocked", "waiting", "cancelled"}
                     /\ new[j] = "waiting" => w.needs[j] \cap S = {}
     /\ \A x \in Attempts : x # <<r, n + 1>> => \A j \in Name : Stops(job[x][j], job'[x][j])

Promised ==
  \/ Check
  \/ \E x \in Attempts, j \in Name : Claim(x, j) \/ Report(x, j)
  \/ \E r \in Run, S \in SUBSET Name : Begin(r, S)

Next == spoiled' \/ (~spoiled /\ ~spoiled' /\ Promised)

Spec == Init /\ [][Next]_cvars
=============================================================================

----------------------------- MODULE WorkQueue -----------------------------
(* The jobs that rebuild the views of a tenant. A job is claimed without lease *)
(* or token, so that no two runners have it, and one whose runner died stays   *)
(* as it is. A view is rebuilt from what was read before it is written.        *)
EXTENDS Integers, FiniteSets

CONSTANTS
  Views,        \* views made from documents; every change of a transaction concerns them all
  Runners,      \* whoever works off jobs: requests and the cron
  MaxAttempts,  \* attempts before a job is given up
  MaxVersion    \* bound: versions of the document; one change event each

ASSUME QueueAssumption ==
  /\ Views # {}
  /\ MaxAttempts \in Nat \ {0} /\ MaxVersion \in Nat

VARIABLES
  jobs,      \* work_queue/<change event and view>
  runner,    \* the job each runner has claimed, and what it has read for it
  views,     \* orgs/<tenant>/views/<view>: the version of the document it shows
  overtaken  \* history: views of which two rebuilds met

queueVars == <<jobs, runner, views, overtaken>>

JobIds == (1..MaxVersion) \X Views
NoJob == [status |-> "NONE", attempts |-> 0, wait |-> 0]
Resting == [at |-> "NO", job |-> <<0, CHOOSE v \in Views : TRUE>>, saw |-> 0]

QueueInit ==
  /\ jobs = [j \in JobIds |-> NoJob]
  /\ runner = [w \in Runners |-> Resting]
  /\ views = [v \in Views |-> 0]
  /\ overtaken = {}

\* In the transaction that makes the change.
Enqueued(event) ==
  [j \in JobIds |-> IF j[1] = event THEN [NoJob EXCEPT !.status = "READY"] ELSE jobs[j]]

\* Mutant: a job that failed once is not found again.
DueWhenReady(j) == jobs[j].status = "READY"
Due(j) == jobs[j].status \in {"READY", "FAILED"} /\ jobs[j].wait = 0

RunnerAt(w, phase) == runner[w].at = phase
View(w) == runner[w].job[2]

ClaimJob(w, j) ==
  /\ RunnerAt(w, "NO") /\ Due(j)
  /\ jobs' = [jobs EXCEPT ![j] = [jobs[j] EXCEPT !.status = "PROCESSING", !.attempts = @ + 1]]
  /\ runner' = [runner EXCEPT ![w] = [at |-> "CLAIMED", job |-> j, saw |-> 0]]
  /\ UNCHANGED <<views, overtaken>>

ReadView(w, version) ==
  /\ RunnerAt(w, "CLAIMED")
  /\ runner' = [runner EXCEPT ![w] = [@ EXCEPT !.at = "READ", !.saw = version]]
  /\ overtaken' = overtaken \cup
       {v \in {View(w)} : \E o \in Runners : RunnerAt(o, "READ") /\ View(o) = v}
  /\ UNCHANGED <<jobs, views>>

WriteView(w) ==
  /\ RunnerAt(w, "READ")
  /\ views' = [views EXCEPT ![View(w)] = runner[w].saw]
  /\ runner' = [runner EXCEPT ![w].at = "WRITTEN"]
  /\ UNCHANGED <<jobs, overtaken>>

JobDone(w) ==
  /\ RunnerAt(w, "WRITTEN")
  /\ jobs' = [jobs EXCEPT ![runner[w].job].status = "DONE"]
  /\ runner' = [runner EXCEPT ![w] = Resting]
  /\ UNCHANGED <<views, overtaken>>

\* Mutant: what a rebuild throws is swallowed.
Swallowed(job) == [job EXCEPT !.status = "DONE"]
\* Mutant: a job is tried for ever.
TriedForEver(job) == [job EXCEPT !.status = "FAILED", !.wait = 1]
Failed(job) ==
  [job EXCEPT !.status = IF job.attempts >= MaxAttempts THEN "DEAD" ELSE "FAILED", !.wait = 1]

JobFails(w) ==
  /\ ~RunnerAt(w, "NO")
  /\ jobs' = [jobs EXCEPT ![runner[w].job] = Failed(@)]
  /\ runner' = [runner EXCEPT ![w] = Resting]
  /\ UNCHANGED <<views, overtaken>>

RunJob(w, version) == ReadView(w, version) \/ WriteView(w) \/ JobDone(w) \/ JobFails(w)

\* The runner is killed, or marking the failure failed.
Abandon(w) ==
  /\ runner' = [runner EXCEPT ![w] = Resting]
  /\ UNCHANGED <<jobs, views, overtaken>>

\* A tick is longer than the longest delay before another attempt (300 s).
QueueTick ==
  /\ jobs' = [j \in JobIds |-> [jobs[j] EXCEPT !.wait = 0]]
  /\ UNCHANGED <<runner, views, overtaken>>
=============================================================================

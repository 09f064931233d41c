----------------------------- MODULE SheetApply -----------------------------
(* Applying a reviewed sheet to one project's cashflow. A staged run is        *)
(* applied by requests to the BFF, each a function that is killed after its    *)
(* lifetime. It takes the project's publication lock, has the JVM write the    *)
(* months and then the year total, checkpoints each, reads the months back and *)
(* publishes. A second request for a run under way joins it. The lock expires. *)
EXTENDS Integers, FiniteSets

CONSTANTS
  Runs,        \* staged reviews of the project
  Calls,       \* requests at a time; one that has ended may be followed by another
  Keys,        \* idempotency keys; a retried request keeps its key
  Contents,    \* what the months can contain; a revision is the hash of it
  NewContent,  \* the content at the beginning
  Modes,       \* whether a run is staged as one that replaces every source
  None,
  Life,        \* lifetime of a function in ticks (300 s)
  Flight,      \* how long after that a request of it may still reach the JVM
  Lease,       \* lifetime of the lock (600 s)
  MaxEdits,    \* bound: edits of the months by others
  MaxForced    \* bound: locks released by an administrator

ASSUME ContentAssumption == NewContent \in Contents /\ Modes \subseteq BOOLEAN
ASSUME NoneAssumption == None \notin Runs \cup Keys
\* A request that reaches the JVM was sent by a function of which the lease knows.
ASSUME LeaseAssumption ==
  Life \in Nat /\ Flight \in Nat /\ Lease \in Nat /\ Life + Flight < Lease
ASSUME SheetBounds == MaxEdits \in Nat /\ MaxForced \in Nat

VARIABLES
  run,          \* cashflow_sheet_stage_runs/<run>
  publication,  \* cashflow_sheet_publications/<project>: the lock
  mirror,       \* cashflow_sheet_mirrors/<project>: what was last fetched
  ledger,       \* the JVM's months, year total and idempotency records
  call,         \* the requests
  record        \* how many edits and forced releases

vars == <<run, publication, mirror, ledger, call, record>>

Operations == {"MONTHS", "YEAR"}
NoRun == [status |-> "NONE", source |-> NewContent, base |-> NewContent, yearBase |-> 0,
          oneWay |-> FALSE, key |-> None, done |-> [o \in Operations |-> "NONE"]]
\* `alone' is history: nobody has joined this call's apply, put it back, or released
\* its lock by force, and nobody was at work under its key when it began.
Idle == [phase |-> "IDLE", run |-> None, key |-> None, sent |-> "NONE", reply |-> "NONE",
         seen |-> [o \in Operations |-> "NONE"], age |-> 0, alone |-> TRUE]

Init ==
  /\ run = [r \in Runs |-> NoRun]
  /\ publication = [status |-> "NONE", run |-> None, age |-> 0]
  /\ mirror = [source |-> NewContent, target |-> NewContent]
  /\ ledger = [months |-> NewContent, year |-> 0, keys |-> {}]
  /\ call = [c \in Calls |-> Idle]
  /\ record = [edits |-> 0, forced |-> 0]

-----------------------------------------------------------------------------
(* Around an apply *)
\* The fetch and its installation are taken as one step.
Refresh(s) ==
  /\ mirror' = [source |-> s, target |-> ledger.months]
  /\ UNCHANGED <<run, publication, ledger, call, record>>

\* The last transaction of staging: a run with changes is ready.
Stage(r, w) ==
  /\ run[r].status = "NONE"
  /\ mirror.target = ledger.months
  /\ mirror.source # ledger.months
  /\ run' = [run EXCEPT ![r] =
       [NoRun EXCEPT !.status = "READY", !.source = mirror.source, !.base = mirror.target,
                     !.yearBase = ledger.year, !.oneWay = w]]
  /\ UNCHANGED <<publication, mirror, ledger, call, record>>

\* Somebody edits a week.
Edit(x) ==
  /\ record.edits < MaxEdits
  /\ ledger.months # x
  /\ ledger' = [ledger EXCEPT !.months = x]
  /\ record' = [record EXCEPT !.edits = @ + 1]
  /\ UNCHANGED <<run, publication, mirror, call>>

-----------------------------------------------------------------------------
(* The lock *)
Locked(r) == publication.status = "APPLYING" /\ publication.run = r
AtWork == {"WORKING", "WAITING", "APPLIED", "CONFIRMED"}

\* Mutant: the lease is the lifetime of a function.
ExpiredWithFunction(ahead) ==
  publication.status = "APPLYING" /\ publication.age - ahead >= Life

\* Mutant: a lease without a limit.
ExpiredNever(ahead) == FALSE

Expired(ahead) ==
  publication.status = "APPLYING" /\ publication.age - ahead >= Lease

CallsOn(r) == {d \in Calls : call[d].run = r}
Disturb(calls, D) == [d \in Calls |-> IF d \in D THEN [calls[d] EXCEPT !.alone = FALSE]
                                                 ELSE calls[d]]

\* Mutant: a released run is marked as failed.
UnlockFailed(r) ==
  /\ publication' = [publication EXCEPT !.status = "READY"]
  /\ run' = [run EXCEPT ![r].status = "APPLY_FAILED", ![r].key = None]

\* Mutant: the run is not put back with the lock.
UnlockOnly(r) ==
  /\ publication' = [publication EXCEPT !.status = "READY"]
  /\ run' = [run EXCEPT ![r].key = None]

Unlock(r) ==
  /\ publication' = [publication EXCEPT !.status = "READY"]
  /\ run' = IF run[r].status = "APPLYING"
            THEN [run EXCEPT ![r].status = "READY", ![r].key = None]
            ELSE run

\* Whoever asks for the status, or is about to reserve, releases an expired lock.
ReleaseExpired ==
  /\ Expired(0)
  /\ Unlock(publication.run)
  /\ UNCHANGED <<mirror, ledger, call, record>>

\* An administrator releases it at any time.
ForceRelease ==
  /\ publication.status = "APPLYING"
  /\ record.forced < MaxForced
  /\ Unlock(publication.run)
  /\ call' = Disturb(call, CallsOn(publication.run))
  /\ record' = [record EXCEPT !.forced = @ + 1]
  /\ UNCHANGED <<mirror, ledger>>

-----------------------------------------------------------------------------
(* A request *)
Live(c) == call[c].phase \notin {"IDLE", "OVER"}
Holds(c) ==
  /\ run[call[c].run].status = "APPLYING"
  /\ run[call[c].run].key = call[c].key
  /\ Locked(call[c].run)

Moved(c, phase) == [call EXCEPT ![c].phase = phase, ![c].reply = "NONE"]

\* A function has ended. What it sent to the JVM may still be on its way.
Ended(c) == [call EXCEPT ![c] =
  IF @.sent = "NONE" THEN Idle
  ELSE [@ EXCEPT !.phase = "OVER", !.reply = "NONE", !.seen = Idle.seen]]

\* The request reads the run and the mirror. A join that finds another sheet,
\* and nothing checkpointed, is going to put the run back.
Start(c, r, k) ==
  /\ call[c] = Idle
  /\ run[r].status \in {"READY", "APPLYING"}
  /\ \/ /\ mirror.source = run[r].source
        /\ call' = [call EXCEPT ![c] = [Idle EXCEPT !.phase = "RESERVING", !.run = r, !.key = k]]
     \/ /\ mirror.source # run[r].source
        /\ run[r].status = "APPLYING" /\ run[r].done = NoRun.done
        /\ call' = [call EXCEPT ![c] = [Idle EXCEPT !.phase = "RESTORING", !.run = r,
                                                    !.key = run[r].key]]
  /\ UNCHANGED <<run, publication, mirror, ledger, record>>

\* By the time of its start the lock it finds has not expired: it would have
\* released it.
MayReserve(c) ==
  /\ call[c].phase = "RESERVING"
  /\ publication.status = "APPLYING" => publication.run = call[c].run
  /\ ~Expired(call[c].age)

Reserve(c) ==
  LET r == call[c].run IN
  /\ MayReserve(c)
  /\ run[r].status = "READY"
  /\ mirror = [source |-> run[r].source, target |-> run[r].base]
  /\ run' = [run EXCEPT ![r].status = "APPLYING", ![r].key = call[c].key]
  /\ publication' = [status |-> "APPLYING", run |-> r, age |-> call[c].age]
  /\ call' = [call EXCEPT ![c].phase = "WORKING", ![c].seen = run[r].done,
       ![c].alone = \A d \in CallsOn(r) : call[d].key = call[c].key => call[d].phase \notin AtWork]
  /\ UNCHANGED <<mirror, ledger, record>>

\* It works on under the key of the run, and under the lock's first start time.
Join(c) ==
  LET r == call[c].run IN
  /\ MayReserve(c)
  /\ run[r].status = "APPLYING"
  /\ publication' = [publication EXCEPT !.status = "APPLYING", !.run = r]
  /\ call' = Disturb([call EXCEPT ![c].phase = "WORKING", ![c].seen = run[r].done,
                                  ![c].key = run[r].key],
                     CallsOn(r))
  /\ UNCHANGED <<run, mirror, ledger, record>>

\* Mutant: what is uncertain counts as done.
SureEnough(c, o) == call[c].seen[o] # "NONE"

Sure(c, o) == call[c].seen[o] = "APPLIED"

AllDone(c) == \A o \in Operations : Sure(c, o)
Operation(c) == IF Sure(c, "MONTHS") THEN "YEAR" ELSE "MONTHS"
Key(c, o) == <<call[c].run, call[c].key, o>>
OneWay(c) == run[call[c].run].oneWay

\* A failure after which nothing is in doubt puts the run back if nothing is done.
Failed(c) == IF \E o \in Operations : Sure(c, o) THEN Ended(c) ELSE Moved(c, "RESTORING")

Send(c) ==
  /\ call[c].phase = "WORKING" /\ ~AllDone(c)
  /\ call' = [call EXCEPT ![c].phase = "WAITING", ![c].sent = Operation(c)]
  /\ UNCHANGED <<run, publication, mirror, ledger, record>>

\* A function that is not sure asks the JVM, unless its run is one-way.
Reconcile(c) ==
  /\ \/ call[c].phase = "WORKING" /\ ~AllDone(c) /\ call[c].seen[Operation(c)] = "UNCERTAIN"
     \/ call[c].phase = "WAITING"
  /\ ~OneWay(c)
  /\ Key(c, Operation(c)) \in ledger.keys
  /\ call' = Moved(c, "APPLIED")
  /\ UNCHANGED <<run, publication, mirror, ledger, record>>

\* The request cannot be sent.
NotSent(c) ==
  /\ call[c].phase = "WORKING" /\ ~AllDone(c) /\ OneWay(c)
  /\ call' = Failed(c)
  /\ UNCHANGED <<run, publication, mirror, ledger, record>>

\* Nobody can say what became of it: the lock is left to expire.
Uncertain(c) ==
  /\ \/ call[c].phase = "WAITING"
     \/ call[c].phase = "WORKING" /\ ~AllDone(c) /\ ~OneWay(c)
  /\ run' = IF Holds(c) /\ ~OneWay(c)
            THEN [run EXCEPT ![call[c].run].done[Operation(c)] = "UNCERTAIN"]
            ELSE run
  /\ call' = Ended(c)
  /\ UNCHANGED <<publication, mirror, ledger, record>>

Hear(c) ==
  /\ call[c].phase = "WAITING"
  /\ \/ call[c].reply = "OK" /\ call' = Moved(c, "APPLIED")
     \/ call[c].reply = "REFUSED" /\ call' = Failed(c)
  /\ UNCHANGED <<run, publication, mirror, ledger, record>>

\* The checkpoint; a call that comes after the publication goes on.
Checkpoint(c) ==
  LET r == call[c].run
      o == Operation(c)
  IN /\ call[c].phase = "APPLIED"
     /\ \/ Holds(c) /\ run' = [run EXCEPT ![r].done[o] = "APPLIED"]
        \/ /\ run[r].status = "APPLIED" /\ run[r].key = call[c].key
           /\ publication.status = "APPLIED" /\ publication.run = r
           /\ UNCHANGED run
     /\ call' = [call EXCEPT ![c].phase = "WORKING", ![c].seen[o] = "APPLIED"]
     /\ UNCHANGED <<publication, mirror, ledger, record>>

\* The checkpoint cannot be written, or the answer cannot be verified.
CheckpointFails(c) ==
  /\ call[c].phase = "APPLIED"
  /\ call' = Failed(c)
  /\ UNCHANGED <<run, publication, mirror, ledger, record>>

ReadBack(c) ==
  /\ call[c].phase = "WORKING" /\ AllDone(c)
  /\ ledger.months = run[call[c].run].source
  /\ call' = Moved(c, "CONFIRMED")
  /\ UNCHANGED <<run, publication, mirror, ledger, record>>

Publish(c) ==
  /\ call[c].phase = "CONFIRMED"
  /\ Holds(c)
  /\ run' = [run EXCEPT ![call[c].run].status = "APPLIED"]
  /\ publication' = [publication EXCEPT !.status = "APPLIED"]
  /\ call' = Ended(c)
  /\ UNCHANGED <<mirror, ledger, record>>

Restore(c) ==
  /\ call[c].phase = "RESTORING"
  /\ IF Holds(c) THEN Unlock(call[c].run) ELSE UNCHANGED <<run, publication>>
  /\ call' = IF Holds(c) THEN Disturb(Ended(c), CallsOn(call[c].run) \ {c}) ELSE Ended(c)
  /\ UNCHANGED <<mirror, ledger, record>>

-----------------------------------------------------------------------------
(* The JVM: a request sent arrives while its function lives, or after that *)
Arrives(c) == call[c].sent # "NONE"
Answered(c, reply) ==
  IF call[c].phase = "OVER" THEN [call EXCEPT ![c] = Idle]
  ELSE [call EXCEPT ![c].sent = "NONE",
                    ![c].reply = IF call[c].phase = "WAITING" THEN reply ELSE "NONE"]

\* Mutant: the year total is written without a look at its revision.
AcceptsAnyYear(c) ==
  OneWay(c) \/ call[c].sent = "YEAR" \/ ledger.months = run[call[c].run].base

Accepts(c) ==
  \/ OneWay(c)
  \/ call[c].sent = "MONTHS" /\ ledger.months = run[call[c].run].base
  \/ call[c].sent = "YEAR" /\ ledger.year = run[call[c].run].yearBase

Replay(c) ==
  /\ Arrives(c)
  /\ Key(c, call[c].sent) \in ledger.keys
  /\ call' = Answered(c, "OK")
  /\ UNCHANGED <<run, publication, mirror, ledger, record>>

Refuse(c) ==
  /\ Arrives(c)
  /\ Key(c, call[c].sent) \notin ledger.keys
  /\ call' = Answered(c, "REFUSED")
  /\ UNCHANGED <<run, publication, mirror, ledger, record>>

WriteMonths(c) ==
  LET r == call[c].run IN
  /\ call[c].sent = "MONTHS"
  /\ ledger' = [ledger EXCEPT !.months = run[r].source, !.keys = @ \cup {Key(c, "MONTHS")}]
  /\ mirror' = IF OneWay(c) \/ mirror.target = run[r].base
               THEN [mirror EXCEPT !.target = run[r].source] ELSE mirror

WriteYear(c) ==
  /\ call[c].sent = "YEAR"
  /\ ledger' = [ledger EXCEPT !.year = @ + 1, !.keys = @ \cup {Key(c, "YEAR")}]
  /\ UNCHANGED mirror

Write(c) ==
  /\ Arrives(c)
  /\ Key(c, call[c].sent) \notin ledger.keys
  /\ Accepts(c)
  /\ WriteMonths(c) \/ WriteYear(c)
  /\ call' = Answered(c, "OK")
  /\ UNCHANGED <<run, publication, record>>

-----------------------------------------------------------------------------
(* Time. A function is killed at the end of its life, or crashes before. *)
Crash(c) ==
  /\ Live(c)
  /\ call' = Ended(c)
  /\ UNCHANGED <<run, publication, mirror, ledger, record>>

Vanish(c) ==
  /\ call[c].phase = "OVER"
  /\ call' = [call EXCEPT ![c] = Idle]
  /\ UNCHANGED <<run, publication, mirror, ledger, record>>

AtLimit(c) ==
  \/ Live(c) /\ call[c].age >= Life
  \/ call[c].phase = "OVER" /\ call[c].age >= Life + Flight

Kill(c) == AtLimit(c) /\ (Crash(c) \/ Vanish(c))

Tick ==
  /\ \A c \in Calls : ~AtLimit(c)
  /\ call' = [c \in Calls |-> IF call[c].phase = "IDLE" THEN call[c]
                              ELSE [call[c] EXCEPT !.age = @ + 1]]
  /\ publication' = IF publication.status = "APPLYING" /\ publication.age < Lease + Life
                    THEN [publication EXCEPT !.age = @ + 1] ELSE publication
  /\ UNCHANGED <<run, mirror, ledger, record>>

CallStep(c) ==
  \/ \E r \in Runs, k \in Keys : Start(c, r, k)
  \/ Reserve(c) \/ Join(c) \/ Send(c) \/ Reconcile(c) \/ NotSent(c) \/ Uncertain(c)
  \/ Hear(c) \/ Checkpoint(c) \/ CheckpointFails(c) \/ ReadBack(c) \/ Publish(c)
  \/ Restore(c) \/ Replay(c) \/ Refuse(c) \/ Write(c) \/ Crash(c) \/ Vanish(c)

Next ==
  \/ \E s \in Contents : Refresh(s)
  \/ \E r \in Runs, w \in Modes : Stage(r, w)
  \/ \E x \in Contents : Edit(x)
  \/ ReleaseExpired \/ ForceRelease \/ Tick
  \/ \E c \in Calls : CallStep(c)

Spec == Init /\ [][Next]_vars

\* Time passes, the platform kills what has lived its life, and somebody asks
\* for the status.
Fairness == WF_vars(Tick) /\ WF_vars(ReleaseExpired) /\ \A c \in Calls : WF_vars(Kill(c))
FairSpec == Spec /\ Fairness
=============================================================================

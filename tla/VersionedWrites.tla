-------------------------- MODULE VersionedWrites --------------------------
(* Three routes that change a transaction, each under an idempotency key and   *)
(* the version its client has seen: POST /api/v1/write with the jobs it leaves *)
(* and works off, POST /api/v1/transactions, and PATCH .../state.              *)
EXTENDS IdempotencyKeys, WorkQueue, Sequences

CONSTANTS
  Requests,   \* calls that may run at a time
  Crons,      \* runs of the cron of the work queue that may run at a time
  Scenarios   \* what the client of each key asks for; bounds: the calls each
              \* request may take and the processes that die

NoVersion == -1
AllowedTransitions == [DRAFT |-> {"SUBMITTED"}, SUBMITTED |-> {"APPROVED", "REJECTED"},
                       REJECTED |-> {"SUBMITTED"}, APPROVED |-> {}]
Routes == {"NONE", "WRITE", "UPSERT", "PATCH"}
Wishes == [route : Routes, expected : {NoVersion} \cup Nat, state : DOMAIN AllowedTransitions]

ASSUME WriteAssumption ==
  /\ Runners = Requests \cup Crons /\ Requests \cap Crons = {}
  /\ IsFiniteSet(Keys) /\ Keys # {}
  /\ \A s \in Scenarios : s.intent \in [Keys -> Wishes]

VARIABLES
  document,  \* orgs/<tenant>/transactions/<id>: version, state
  intent,    \* what the client of each key asks for
  request,   \* how far each call has come, and the version it has read
  history,   \* per version: which key wrote it and by which route
  budget     \* what is left of the bounds of the scenario

writeVars == <<document, intent, request, history, budget>>
vars == <<keyVars, queueVars, writeVars>>

Nothing == [route |-> "NONE", expected |-> NoVersion, state |-> "DRAFT"]
Free == [at |-> "FREE", key |-> CHOOSE k \in Keys : TRUE, saw |-> 0]

Init ==
  /\ KeyInit /\ QueueInit
  /\ document = [version |-> 0, state |-> "DRAFT"]
  /\ request = [r \in Requests |-> Free]
  /\ history = <<>>
  /\ \E s \in Scenarios :
       /\ intent = s.intent
       /\ budget = [calls |-> s.calls, faults |-> s.faults]

-----------------------------------------------------------------------------
(* createMutatingRoute *)
At(r, phase) == request[r].at = phase
Key(r) == request[r].key
Wish(r) == intent[Key(r)]
Go(r, phase) == request' = [request EXCEPT ![r].at = phase]
Running(k) == {r \in Requests : ~At(r, "FREE") /\ Key(r) = k}

\* A call arrives: a new one, or the retry of one whose answer was lost. One that finds
\* the key completed, or still pending, is answered at once and changes nothing.
Arrive(r, k) ==
  /\ At(r, "FREE") /\ budget.calls[r] > 0 /\ intent[k] # Nothing
  /\ Begin(k)
  /\ request' = [request EXCEPT ![r] = [at |-> "STARTED", key |-> k, saw |-> 0]]
  /\ budget' = [budget EXCEPT !.calls[r] = @ - 1]
  /\ UNCHANGED <<queueVars, document, intent, history>>

\* Mutant: the version is not compared.
VersionIgnored(expected) == TRUE
VersionMatches(expected) ==
  \/ document.version = 0 /\ expected \in {NoVersion, 0}
  \/ document.version > 0 /\ expected = document.version

\* The change is made on the version that was read.
Written(r, version) ==
  /\ version < MaxVersion
  /\ document' = [version |-> version + 1, state |-> Wish(r).state]
  /\ history' = Append(history, <<Key(r), Wish(r).route>>)

\* POST /write and POST /transactions compare and write in one transaction, and set
\* whatever state the client sends.
Upsert(r) ==
  /\ At(r, "STARTED") /\ Wish(r).route \in {"WRITE", "UPSERT"}
  /\ VersionMatches(Wish(r).expected)
  /\ Written(r, document.version)
  /\ jobs' = IF Wish(r).route = "WRITE" THEN Enqueued(document.version + 1) ELSE jobs
  /\ Go(r, "COMMITTED")
  /\ UNCHANGED <<keyVars, runner, views, overtaken, intent, budget>>

\* PATCH reads first, and writes on condition that the document is as it was read.
ReadState(r) ==
  /\ At(r, "STARTED") /\ Wish(r).route = "PATCH"
  /\ document.version > 0 /\ Wish(r).expected = document.version
  /\ Wish(r).state \in AllowedTransitions[document.state]
  /\ request' = [request EXCEPT ![r] = [@ EXCEPT !.at = "READ", !.saw = document.version]]
  /\ UNCHANGED <<keyVars, queueVars, document, intent, history, budget>>

\* Mutant: the update has no precondition.
UpdateAnyway(r) == TRUE
Unchanged(r) == document.version = request[r].saw

PatchState(r) ==
  /\ At(r, "READ") /\ Unchanged(r)
  /\ Written(r, request[r].saw)
  /\ Go(r, "COMMITTED")
  /\ UNCHANGED <<keyVars, queueVars, intent, budget>>

\* A conflict, a rule, or a call that fails; after the commit too.
Refuse(r) ==
  /\ request[r].at \in {"STARTED", "READ", "COMMITTED", "AUDITED", "ENDING"}
  /\ RunnerAt(r, "NO")
  /\ Go(r, "FAILING")
  /\ UNCHANGED <<keyVars, queueVars, document, intent, history, budget>>

Audit(r) ==
  /\ At(r, "COMMITTED")
  /\ Go(r, IF Wish(r).route = "WRITE" THEN "AUDITED" ELSE "ENDING")
  /\ UNCHANGED <<keyVars, queueVars, document, intent, history, budget>>

\* The jobs of the request's own change event are worked off before it answers.
OwnJobs(r) == {j \in JobIds : j[1] \in DOMAIN history /\ history[j[1]][1] = Key(r)}
ClaimOwn(r) ==
  /\ At(r, "AUDITED")
  /\ \E j \in OwnJobs(r) : ClaimJob(r, j)
  /\ UNCHANGED <<keyVars, writeVars>>

QueueWorkedOff(r) ==
  /\ At(r, "AUDITED") /\ RunnerAt(r, "NO") /\ \A j \in OwnJobs(r) : ~Due(j)
  /\ Go(r, "ENDING")
  /\ UNCHANGED <<keyVars, queueVars, document, intent, history, budget>>

End(r) ==
  /\ \/ At(r, "ENDING") /\ Complete(Key(r))
     \/ At(r, "FAILING") /\ Fail(Key(r))
  /\ request' = [request EXCEPT ![r] = Free]
  /\ UNCHANGED <<queueVars, document, intent, history, budget>>

-----------------------------------------------------------------------------
ClaimDue(c) ==
  /\ \E j \in JobIds : ClaimJob(c, j)
  /\ UNCHANGED <<keyVars, writeVars>>

Work(w) ==
  /\ RunJob(w, document.version)
  /\ UNCHANGED <<keyVars, writeVars>>

\* The process dies, or what should record a failure fails.
Die(w) ==
  /\ budget.faults > 0
  /\ ~RunnerAt(w, "NO") \/ (w \in Requests /\ ~At(w, "FREE"))
  /\ Abandon(w)
  /\ request' = [r \in Requests |-> IF r = w THEN Free ELSE request[r]]
  /\ budget' = [budget EXCEPT !.faults = @ - 1]
  /\ UNCHANGED <<keyVars, document, intent, history>>

Tick ==
  /\ KeyTick({Key(r) : r \in {q \in Requests : ~At(q, "FREE")}})
  /\ QueueTick
  /\ UNCHANGED writeVars

Serve(r) ==
  \/ Upsert(r) \/ ReadState(r) \/ PatchState(r) \/ Refuse(r)
  \/ Audit(r) \/ ClaimOwn(r) \/ QueueWorkedOff(r) \/ End(r)

Next ==
  \/ \E r \in Requests : Serve(r) \/ \E k \in Keys : Arrive(r, k)
  \/ \E c \in Crons : ClaimDue(c)
  \/ \E w \in Runners : Work(w) \/ Die(w)
  \/ \E k \in Keys : CleanUp(k) /\ UNCHANGED <<queueVars, writeVars>>
  \/ Tick

Spec == Init /\ [][Next]_vars

\* Requests and rebuilds end, the cron comes again, and time passes.
Fairness ==
  /\ \A r \in Requests : WF_vars(Serve(r))
  /\ \A c \in Crons : WF_vars(ClaimDue(c))
  /\ \A w \in Runners : WF_vars(Work(w))
  /\ WF_vars(Tick)
FairSpec == Spec /\ Fairness
=============================================================================

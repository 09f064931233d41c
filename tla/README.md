# MYSCube: a verification of its settlement, editing and background work

MYSCube is a platform for running publicly funded projects. Its hardest part is
the *month settlement*: a project's cashflow is submitted month by month, an
approver closes it, and closed months are locked until somebody asks for them to
be reopened. Before that, the people of a project edit its cashflow one at a time,
under a lease, or replace it by a reviewed sheet. Around that, its other routes write
versioned documents under idempotency keys, and leave events and jobs behind that are
worked off later. The information of the project itself is changed by way of drafts and
a request that is approved. This directory holds TLA+ models of these six parts, the TLC
configurations that check them, and proofs checked by TLAPS.

Paths below are relative to the repository. Six files are named so often that
they get short names:

| name  | file |
|-------|------|
| BFF   | `server/bff/routes/jvm-weekly-api.mjs` |
| STORE | `server/jvm-weekly-api/src/main/java/dev/merryai/innerplatform/weekly/storage/FirestoreInheritedWeeklyExpensePersistence.java` |
| WECS  | `server/jvm-weekly-api/src/main/java/dev/merryai/innerplatform/weekly/service/WeeklyExpenseCommandService.java` |
| SHEET | `server/bff/routes/cashflow-sheet-lab.mjs` |
| DRAFTS | `server/bff/routes/project-info-drafts.mjs` |
| PROJECTS | `server/bff/routes/projects.mjs` |

## 1. The system

### Parts and how they interact

* **React frontend** (`src/app`). Shows a project's cycles and the commands a user
  has; sends commands with an idempotency key and the workflow revision it saw.
* **Node BFF** (`server/bff`). One process per request, several at once. For a
  settlement command it reads the projection from the JVM, checks what the user
  may do, stages evidence in Firestore if the command is a submission, and then
  calls the JVM. Nothing locks the cycle between the read and the call.
* **Spring JVM service** (`server/jvm-weekly-api`). Owns the settlement documents.
  Each command runs in one Firestore transaction (`WECS`), stores its answer under
  the idempotency key, and replays the answer when the key comes back.
* **Firestore.** The shared state: project, coordinator, requests, settlement
  status, monthly closes, close versions, cumulative head, weekly completions,
  evidence shards, leases, drafts, outbox, work queue, idempotency keys.
* **Workers** (`outbox-worker.mjs`, `work-queue-worker.mjs`, payroll and
  participation workers). Claim stored work and retry it.
* **MCP worker, scripts, rules** (`mcp-worker`, `scripts`, `firebase`). Read
  facades, one-off repairs, deployment.

### The components, their state, what makes them correct

| component | state | operations | what makes it correct |
|---|---|---|---|
| Cycle workflow (`CashflowSettlementCycleWorkflow.java`) | active cycle, active state, workflow revision | submit, finishReview, requestReopen, decideReopen, resubmit, cancelActive | one cycle under way; every step raises the revision |
| Settlement commands (STORE, WECS) | coordinator, request, MONTH period, ledger, close versions, cumulative head, weekly completions | submit, withdraw, reject, cancel, approve, request reopen, decide reopen; complete, confirm, approve and take back a week | the documents agree; closed ranges are gapless; a reopening restores what was there |
| Cycle projection and capabilities (`CashflowSettlementCyclePolicy.java`, STORE 514-1010) | none: reads the above | project, commandCapabilities | no reachable state is unreadable; what is offered is accepted |
| Settlement routes (BFF 5070-6160) | evidence shards, stages | prepare, stage, send; change the approver | evidence is immutable; the approver does not change under a waiting request |
| Cashflow sheet apply (`cashflow-sheet-lab.mjs`, `cashflow-apply-lease.mjs`) | staged months, APPLYING lease | stage, apply, take over | one apply at a time; a superseded apply publishes nothing |
| Edit leases and drafts (`edit-lease.mjs`, draft routes) | holder, session, fence, expiry; draft revisions | acquire, take over, extend, release, save | a save needs the present lease; fences only grow |
| Idempotent routes (`idempotency.mjs`, `bff-utils.mjs`, `write.mjs`) | key: pending, completed, failed; expiry; versions of the documents written | begin, complete, fail, clean up; create, replace | one effect per key and version |
| Outbox (`outbox.mjs`, `notifications.mjs`) | events: status, token, lease, attempts; deliveries, notifications | enqueue, claim, renew, done, fail, give up | nothing is lost; a stale worker marks nothing; everybody is told |
| Work queue (`work-queue.mjs`, `projections.mjs`) | jobs: status, attempts; views | enqueue, claim, rebuild a view, done, fail, give up | a view whose jobs are done is up to date |
| Participation roster push (`participation-roster-push.mjs`, `-worker.mjs`) | names in the linked sheets, push status | press the button, read, merge, write back, record | no name is lost from a sheet; what failed is reported |
| Audit chain (`audit-chain.mjs`) | last hash, entries | append | one unbroken chain per tenant |
| Project drafts (DRAFTS, `project-draft-history.mjs`) | a draft of each user: revision, content, attachments, base version and snapshot, history | open, save, merge, attach, restore, submit, withdraw | a merge loses nobody's change; files in use stay |
| Projects and reviews (PROJECTS, `project-review-version.mjs`) | project version and fields, change request, stored files | approve, reject, write, upload | an approval writes what was looked at, against what was proposed |
| Transactions (`state-policy.mjs`, `routes/transactions.mjs`) | state, version, submitter | create or replace, submit, approve, reject | a decision leaves from the state it finds |

### What is hard

* A command is prepared from one read and executed against whatever is stored
  later. Two tabs, two people, or a retried click overlap.
* One command writes up to seven documents, and six handlers do so in different
  combinations; a projection then demands that they all agree and takes away every
  command if they do not (`INCONSISTENT`).
* Cycles of a project overlap: closing month 6 closes the months before it, too,
  also those whose own cycle never was submitted, was rejected, or was withdrawn.
* Reopening restores the authority that was there before, from a version written
  when the range was closed.
* The approver is part of another document that other routes change.
* An event is worked off by whoever comes: the request that made it, a cron, a
  process of its own. Claims run out, attempts repeat what an earlier one did half,
  and a late worker comes back.
* A key expires while its first request still runs, and a retry of what was done
  before may be a first attempt for all the key knows.
* A proposal passes from a draft to a request and, when it is withdrawn, rejected or
  replaced, to the next draft, of whoever opens one. With it pass files that somebody
  else stored, and that whoever replaced them may be about to delete.

`PROJECT.json` lists each hazard at its line, with the properties aimed at it.

## 2. The modules

```
CycleWorkflow          pure functions of the domain class
   |  EXTENDS
SettlementCycle        documents, BFF prepare steps, JVM transactions
   |  EXTENDS                         CloseAuthority  (abstract)
SettlementProperties ----- INSTANCE ------'
   |  EXTENDS            \  EXTENDS
MCSettlementCycle         SettlementCycleProofs     types, the documents of a cycle
   (TLC)                     |  EXTENDS
                          SettlementAuthorityProofs the head, its versions, evidence
                             |  EXTENDS
                          SettlementCommandProofs   what is offered; the refinement
                             (TLAPS)

EditLease              lease, private drafts, guarded writes
   |  EXTENDS
EditLeaseProperties
   |  EXTENDS            \  EXTENDS
MCEditLease               EditLeaseProofs
   (TLC)                     (TLAPS)

SheetApply             staged runs, publication lock, JVM ledger
   |  EXTENDS
SheetApplyProperties
   |  EXTENDS            \  EXTENDS
MCSheetApply              SheetApplyProofs
   (TLC)                     (TLAPS)

Outbox                 events, claims, attempts
   |  EXTENDS          \  EXTENDS
RosterPush             Notifications
   |  EXTENDS          /  EXTENDS
MutationEvents         both over one outbox
   |  EXTENDS
MutationProperties
   |  EXTENDS            \  EXTENDS
MCMutationEvents          MutationProofs
   (TLC)                     (TLAPS)

IdempotencyKeys        WorkQueue
   |  EXTENDS          /  EXTENDS
VersionedWrites        three routes over keys, versions and jobs
   |  EXTENDS
WriteProperties
   |  EXTENDS            \  EXTENDS
MCVersionedWrites         WriteProofs
   (TLC)                     (TLAPS)

ProjectChanges         drafts, the change request, its decision, files
   |  EXTENDS
ProjectChangeProperties
   |  EXTENDS            \  EXTENDS
MCProjectChanges          ProjectChangeProofs
   (TLC)                     (TLAPS)
```

The models share no state but the transaction: `VersionedWrites` has the steps of the
routes that change it and the jobs they leave, `Notifications` has a change as one step
and the events it leaves. A settlement command is not made under an edit lease, and `SettlementCycle` knows of the cashflow only the revision of the sheet
(`sheet`). A sheet is applied without an edit lease (SHEET 4849 passes no session);
what keeps applies apart is the publication lock of `SheetApply`. `ProjectChanges` has
the lease of `EditLease` as one variable: who holds it, and that its end fences off what
was sent under it. The approver `SettlementCycle` knows of is one of the fields.

### `CycleWorkflow`

`CashflowSettlementCycleWorkflow.java`, function by function. `CanX` is the guard
(the code throws a `Violation` when it is false), `AfterX` the coordinator returned.
The class compares `activeRequestId`; a request id is the project id and the cycle
month, and the project is fixed, so the model compares the cycle.

### `SettlementCycle`

The state is one project's documents and the commands in flight:

| variable | document |
|---|---|
| `project` | approver and version of the project document |
| `coordinator` | `cashflow_month_close_requests/__active__-<project>` |
| `request[c]` | `cashflow_month_close_requests/<project>-<cycle>` |
| `month[c]` | `periods.MONTH` of the settlement status |
| `ledger[c]` | `monthly_closes/<project>-<cycle>` |
| `versions` | `monthly_close_versions`: created, never rewritten |
| `head` | `cashflow_cumulative_close_heads/<project>` |
| `weeks[m]` | `cashflow_weekly_update_completions/...` of month m: open, submitted or locked |
| `sheet` | the applied revision of the sheet |
| `shards` | evidence written by the BFF when it stages a submission |
| `inflight` | commands prepared and not known to be finished |

*Reading.* `HeadReadable`, `Proven`, `CoordinatorAgrees`, `ProjectionTable`,
`BusinessState` and `Allowed` are the projection the BFF reads before every command.
The policy's nested conditions appear as a table of rows, which is what they are.

*Preparing* (BFF). `PrepareSubmit` only reads; `StageSubmit` is the BFF's own
transaction, which writes the shards and fixes approver and project version; the
staged command is then sent. `PrepareTransition` (withdraw, reject),
`PrepareApprove`, `PrepareReopenRequest`, `PrepareReopenDecision` read and send.
`PrepareCancel` is the recovery endpoint, which an administrator calls on the JVM
directly. `Lose` is a caller that gave up.

*Executing* (JVM). `Submit`, `Transition`, `Cancel`, `Approve`, `RequestReopen`,
`ApproveReopen`, `RejectReopen` are one transaction each, with every guard in
`Accepts...`. An executed command stays in `inflight`, so that its body can be
executed again: a second click or a second tab sends the same body under another
idempotency key. (The same key would replay the stored answer and change nothing.)

*Around it.* `EditSheet` applies another revision of the sheet, `ChangeApprover`
is the approver route, `ApproveProjectChange` the approval of a project change
request. `AmendMonth` is a sheet applied over a closed month, of which only the number
in `monthly_closes` matters here.

*Weeks.* `CompleteWeek`, `ConfirmWeek`, `ApproveWeek` and `ReopenWeek` are the four
commands on a week: a member completes it, the approver confirms it or approves it from
the list of settlements, and it is taken back, a submitted one by any writer, a confirmed
one by those who decide about reopenings. All but `ApproveWeek` need a month that may be
written. `ApproveReopen` opens the settled weeks of the range it gives up.

What was abstracted, and why it is safe:

* Months are naturals, cycle c settles month c - 1, and a year has `MonthsPerYear`
  months (12 in the code, 3 in the runs).
* The hash of staged evidence is a function of cycle, evidence revision and sheet
  revision, and the model uses that triple (`Manifest`).
* Business-day checks, eligibility of the sheet, and the closing calendar only
  narrow when a command may be prepared. Preparing is always optional in the
  model, so they are covered.
* Membership and roles: `Members` are the active writers of the project, `Admins`
  the administrators among them. Finance and tenant administrators, who may take back a
  confirmed week, count as administrators.
* One week stands for the weeks of a month, which follow the same rules. Its revision is
  left out: every command on a week but `ApproveWeek` compares it, and all of them raise
  it, so that reading a week and executing a command on it are one step.
* One apply over several closed months is several `AmendMonth` steps. It is apart from
  `EditSheet`, since the JVM's write and the BFF's completion are two transactions.
* Left out: the MONTH period's own revision, reopen and warning counters, reasons,
  audits, notifications, cycles before 2026-09 (read-only), heads written before
  the settlement-cycle contract, and the legacy month close.
* `MaxWorkflowRevision`, `MaxProjectVersion`, `MaxInFlight` and `MaxAmendedRevision`
  (the number up to which a ledger may be amended) bound the checked instances. The proofs hold for all their values.

There is no fairness and no liveness here: every step is a person's decision, and
no scheduler in the code makes one happen. What replaces it is `NeverStuck`, which
says that a way out always exists.

### `CloseAuthority`

What settlement promises: a stack of month ranges without gaps, and at most one
cycle under way. Closing pushes the range up to the cycle's month, reopening pops
the last range and nothing else. `SettlementCycle` implements it under the mapping
in `SettlementProperties` (`head.ranges` to `closed`, the coordinator to
`underway`).

### `SettlementProperties`

| property | what could go wrong |
|---|---|
| `TypeOK` | a handler writes a value its readers do not know |
| `DocumentsAgree` | a handler forgets one of the four documents of a cycle |
| `HeadIsCanonical` | a month is in two ranges or in none; horizon and ranges differ |
| `AuthorityAgrees` | a cycle counts as approved and no range was closed by it, or the other way round |
| `EvidenceIsStaged` | a request or a range rests on evidence that was written over or never written |
| `VersionsRestore` | a reopening restores the wrong ranges |
| `OfferedIsAccepted` | capabilities and handlers drift apart |
| `NeverStuck` | a cycle under way blocks the project for good |
| `InconsistentIsExplained` | a cycle becomes unreadable for a reason nobody knows |
| `WeeksOpenWithTheRange` | weeks stay settled in a month that lost its range, are opened with a range that was not theirs, or are taken back under a lock |
| `StaleIsRefused` | a command takes effect on a state its sender did not see |
| `ImplementsAuthority` | any of the above, as seen from outside |

`InconsistentIsExplained` is where most was learnt. Three kinds of states are
`INCONSISTENT` in the code although nothing was corrupted, and the property names
them: request and ledger carry different numbers (`Misnumbered`), since an approval
came late (a finding below) or the month that bears the cycle's name was amended; an earlier cycle is under way while a later one is finished
(`Overshadowed`, it goes away when the earlier one ends); and the cycle's month
lies before the first closed range (`BeforeFirstRange`).

### `EditLease`

`edit-lease.mjs`, `cashflow-edit-drafts.mjs` and the two places where the JVM checks
and ends a lease (STORE 329 and 5117), for one project's cashflow.

| variable | in the code |
|---|---|
| `lease` | `editLeases/<cashflow, project>`: state, holder's session, lease id, fence, expiry, release reason, last expired fence |
| `grants` | nothing: lease ids are random in the code and numbered here, so that they are fresh |
| `draft[a]` | `privateEditDrafts/...` of one user. `generation` tells the drafts apart that follow one another in the same document; the code has no such field |
| `token[s]` | the ownership a tab has been told of |
| `opened[s]` | what a tab was answered when it opened its draft, and under which lease |
| `sent` | requests under way |
| `alive` | tabs not yet closed |
| `record` | history for the properties: the fence of the last write, how often each lease was said to have ended, the draft the last save came from, the draft the last final save saw |

*Time.* `lease.remaining` is the expiry less true time, and `Tick` makes time pass.
Every check takes place on a server whose clock is off by up to `Skew` ticks (`o`):
it finds `remaining - o` ticks left, and writes an expiry of `TTL + o`. BFF and JVM
run on different machines, and the JVM judges an expiry the BFF wrote.

*Actions.* `AnswerOwner`, `Acquire`, `TakeOver`, `Extend`, `Release` are the branches
of `runCommand` that succeed; those that fail change nothing but `ObserveExpiry`,
which status, extend and release do before they refuse. `Open`, `Save` and `Complete`
are the three draft routes, `Write` and `FinalWrite` a canonical write of the JVM
without and with `x-edit-finalize`. `Send` puts a request on its way; it stays in
`sent` after it was executed and so may come twice or much later; `Lose` drops it.
An answer may be lost (`Answer`). `Close` is a tab that goes away, which releases
nothing (`useEditLease.ts` 324).

What was abstracted, and why it is safe:

* A tab that shows an outdated token is a tab whose request comes late, so answers
  of lease commands are heard at once or never. Replays of stored answers change
  nothing and are left out; a repeated save under another key is in the model.
* A tab that believes its lease has expired only stops sending.
* Access checks, months that are closed, and draft sizes only refuse more.
* The payload of a draft is told apart by its generation and revision.
* Tabs send extensions without delay. One that is still under way when its tab
  closes prolongs the lease once.

`FairSpec` assumes nothing but that time passes (`WF_vars(Tick)`): the release of an
abandoned lease needs neither its holder nor another user.

| property | what could go wrong |
|---|---|
| `TypeOK` | a document gets a value its readers do not know |
| `WritersAdvance` | a request of an earlier holder takes effect after a later holder has written; `FencesRise`, which is proved, says why not |
| `EndsAreRecorded` | an expiry nobody watched is never written down, or twice |
| `SavesStayInTheirDraft` | a late save of a submitted draft overwrites the next draft, which has the same revision |
| `SubmittedMeansSaved` | a draft is closed as submitted with changes no final save has seen |
| `AbandonedLeaseIsFreed` | a closed tab keeps everybody out |

### `SheetApply`

`cashflow-sheet-lab.mjs` with `cashflow-apply-lease.mjs`, and the JVM commands it
calls (STORE 5302-5632), for one project.

| variable | in the code |
|---|---|
| `run[r]` | `cashflow_sheet_stage_runs/<run>`: status, the reviewed sheet (`source`), the months and year total it was compared with (`base`, `yearBase`), whether it replaces every source (`oneWay`), the key it is applied under, and a checkpoint per operation (`done`) |
| `publication` | `cashflow_sheet_publications/<project>`: the lock, its run, the time since `applyStartedAt` |
| `mirror` | `cashflow_sheet_mirrors/<project>`: the sheet and the months at the last fetch |
| `ledger` | the JVM's months and year total, and the keys of the commands it has executed |
| `call[c]` | a request and the function that serves it: how far it is, what it has sent, what it knows of the operations, its age. `alone` is history |
| `record` | how many edits and forced releases there were |

*A request* starts by reading the run (`Start`), takes the lock (`Reserve`) or joins
an apply under way (`Join`), and then has the JVM write the months and the year
total. For each it asks first whether that was done before (`Reconcile`), sends the
command (`Send`), and writes a checkpoint (`Checkpoint`). It reads the months back
(`ReadBack`) and publishes (`Publish`). A failure puts the run back if nothing was
done (`Restore`); when nobody can say what the JVM did (`Uncertain`) the lock is left
to expire. What `Send` puts on its way is executed, replayed or refused (`Write`,
`Replay`, `Refuse`) while its function lives, or up to `Flight` ticks after it was
killed.

*Around it.* `Refresh` and `Stage` fetch a sheet and review it, `Edit` is another
writer of the months. `ReleaseExpired` is the status route, which releases an expired
lock; `ForceRelease` the administrator's route. `Crash`, `Kill` and `Tick` are the
platform (300 s a function, `vercel.json` 14; 600 s a lock).

What was abstracted, and why it is safe:

* All months of a project are one value, and a revision is the hash of it. The
  code sends one command for all months, and as many for year totals as there are
  years; the model has one.
* Requests for a run carry equal bodies: the request hash refuses all others.
* Only the last transaction of staging is modelled, and fetching and installing a
  sheet is one step. A stage that is not READY cannot be applied.
* All functions have one clock. A lock without a start time and a lease of length
  zero (both read as expired or never expiring) do not come up in new documents.
* A request that is about to reserve releases an expired lock first. In the model
  `ReleaseExpired` does that, and `MayReserve` waits for it.
* A refused request just ends. An acknowledged run without changes takes no lock.

`FairSpec` assumes that time passes, that the platform kills a function at the end
of its life, and that somebody asks for the status again (the page does so while it
shows a run under way).

| property | what could go wrong |
|---|---|
| `TypeOK` | a document gets a value its readers do not know |
| `LockAgrees` | a run is under way and nobody holds the lock, or the lock names a run that is not: the status route can then no longer answer |
| `PublishedWasWritten` | a run is published although one of its operations was skipped, after joins, crashes, replays and read-backs |
| `YearWrittenOnce` | a run applied again under another key adds its year total again |
| `WritesUnderLock` | a command is executed after the lock of its apply is gone, and beside the next apply |
| `LockIsFreed` | a lock outlives its functions, or is prolonged by joins for ever |

### `Outbox`, `Notifications`, `RosterPush`, `MutationEvents`

`outbox.mjs`, `notifications.mjs`, `participation-roster-push.mjs` and
`participation-roster-worker.mjs`. `Outbox` is what all events have in common,
`Notifications` and `RosterPush` are the two kinds of event (with what makes them and
what handling them does), and `MutationEvents` puts both over one outbox.

| variable | in the code |
|---|---|
| `outbox` | `outbox/<event>`: type, status, attempts, claim token, time left of the claim, delay of the next attempt; `delivered` is `outbox_deliveries/<event>`. `handled` is history |
| `worker[w]` | a run of `processOutboxBatch` or of `processOutboxEventById`: its event, its token, whether its heartbeat still beats. `lapsed` is history |
| `transaction`, `notifications` | `transactions/<id>`: state and submitter; `notifications/<event and recipient>` |
| `people`, `sheet`, `status` | nicknames of `persons`, of the one linked sheet, and how the last push went |
| `push[w]`, `stray` | how far a push has come and the names it holds; writes given up after 30 seconds that may still arrive |
| `faults`, `seen` | bound and history |

*Actions.* `ClaimInBatch`, `ClaimInline`, `Heartbeat`, `Mark` are the transactions of
`outbox.mjs`. `ChangeState` and `PressPush` enqueue. `ReadPeople`, `ReadRows`,
`WriteRows` and `EndPush` are the calls of the push, `Refuse`, `SheetFails` and
`PushThrows` the ways it ends badly; `Notify` and `NotifyFails` are the default handler.
`Tick` is a lease running down, `RosterCrash` the death of a process.

What was abstracted, and why it is safe:

* A token is the number of the attempt: the code makes a random one, and no two claims
  of an event have the same number.
* A tick is longer than every delay between attempts (300 s at most) and than a
  heartbeat; the lease (5 minutes) is `Lease` ticks. A worker that renews in time never
  loses its claim; `lapsed` marks those that did not.
* The limits of a batch are left out: a batch takes any event that is due.
* `Equipped` are the processes that have the roster's handler. `outbox-worker.mjs`
  starts with that for draft files only; a roster event it claims fails there, and
  may be given up for it.
* The rows of a sheet are a set of names. Names that are equal but for case, and the
  ten placeholder rows, do not come up.
* One linked sheet. The push goes through linked sheets one by one and records each.

`FairSpec` assumes that time passes, that whoever works goes on or throws (calls to
Google are given up after 30 s, those to Firestore by their client), and that a
batch comes again (`vercel.json` crons). Faults are finite (`MaxFaults`).

| property | what could go wrong |
|---|---|
| `TypeOK` | a document gets a value its readers do not know |
| `ClaimsEndByExpiry` | two processes handle an event although the claim was renewed in time |
| `DoneMeansDelivered` | an attempt that failed half way leaves something out that no later one makes up for |
| `FinishedStaysFinished` | a late worker brings an event back, or ends it a second time, otherwise |
| `EventsEnd` | an event whose worker died is never handled again |
| `LonePushesKeepNames` | a push drops a name the sheet has |
| `MissingIsReported` | names are missing and nobody is told |

### `IdempotencyKeys`, `WorkQueue`, `VersionedWrites`

`idempotency.mjs` with the frame of the routes (`bff-utils.mjs`), `work-queue.mjs` with
`projections.mjs`, and three routes: `POST /api/v1/write`, `POST /api/v1/transactions`
and `PATCH /api/v1/transactions/:id/state`.

| variable | in the code |
|---|---|
| `key[k]` | `idempotency_keys/<key>`: status and time to expiry. `overrun` is history |
| `document` | the transaction: version and state |
| `request[r]` | a call under way: its key, its step, and the version it has read |
| `jobs`, `runner[w]` | `work_queue/<event and view>`; who works off which job, and what it has read |
| `views[v]` | `views/<view>`: the version it shows. `overtaken` is history |
| `intent`, `budget` | what the client of each key wants; bounds |
| `history` | who wrote each version |

*Actions.* A call begins its key (`Arrive`), executes (`Upsert`; `ReadState` and
`PatchState`), appends to the audit chain (`Audit`), works off its own jobs (`ClaimOwn`,
`Work`, `QueueWorkedOff`) and completes or fails the key (`End`). `Refuse` stands for
every refusal and every failure, after the commit too. `ClaimDue` is the cron, `CleanUp`
the deletion of expired keys, `Die` the death of a process.

What was abstracted, and why it is safe:

* A client sends the same body under its key (another body is refused).
* A view is the version it was made of. All views of a transaction are one.
* The scan of the queue reads 100 documents at least; an instance has fewer.

| property | what could go wrong |
|---|---|
| `TypeOK` | a document gets a value its readers do not know |
| `AppliedOnce` | a retry, after a lost answer or an expired key, takes effect again |
| `RunsAloneUnlessLate` | two requests of one key run at a time while the key is pending |
| `TransitionsFromPresentState` | a decision is written over another one |
| `FreshUnlessOvertaken` | a view stays behind although its jobs are done |
| `JobsEnd` | a job is tried for ever or never |

### `ProjectChanges`

DRAFTS with `project-draft-history.mjs`, and the parts of PROJECTS that make a proposal
of a draft, decide about the request, and write the project past both.

| variable | in the code |
|---|---|
| `project` | `projects/<project>`: version and fields |
| `request` | `project_requests/change-<project>`, the one change request: status, who asked, the version it is based on (`base`), snapshots before and after |
| `draft[u]` | `privateEditDrafts/...` of one user: status, `snapshot` (`baseSnapshot`), and the saves of its generation, `draftRevision` being how many. The last one is the draft, the others are its `history` |
| `lease` | who may edit |
| `files`, `cleanups` | objects in storage and who stored them; cleanup events |
| `uploads[u]` | an attachment that is stored and not yet in the draft |
| `review` | the page the approver looks at and its token |
| `recalled`, `seen`, `unasked` | history for the properties |

*Drafts.* `Open` starts from the project, or from the proposal of a request that is
pending or rejected (`Seed`), with its attachment (`InheritedAttachment`). `Update`,
`Upload` with `Attach` or `AttachFails`, and `RemoveAttachment` save; `Rebase` merges
with what a draft opened now would start from, asking about conflicts; `RestoreHistory`
saves an earlier content again. `Submit` replaces the request, ends the lease and keeps
the content in the history only; `Withdraw` turns the request back into a draft.

*Decisions.* `Look` loads the page. `InspectFiles` is the check of the files before the
transaction of an approval, `Approve` that transaction; `Reject` needs no files.

*Around it.* `WriteProject` is `POST /projects`, `UploadCheckout` the upload of a
checkout document; both write the project past request and drafts. `CleanUp` deletes
the file a draft let go.

What was abstracted, and why it is safe:

* One ordinary field and one document. Fields are merged and approved one by one, and
  an instance is about either (`Scenarios`); `Update` is one field at a time.
* A user has one session. The lease keeps sessions apart (`EditLease`).
* Validations of what is submitted only refuse more, but for those of files
  (`Trusted`, the inspections), which are in the model.
* Proposals that change nothing may be submitted. `Rebase` and `RestoreHistory` that
  would save what is there already are left out.
* A request has a number instead of a digest: what the token is a digest of changes
  with the version, the number or the status.

| property | what could go wrong |
|---|---|
| `TypeOK` | a document gets a value its readers do not know |
| `FilesStay` | a draft deletes a file that the project shows, or a request carries, or another draft inherited from one |
| `ApprovalsAreInformed` | an approval writes something else than the page showed, or puts a field back that somebody changed in between and the author never saw |

`ApprovalsAreInformed` keeps, for each field, the values its author had before them
(`seen`), and excepts the fields the code takes over without asking (`unasked`): the
divergence *A proposal that was taken over* in section 4. Without the exception TLC
needs seven steps to refute it. One of the cases, `hidden` in `Rebase`, takes three
values of one field, one more than the run has: the proof of the property asked for it,
and an instance with three values and without `hidden` refutes the property.

### Mutants

Operators marked *Mutant* in the modules are plausible bugs. They are used by no
definition; each property is known to fail when one of them takes the place of the
definition it stands for.

## 3. The runs

The settlement runs extend `MCSettlementCycle` and use years of three months and ranges of at most
three, so that a year boundary, a range across it, and a range that is too long fit
into a handful of months. Deadlock is not checked: the bounds end every behaviour.

| run | instance | shows |
|---|---|---|
| `lifecycle` | cycles 2 and 3, two commands in flight, workflow revision up to 8 | all document properties, `StaleIsRefused`, the refinement. Eight commands suffice for closing two ranges and reopening one, and for a complete close, reopen, resubmit, close again with a stale command at every point |
| `years` | cycles 2, 5, 6, weeks of months 1 and 4, workflow revision up to 6 | `OfferedIsAccepted`, `WeeksOpenWithTheRange`. Months 2 to 4 are the longest range allowed and cross the year; month 5 is too far from 1. Six commands close two ranges and reopen the last. Month 1 is covered but no longer locked once month 4, of the next year, is closed: its weeks can be taken back while month 4's cannot |
| `one_cycle` | one cycle, two sheet revisions, two members, one administrator, approver replaced, two commands in flight | `EvidenceIsStaged`, `NeverStuck` |
| `reopen_twice` | violation of `HorizonCanBeReopened` | finding 1 |
| `stale_approval` | violation of `ApprovalUsesPresentRevision` | finding 2 |

The lease runs extend `MCEditLease`. Leases live one tick and clocks differ by one,
so a lease can be over for one server and active for another. Two grants suffice:
every property relates a lease to the one before it, and a takeover, an expiry and
a release each lead from the first to the second. Two requests under way are a late
one and the one that overtakes it.

| run | instance | shows |
|---|---|---|
| `edit_lease` | two tabs of one user (interchangeable) and one of another | all safety properties of the lease |
| `edit_lease_expiry` | a tab of each of two users, one request under way, `FairSpec` | `AbandonedLeaseIsFreed` |

The sheet runs extend `MCSheetApply`. Two requests are what is needed for one that
works and one that joins, follows or overtakes it; a request that has ended may be
followed by another, so any number come one after the other. A function lives one
tick and the lock as many as the assumption `Life + Flight < Lease` asks for at
least. Deadlock is checked. `Tick` stops the age of a lock at `Lease + Life`, where
it has expired for every function.

| run | instance | shows |
|---|---|---|
| `sheet_apply` | two one-way runs, one key, `FairSpec` | `TypeOK`, `LockAgrees`, `LockIsFreed` when runs compete |
| `sheet_apply_keys` | one run in both modes, two keys, late arrivals (`Flight` 1), an edit, a forced release | `PublishedWasWritten`, `YearWrittenOnce`, `WritesUnderLock` when a run is retried |

The run `events` extends `MCMutationEvents`. One event is enough: two claims of one
event overlap once the first has run out, and the properties are about one event each,
or about pushes that do not meet. A transaction may start as submitted, so the event
may be of either kind. Two attempts, so that one that failed is followed by one that
gives up; a lease of two ticks, so that it can be renewed before it runs out; one fault,
so that an event can be claimed twice (TypeOK has the number of attempts this allows).
Deadlock is checked.

| run | instance | shows |
|---|---|---|
| `events` | two workers, one with the roster's handler, two nicknames, one user, `FairSpec` | all properties of the outbox and of what its events stand for |

The run `writes` extends `MCVersionedWrites`. Its initial states are two small
instances rather than one large one (`MCScenarios`): two writes whose jobs meet the
cron, and a create with two decisions about it, one of them repeated. A key lives one
tick, so that it can expire under a request.

| run | instance | shows |
|---|---|---|
| `writes` | three keys, two calls at a time, a cron, one death, two versions, `FairSpec` | all properties of keys, versions and jobs |

The run `project_changes` extends `MCProjectChanges`. One user saves four times in a
generation, so that a change, a merge and a return to an earlier save fit in, the other
twice: a draft and its submission. Three versions are two writes of others, or one and
an approval; two submissions are one and the one that replaces it. Two files are what is
needed for a document and its replacement; they are interchangeable. Deadlock is not
checked: the bounds end every behaviour. No fairness is assumed, every step being a
person's.

| run | instance | shows |
|---|---|---|
| `project_changes` | two users, a field with two values or a document with two files | all properties of drafts, requests and files |

## 4. Findings

1. **A second reopening is impossible.** A reopening restores the earlier authority
   under a raised head revision (STORE 5097). The next reopening demands that the
   head still carries the revision stored in the version that closed its last
   range (STORE 4418). After one reopening that is never so: the capability
   `REQUEST_REOPEN` is offered and the command refused. The QA document of the
   close authority says that one goes back month by month
   (`docs/architecture/contracts/2026-08-18-cashflow-close-authority-live-qa.md:161`).
2. **A late approval spoils its cycle.** Approval compares no revision and records
   the approver's `expectedRevision + 1` as the request's `ledgerRevision` (STORE
   3483), where the transaction wrote another one. The cycle then reads as
   `INCONSISTENT` and nobody can reopen it. The plan of that change says the present
   revision is to be used
   (`docs/architecture/contracts/2026-10-15-cashflow-approval-state-only-plan.md:32`).
More divergences are in the models and have no run of their own:

* **The approver's lock has a second door.** The approver route refuses while a
  cycle is under way (BFF 6116); approving a project change request writes the
  approver without looking (`server/bff/routes/projects.mjs` 4187, 2159).
* **Amending a closed month spoils another cycle.** A sheet applied over a closed month
  raises the number in `monthly_closes` of that month (STORE 2738). These documents are
  keyed by the month of the *cycle*, and "read as the month of the data" they go wrong,
  says `CashflowMonthLock.java:9`: the document belongs to the cycle that closed the month
  before. If that cycle is closed, too, its ledger and its request no longer carry the
  same number, it reads as `INCONSISTENT` and offers no command. The model has the step
  (`AmendMonth`), and `InconsistentIsExplained` the exception (`Misnumbered`).
* **A joined apply outlives its lock.** The lease is twice the lifetime of a
  function, "so that at its expiry the function that took the lock has already been
  killed" (`cashflow-apply-lease.mjs:6`). A request that joins keeps the first start
  time (SHEET 2295), so one that joins late still works when the lock expires, and
  another run may be applied beside it. This is why `WritesUnderLock` speaks only of
  an apply nobody joined.
* **A reopened first close still blocks its cycle month.** With no range left the
  guard of cashflow writes falls back to `monthly_closes` (STORE 2574), which
  `CashflowMonthLock.java:8` says it never does. The sheet apply has an exemption
  (STORE 5323); completing a week has none.
* **A final save leaves its draft behind.** The design of the private drafts says
  that after the final submission only metadata remains of a draft
  (`docs/superpowers/specs/2026-07-10-bff-private-draft-leases-design.md:114`). The
  cashflow's final save releases the lease in the JVM (STORE 5138) and leaves the
  draft active, payload included. Completing it is another request
  (`cashflow-edit-drafts.mjs` 546), which no code of the frontend sends and which is
  refused for good once the next lease is granted (line 384). The next `open` hands
  the saved payload out as work not yet saved.
* **A one-way apply does not look at the months.** With `replaceAllActualSources`
  the JVM skips the comparison of the months' revision (STORE 5383); the sheet page
  always sends it (`CashflowProjectSheet.tsx` 2310, 2464). SHEET 3110 says that the
  JVM checks the revision atomically. An edit made after the review is overwritten.
* **Two pushes lose names.** The contract of the roster push calls it harmless when
  run twice because it is idempotent, and append-only
  (`docs/architecture/contracts/2026-08-25-participation-roster-push-contract.md:35`).
  Rows are read, merged and written back without a condition
  (`participation-roster-push.mjs` 201-224): of two pushes that meet, or of one and a
  write that was given up and arrives later, the last one wins with what it had read.
  `LonePushesKeepNames` has the exception. The contract also says that saving a person
  pushes the roster (lines 28-29); nothing but the button enqueues an event.
* **`outbox-worker.mjs` gives up what it cannot handle.** It starts with the handler of
  draft files only. A roster event it claims first fails there, and may end `DEAD`
  without having been pushed.
* **A decision is told to the wrong person.** The payload of a state change names no
  actor, so nobody is left out of the recipients, and a decision goes to whoever is the
  submitter when the event is handled, not when it was made (`notifications.mjs`).
* **Upserts set any state.** The guideline says that only the listed transitions exist
  (`guidelines/Data-Stability-Implemented.md:22`); they are checked by `PATCH .../state`
  only, `POST /write` and `POST /transactions` store the state they are sent
  (`routes/transactions.mjs:230`). `TransitionsFromPresentState` speaks of `PATCH`.
* **A request that was applied may be answered with a failure.** A call that fails after
  its commit marks its key as failed, and its retry is refused with a version conflict;
  a failure that comes late even replaces the `completed` of another request. The effect
  is still made once (`AppliedOnce`), which the roadmap calls exactly-once
  (`guidelines/Platform-Foundation-Roadmap.md:36`).
* **A job whose runner died is never reclaimed** (`work-queue.mjs:71`), and `PATCH`
  leaves no jobs at all. `JobsEnd` and `FreshUnlessOvertaken` have the exceptions.

* **A proposal that was taken over is not compared.** The design says that a project
  which changes while it is edited refuses the submission, and one starts again from the
  latest content
  (`docs/superpowers/specs/2026-09-07-project-change-request-synchronous-submit-design.md:120`).
  The version a draft is based on does that for its own edits. But a draft opened while
  a request is pending or rejected starts from that request's proposal and counts as
  based on the present version (DRAFTS 766), so does a request that is withdrawn, "rebased
  onto the unchanged project" (DRAFTS 938) whether it is unchanged or not, and content
  brought back from history keeps the base of the draft it replaces (DRAFTS 1126). What
  others wrote since the proposal was made is then undone by the next approval: a
  checkout document uploaded in between becomes null again. A merge, too, compares with
  the proposal of the open request and not with the project (DRAFTS 1015). Where that
  request puts back the value the draft started from, the merge sees nothing that moved,
  asks nothing, and counts the draft as based on the present version: what the project
  holds meanwhile, a third value, is replaced unseen. `unasked` marks all these fields.
* **An attachment survives a merge.** The comment of the merge says that what both sides
  moved is reported as a conflict (DRAFTS 315). An attachment is kept outside the fields
  that are merged and comes before the document in them (PROJECTS 2303), so a document
  that was replaced meanwhile is replaced again without a question, even when the owner
  chose theirs.
* **A file may vanish after a return to history.** Replacing an attachment leaves an event
  that deletes the old file. A return to a save that had it checks that the file is there
  (DRAFTS 1111), and the event comes later. `FilesStay` has the exception (`recalled`).
* **A request that is behind can be neither approved nor rejected.** A rejection demands
  the version of the request, too (PROJECTS 422). And a submission replaces the pending
  request of somebody else, who can no longer withdraw it (DRAFTS 926).

## 5. The proofs

`SettlementCycleProofs`, for all cycles, members, sheet revisions and bounds, from
the assumptions named in `SettlementCycle` (cycles are positive naturals,
administrators are members, a year has at least one month and a range may span a
year).

* `TypeCorrect`: `TypeOK` is inductive.
* `DocumentsAlwaysAgree`: `TypeOK /\ DocumentsAgree` is inductive. A handler
  rewrites the documents of one cycle; `Moves` says that it is the one under way,
  if any is, and that the revision grows by one; `Fits` says that what it writes
  for it agrees. Each handler is shown to be of this form (`SubmitMoves`,
  `FinishMoves`, `ReopenMoves`), and the form preserves agreement
  (`MovedDocumentsAgree`). An amended month changes the number of a ledger (`Amended`),
  which the property leaves to `Misnumbered`, as the projection reads it.
* `StaleAlwaysRefused`: a command that is not an approval is accepted only at the
  coordinator's revision, and by `Moves` every executed command raises it.

`SettlementAuthorityProofs` builds on that, from the same assumptions:

* `HeadAlwaysCanonical`: soundness (ranges follow one another without gaps, the head names
  the last of them) is stated of a record and not of the head, for the inductive invariant
  is `HeadSound`: the head *and* the prior head of every version are sound. An approval
  stores the head it found as a version's prior (`ApprovePushes`), a reopening makes a
  prior the head (`ReopenPops`).
* `VersionsAlwaysRestore`: with `HeadSound`, `VersionsRestore` is inductive.
* `AuthorityAlwaysAgrees`: that a cycle is closed exactly while it has a range (`IsClosed`,
  `HasRange`), and that range, request and ledger name the same evidence (`Told`), is
  preserved command by command. Ranges increase strictly, so what is written for one cycle
  concerns no range of another.
* `EvidenceAlwaysStaged`: inductive with `HeadSound` and `VersionsRestore`; a range takes
  over the evidence of the request it closes, and a reopening brings none back.
* `WeeksAlwaysOpenWithTheRange`: only a reopening takes ranges from the head, and the
  version it restores from covers what the last range did (`VersionCoversLastRange`). A
  command on a week sets one week and leaves the head alone (`WeekStepSets`), and takes a
  week back only in a month the head does not lock.

`SettlementCommandProofs`, about the commands that may come next:

* `NeverAnywhereStuck`: by `Reopenable`, a reopening that was asked for is about the last
  range, has its version, and carries the ledger's number.
* `OfferedAlwaysAccepted`: the projection decides by the documents of the cycle, the
  handler by the head and its versions; the invariants above make the two agree.
* `InconsistentAlwaysExplained`: a cycle under review or reopened is not closed by another
  one (`Uncovered`), since a submission prepared at the present revision was prepared for a
  month that is not closed (`Prepared`, using that whatever moves the head raises the
  revision). So one row of the projection's table always fits the documents (`RowFits`).
  What else the screen compares, that requests at rest are older than the coordinator
  (`Outdated`), that every range has its version (`Backed`) and that the coordinator names
  a cycle if anything is under way (`Definite`), holds but for the three known reasons.
* `AuthorityIsImplemented`: the refinement of `CloseAuthority`. `Closed` maps the ranges to
  its stack, `Underway` the coordinator to its one cycle under way. Each of the six
  handlers is one of its steps (`BeginStep`, `AbandonStep`, `CloseStep`, `AskStep`,
  `RefuseStep`, `ReleaseStep`), everything else a stutter.

`EditLeaseProofs`, for any number of users, tabs, leases and requests, any lifetime
and any clock skew. The invariants are proved one upon the other:

* `LeaseTypeCorrect`: `TypeOK` is inductive.
* `FencesAlwaysRise`, `WritesAlwaysAdvance`: by `IdsKnown`, every token, also the
  empty one, is that of the present lease or carries a lower fence (`Known`). A
  grant outdates every token but the one it hands out (`GrantKnown`). Expiry is
  nowhere used: what fences off late writes is the fence, and the clocks may say
  what they like.
* `EndsAlwaysRecorded`: with `LastKnown`, an active lease has not expired before, so
  whoever finds it over writes that down, and nobody does so again.
* `SavesAlwaysStay`: by `DraftsHeld`, the draft a tab opened under the present lease
  is still the active one as long as the lease is. Only `Complete` ends a draft, and
  only when the lease is released; the next lease has an id no reading carries.
* `SubmittedAlwaysSaved`: by `FinalsKnown`, a lease released by a final save leaves
  an active draft exactly as that save saw it.

`SheetApplyProofs`, for any number of runs, requests and keys, any contents and
bounds, from `Life + Flight < Lease`: what a function sends arrives within the lease.

* `SheetTypeCorrect`, `LockAlwaysAgrees` and `PublishedAlwaysWritten` rest on one
  inductive invariant, `Sane`. Its parts: what a request believes done is done
  (`CallsSound`), a checkpoint is true (`RunsSound`), and lock and runs agree
  (`LockSound`).
* `YearAlwaysWrittenOnce`: by `YearSound`, once a run that is not one-way has written
  its year total, the revision it was compared with is gone for good, so that the JVM
  refuses the command under every other key.
* `WritesAlwaysUnderLock`: by `Alone`, a request that is at work and undisturbed
  holds the lock, and the lock is as old as the request. As long as what it sends may
  arrive, that is at most `Life + Flight`, so the lock has not expired. A step of
  another request either leaves this as it is or disturbs it (`StepAlone`, `CalmStep`).

`WriteProofs`, for any number of keys, calls, runners and versions, from the assumptions
of `IdempotencyKeys`, `WorkQueue` and `VersionedWrites` on their bounds.

* `WriteTypeCorrect`: `TypeOK` is inductive.
* `AlwaysAppliedOnce`: by `Provenance`, each version was written by a client that
  expected the one before, and no client expects two. Neither keys nor their expiry are
  used: the version alone makes a repetition harmless.
* `TransitionsAlwaysFromPresent`: by `ReadsHold`, what a call has read is the document as
  long as the version is the one it read, and the update demands that version.
* `AlwaysAloneUnlessLate`: by `KeysHeld`, the key of a call that runs in time is pending,
  and nobody but that call ends it.
* `AlwaysFreshUnlessOvertaken`: by `Fresh`, whoever rebuilds a view undisturbed has read
  at least what it shows, and a view that is behind has a job that is not done, or one
  that was given up or left.

`MutationProofs`, for any number of workers, events, people and names, any lifetime of a
claim and any number of attempts, from the assumptions of `Outbox`, `Notifications` and
`RosterPush`. A step of the three modules moves the outbox in one of five ways or not at
all (`NextMoves`): a worker takes an event, works on it, lets it go, time passes, or an
event is added. What is proved of claims and attempts is proved for these ways and not
for the twenty actions.

* `TypesAreKept`: the bound on attempts is the point. By `Bounded`, attempts go past
  `MaxAttempts` by at most one for each fault, since only a worker that died leaves an
  event `PROCESSING` that nobody works on.
* `ClaimsAlwaysEndByExpiry`: by `Claims`, the token of every worker is one the event has
  had (`Dated`), no two workers of an event have the same (`Apart`), and the event carries
  the latest (`Latest`): nobody's token can take a claim that another one holds (`Held`).
* `DoneAlwaysMeansDelivered`: by `Deliveries`, a worker that is about to mark an event as
  done works on one that has everything; what an event has got, it keeps (`Keeps`), also
  when another worker handles it again.
* `FinishedAlwaysStays`: from `Keeps`, too; a mark demands the claim, and what is
  finished has none.
* `MissingAlwaysReported` and `LonePushesAlwaysKeepNames`: by `Alone`, as long as no two
  pushes have met, the rows a push has read are at least those of the sheet (`RowsCover`),
  no write that was given up is ahead of a push (`NoneIsAhead`), and the people it has
  read include whoever was there when its button was pressed (`NamesCover`).

`ProjectChangeProofs`, for any number of users, fields, values, files and bounds, from
`ProjectAssumption`. Each step of a draft is first reduced to what it saves
(`OpenTurns`, `RebaseTurns` and so on); the invariants are then about the saves.

* `DraftsKeepTheirTypes`: every save of every draft is typed, not only the last, since a
  return to an earlier save makes it the last.
* `ApprovalsAlwaysInformed`: by `Informed`, whatever is based on the present version of
  the project, a draft or the request, has seen what the project holds, field by field,
  unless it is marked as taken over. A write of the project raises its version, so that
  nothing is current any more; a merge makes a draft current again, and has to have seen
  what it is merged with. For that a draft must also have seen what the *next* merge will
  compare with, its snapshot (`Knows`). By `Reviewed`, a token that is still right was
  given for what the request proposes now.
* `FilesAlwaysStay`: by `Custody`, a file the project or an open request refers to is in
  storage and nobody is left who would delete it; a file that somebody uploads, has
  attached as his own, or has on the list of files to be deleted, was stored by him, is
  in one of these places only, and is neither referred to nor inherited. A submission
  moves it from the one kind to the other. Files taken back from history are excepted.

The theorems are about `Spec`, without fairness, and so hold of `FairSpec`, too. All
safety properties of the runs that pass are proved. Model-checked only are
`AbandonedLeaseIsFreed`, `LockIsFreed`, `EventsEnd` and `JobsEnd`: liveness under
fairness is out of the prover's reach.

## 6. What is left

In the order in which it should be done; the hazards without a property in
`PROJECT.json` name the module that is to cover them.

| module | state and actions | what to check | bounds | what to prove |
|---|---|---|---|---|
| `EditLeaseController` (`useEditLease.ts`) composed with `EditLease` | mode, ownership, one shared status request, delayed answers | editing is on only while an ownership was confirmed | one tab, three answers under way | none |
| registration drafts (`project-registration-drafts.mjs`) and the second review, joined to `ProjectChanges` | registration request, its withdrawal, management planning, `executive-review/resubmit` | a project is registered once; a withdrawn request stays withdrawn, which resubmitting does not look at (PROJECTS 4487) | one project | none |
| `HeadMigration`, `PeriodPolicy` | the same head under repair tools | the repairs keep `HeadIsCanonical` | two ranges | none |
| staging, joined to `SheetApply` | the reservation and preparation of a stage run, several year totals per run | a run that is READY was prepared by one function; year totals of different years are independent | two stages | none |
| `AuditChain` (`audit-chain.mjs`) | appended hashes | one unbroken chain | three entries | chain is unbroken |

No proof of a safety property is open. The modules planned above are to be written so
that they can be proved about, too.

Not modelled in the settlement part although its code is in the files named: the
first range of projects whose baseline is 2023-01, the operational eligibility and
deadline checks and the close validation of the sheet (they only refuse more), the
summary of a week in the settlement status, written beside its completion (readers
prefer the completion, STORE 2448) and also for a week that has none, the roles of
writers, and the warnings a sheet apply leaves on settled weeks (STORE 3030), which
change no status.
A submission whose evidence was already recorded is refused under a second
idempotency key (STORE 1137); the model may execute it again if all its other
guards hold, and so has more behaviours than the code.

-------------------------- MODULE SettlementCycle --------------------------
(***************************************************************************)
(* Month settlement of one project: the documents a cycle is made of, the  *)
(* commands the Node BFF prepares from a read of them, and the Firestore   *)
(* transactions in which the Spring JVM executes those commands.           *)
(*                                                                         *)
(* Months are naturals and cycle c settles the month before it, c - 1.     *)
(* The BFF reads, decides and only then sends: what it sends stays in      *)
(* inflight, where it can be overtaken, lost, or executed again under      *)
(* another idempotency key (two tabs, two people, a retried click).  The   *)
(* JVM executes a command in one transaction over the documents below.     *)
(***************************************************************************)
EXTENDS Integers, Sequences, FiniteSets, CycleWorkflow

CONSTANTS
    Cycles,            \* cycle months that can be settled
    Members,           \* active members who may write the project
    Admins,            \* members with the runtime role admin
    Sources,           \* revisions of the applied cashflow sheet
    TrackedMonths,     \* months whose weekly settlement is followed
    MonthsPerYear,     \* 12 in the code
    MaxAffectedMonths, \* 44 in the code (CASHFLOW_CUMULATIVE_REOPEN_MAX_AFFECTED_MONTHS)
    NoSource, NoMember,
    MaxWorkflowRevision, MaxProjectVersion, MaxInFlight,
    MaxAmendedRevision \* these four bound the checked instances

ASSUME CyclesAssumption == Cycles \subseteq Nat \ {0}
ASSUME PeopleAssumption == Admins \subseteq Members /\ NoMember \notin Members
ASSUME SourceAssumption == NoSource \notin Sources
ASSUME MonthsAssumption == TrackedMonths \subseteq Nat
ASSUME CalendarAssumption ==
    /\ MonthsPerYear \in Nat \ {0}
    /\ MaxAffectedMonths \in Nat
    /\ MaxAffectedMonths >= MonthsPerYear
ASSUME BoundsAssumption ==
    {MaxWorkflowRevision, MaxProjectVersion, MaxInFlight, MaxAmendedRevision} \subseteq Nat

VARIABLES
    project,      \* the project document's approver and version
    coordinator,  \* cashflow_month_close_requests/__active__-<project>
    request,      \* cashflow_month_close_requests/<project>-<cycle>
    month,        \* the MONTH period of the settlement status document
    ledger,       \* monthly_closes/<project>-<cycle>
    versions,     \* monthly_close_versions, created once and never rewritten
    head,         \* cashflow_cumulative_close_heads/<project>
    weeks,        \* weekly update completion of each tracked month
    sheet,        \* revision of the sheet that is applied
    shards,       \* evidence written by the BFF's staging transaction
    inflight      \* commands prepared and not known to be finished

vars == <<project, coordinator, request, month, ledger, versions, head, weeks,
          sheet, shards, inflight>>

-----------------------------------------------------------------------------
(***************************************************************************)
(* Data.  The manifest hash of staged evidence is determined by the cycle, *)
(* the evidence revision and the sheet it was taken from, and stands for   *)
(* the triple: comparing two manifests compares all three.                 *)
(***************************************************************************)
NoMonth == -1
Target(c) == c - 1
January(m) == m - (m % MonthsPerYear)

Manifest(c, evidence, source) == [cycle |-> c, evidence |-> evidence, source |-> source]

NoRequest(c) ==
    [status |-> "NONE", workflow |-> 0, manifest |-> Manifest(c, 0, NoSource),
     ledger |-> 0, version |-> 0, requester |-> NoMember, approver |-> NoMember]

OpenLedger == [status |-> "OPEN", revision |-> 0, latest |-> 0]

NoAuthority(revision) ==
    [exists |-> FALSE, closedThrough |-> NoMonth, manifest |-> Manifest(NoCycle, 0, NoSource),
     revision |-> revision, ranges |-> <<>>]

LastRange(h) == h.ranges[Len(h.ranges)]

\* A month is locked by the head alone, and only in the year of its horizon.
IsLocked(m) ==
    /\ head.exists
    /\ January(m) = January(head.closedThrough)
    /\ m <= head.closedThrough

\* The guard of every cashflow write: with an authority the head decides,
\* without one the month's own ledger document must be absent or pristine.
MonthWritable(m) ==
    IF head.exists THEN ~IsLocked(m)
    ELSE m \in Cycles => ledger[m].revision = 0

\* Mutant: the new range starts with the last month of the old one.
AffectedFromHorizon(authority, through) ==
    IF authority.exists THEN authority.closedThrough ELSE January(through)

\* Mutant: every range starts in January, whatever is closed already.
AffectedFromJanuary(authority, through) == January(through)

\* The months an approval up to through adds, given the authority before it.
AffectedFrom(authority, through) ==
    IF authority.exists THEN authority.closedThrough + 1 ELSE January(through)

AffectedRangeValid(authority, through) ==
    LET from == AffectedFrom(authority, through)
    IN  from <= through /\ through - from + 1 <= MaxAffectedMonths

-----------------------------------------------------------------------------
(***************************************************************************)
(* Reading a cycle: what the dashboard and every prepare step see.         *)
(***************************************************************************)
\* The head projection refuses a head whose last range misses its horizon.
HeadReadable ==
    head.exists /\ head.ranges # <<>> => LastRange(head).through = head.closedThrough

ClaimsTarget(c) == head.exists /\ Target(c) <= head.closedThrough

RangeCovers(range, m) == range.from <= m /\ m <= range.through

CoveringRanges(c) ==
    {range \in {head.ranges[i] : i \in DOMAIN head.ranges} : RangeCovers(range, Target(c))}

LatestApprovalAuthority(c) == head.ranges # <<>> /\ LastRange(head) \in CoveringRanges(c)

\* A closed range is believed only when its version, the ledger of the cycle
\* that closed it and that cycle's request tell the same story.
Proven(range) ==
    LET r == request[range.cycle]
        l == ledger[range.cycle]
    IN  /\ \E v \in versions :
              /\ v.cycle = range.cycle /\ v.revision = range.version
              /\ v.manifest = range.manifest
              /\ v.from = range.from /\ v.through = range.through
        /\ <<l.status, r.status>> \in
              {<<"CLOSED", "APPROVED">>, <<"REOPEN_REQUESTED", "REOPEN_REQUESTED">>}
        /\ l.latest = range.version /\ l.revision >= range.version
        /\ r.manifest = range.manifest /\ r.version = range.version
        /\ r.ledger = l.revision

Provenance(c) == {range \in CoveringRanges(c) : Proven(range)}

\* The request and the coordinator must agree on which cycle is under way; a
\* finished request tolerates only a later cycle being under way.
CoordinatorAgrees(c) ==
    LET r == request[c]
        co == coordinator
    IN  CASE r.status = "NONE" -> co.activeCycle # c
          [] r.status \in ActiveStates ->
                Matches(co, c, r.status, r.workflow)
          [] OTHER ->
                /\ r.workflow <= co.workflowRevision
                /\ co.activeCycle # c
                /\ co.activeState # "INACTIVE" =>
                      co.workflowRevision > r.workflow /\ co.activeCycle > c

\* Mutant: a cycle counts as covering itself.
CoverReopeningBySelf(c) ==
    \E range \in Provenance(c) :
        range.cycle >= c /\ request[range.cycle].status = "REOPEN_REQUESTED"

\* A later cycle closed this month too, and that later approval is being reopened.
CoverReopening(c) ==
    \E range \in Provenance(c) :
        range.cycle > c /\ request[range.cycle].status = "REOPEN_REQUESTED"

CoverCoordinatorMatches(c) ==
    \E range \in Provenance(c) :
        range.cycle > c /\ Matches(coordinator, range.cycle, "REOPEN_REQUESTED",
                                   request[range.cycle].workflow)

ProjectionValid(c) ==
    /\ HeadReadable
    /\ CoordinatorAgrees(c)
    /\ CoverReopening(c) => CoverCoordinatorMatches(c)

\* CashflowSettlementCyclePolicy.project as a table: the request's status, whether
\* the head claims the month with provenance or neither, the ledger, the MONTH
\* period, and the business state the user is shown.
Row(status, closed, ledgerStatus, monthStatus, business) ==
    [status |-> status, closed |-> closed, ledger |-> ledgerStatus,
     month |-> monthStatus, business |-> business]

ProjectionTable ==
    {Row("NONE",             FALSE, "OPEN",             "WAITING_FOR_UPDATE", "NOT_REQUESTED"),
     Row("PENDING_APPROVAL", FALSE, "OPEN",             "SUBMITTED",          "SUBMITTED"),
     Row("APPROVED",         TRUE,  "CLOSED",           "LOCKED",             "LOCKED"),
     Row("REOPEN_REQUESTED", TRUE,  "REOPEN_REQUESTED", "LOCKED",             "REOPEN_REQUESTED"),
     Row("REOPENED",         FALSE, "OPEN",             "WAITING_FOR_UPDATE", "REOPENED"),
     Row("REJECTED",         FALSE, "OPEN",             "WAITING_FOR_UPDATE", "REJECTED"),
     Row("WITHDRAWN",        FALSE, "OPEN",             "WAITING_FOR_UPDATE", "WITHDRAWN")}
    \cup {Row(status, TRUE, "OPEN", "WAITING_FOR_UPDATE", "LOCKED") :
             status \in {"NONE", "REJECTED", "WITHDRAWN"}}

RowsOf(c) ==
    {row \in ProjectionTable :
        /\ row.status = request[c].status
        /\ row.closed = ClaimsTarget(c)
        /\ row.closed = (Provenance(c) # {})
        /\ row.ledger = ledger[c].status
        /\ row.month = month[c]}

BusinessState(c) ==
    IF ~ProjectionValid(c) \/ RowsOf(c) = {} THEN "INCONSISTENT"
    ELSE LET row == CHOOSE row \in RowsOf(c) : TRUE
         IN  IF ~CoverReopening(c) THEN row.business
             ELSE IF row.business = "LOCKED" /\ row.ledger = "OPEN"
                  THEN "REOPEN_REQUESTED" ELSE "INCONSISTENT"

\* Mutant: a reopened cycle is taken for a finished one.
CoordinatorInactiveOrReopened == coordinator.activeState \in {"INACTIVE", "REOPENED"}

\* Mutant: only administrators decide.
AdminDecides(a) == a \in Admins

CoordinatorInactive == coordinator.activeState = "INACTIVE"
IsApprover(a) == a = project.approver
MayDecide(a) == IsApprover(a) \/ a \in Admins

\* CashflowSettlementCyclePolicy.commandCapabilities for an active writer.
Allowed(kind, a, c) ==
    LET state == BusinessState(c)
    IN  CASE kind = "SUBMIT" ->
                \/ state = "REOPENED"
                \/ state \in {"NOT_REQUESTED", "REJECTED", "WITHDRAWN"} /\ CoordinatorInactive
          [] kind = "WITHDRAW" -> state = "SUBMITTED" /\ a = request[c].requester
          [] kind \in {"APPROVE", "REJECT"} -> state = "SUBMITTED" /\ IsApprover(a)
          [] kind = "REQUEST_REOPEN" ->
                state = "LOCKED" /\ CoordinatorInactive /\ LatestApprovalAuthority(c)
          [] kind \in {"APPROVE_REOPEN", "REJECT_REOPEN"} ->
                state = "REOPEN_REQUESTED" /\ MayDecide(a)
          [] kind = "CANCEL" -> state \in {"SUBMITTED", "REOPENED"} /\ a \in Admins

-----------------------------------------------------------------------------
(***************************************************************************)
(* The BFF: prepare a command from what was just read.                     *)
(***************************************************************************)
Command(kind, c, a, manifest, workflow, ledgerRevision) ==
    [kind |-> kind, cycle |-> c, actor |-> a, manifest |-> manifest,
     workflow |-> workflow, ledger |-> ledgerRevision,
     approver |-> NoMember, projectVersion |-> 0]

NoManifest(c) == Manifest(c, 0, NoSource)

Send(cmd) ==
    /\ Cardinality(inflight) < MaxInFlight
    /\ cmd \notin inflight
    /\ inflight' = inflight \cup {cmd}

\* Everything but the BFF's own staging area and what it sends.
docs == <<project, coordinator, request, month, ledger, versions, head, weeks, sheet>>

\* The preflight of a submission reads the cycle, its workflow revision and the
\* applied sheet; the evidence is staged later, in a transaction of its own.
PrepareSubmit(a, c) ==
    /\ Allowed("SUBMIT", a, c)
    /\ ledger[c].status = "OPEN"
    /\ Send(Command("STAGE", c, a, Manifest(c, 0, sheet),
                    coordinator.workflowRevision, ledger[c].revision))
    /\ UNCHANGED <<docs, shards>>

\* Mutant: a shard document is written over.
Overwritable(evidence) == TRUE

\* Shard documents are written once per evidence revision: other evidence under
\* the same revision is refused as tampered.
Untampered(evidence) ==
    \A shard \in shards :
        shard.cycle = evidence.cycle /\ shard.evidence = evidence.evidence => shard = evidence

StageSubmit(cmd) ==
    LET c == cmd.cycle
        evidence == Manifest(c, request[c].manifest.evidence + 1, cmd.manifest.source)
    IN  /\ cmd.kind = "STAGE"
        /\ request[c].status \in {"NONE", "REJECTED", "WITHDRAWN", "REOPENED"}
        /\ Untampered(evidence)
        /\ shards' = shards \cup {evidence}
        /\ inflight' = (inflight \ {cmd}) \cup
              {[cmd EXCEPT !.kind = "SUBMIT", !.manifest = evidence,
                           !.approver = project.approver,
                           !.projectVersion = project.version]}
        /\ UNCHANGED docs

PrepareTransition(kind, a, c) ==
    /\ kind \in {"WITHDRAW", "REJECT"}
    /\ Allowed(kind, a, c)
    /\ request[c].status = "PENDING_APPROVAL"
    /\ Send(Command(kind, c, a, request[c].manifest, request[c].workflow, 0))
    /\ UNCHANGED <<docs, shards>>

\* The approver's click carries no revision but the ledger's.
PrepareApprove(a, c) ==
    /\ request[c].status = "PENDING_APPROVAL"
    /\ Allowed("APPROVE", a, c)
    /\ Send(Command("APPROVE", c, a, NoManifest(c), 0, ledger[c].revision))
    /\ UNCHANGED <<docs, shards>>

\* The run shown beside the request is the ledger's latest version.
LatestRunIsRequest(c) ==
    \E v \in versions :
        v.cycle = c /\ v.revision = ledger[c].latest /\ v.manifest = request[c].manifest

PrepareReopenRequest(a, c) ==
    /\ BusinessState(c) = "LOCKED"
    /\ request[c].status = "APPROVED" /\ ledger[c].status = "CLOSED"
    /\ request[c].ledger = ledger[c].revision
    /\ LatestRunIsRequest(c)
    /\ Allowed("REQUEST_REOPEN", a, c)
    /\ Send(Command("REQUEST_REOPEN", c, a, request[c].manifest,
                    coordinator.workflowRevision, ledger[c].revision))
    /\ UNCHANGED <<docs, shards>>

PrepareReopenDecision(kind, a, c) ==
    /\ kind \in {"APPROVE_REOPEN", "REJECT_REOPEN"}
    /\ BusinessState(c) = "REOPEN_REQUESTED"
    /\ request[c].status = "REOPEN_REQUESTED" /\ ledger[c].status = "REOPEN_REQUESTED"
    /\ request[c].ledger = ledger[c].revision
    /\ LatestRunIsRequest(c)
    /\ Allowed(kind, a, c)
    /\ Send(Command(kind, c, a, request[c].manifest,
                    coordinator.workflowRevision, ledger[c].revision))
    /\ UNCHANGED <<docs, shards>>

\* Recovery is called on the JVM directly, with the revision the request shows.
PrepareCancel(a, c) ==
    /\ a \in Admins
    /\ request[c].status \in {"PENDING_APPROVAL", "REOPENED"}
    /\ Send(Command("CANCEL", c, a, NoManifest(c), request[c].workflow, 0))
    /\ UNCHANGED <<docs, shards>>

\* The caller gave up, or the answer was seen: the command will not be sent again.
Lose(cmd) ==
    /\ inflight' = inflight \ {cmd}
    /\ UNCHANGED <<docs, shards>>

-----------------------------------------------------------------------------
(***************************************************************************)
(* The JVM: one transaction per command.  Can... is every refusal of the   *)
(* handler; the action adds the writes.  An executed command stays in      *)
(* inflight: its body may be sent again under another idempotency key (the *)
(* same key would replay the stored answer, which changes nothing).        *)
(***************************************************************************)
WorkflowBounded == coordinator.workflowRevision < MaxWorkflowRevision

NextCoordinatorOfSubmit(cmd) ==
    IF coordinator.activeState = "REOPENED" THEN AfterResubmit(coordinator)
    ELSE AfterSubmit(coordinator, cmd.cycle)

AcceptsSubmit(cmd) ==
    LET c == cmd.cycle
    IN  /\ cmd.approver = project.approver /\ cmd.projectVersion = project.version
        /\ IF coordinator.activeState = "REOPENED"
           THEN CanResubmit(coordinator, c, cmd.workflow)
           ELSE CanSubmit(coordinator, cmd.workflow)
        /\ request[c].status \in {"NONE", "REJECTED", "WITHDRAWN", "REOPENED"}
        /\ cmd.manifest.evidence = request[c].manifest.evidence + 1
        /\ month[c] = "WAITING_FOR_UPDATE"

\* The request is merged: the ledger revision and version of an earlier approval stay.
Submit(cmd) ==
    LET c == cmd.cycle
        next == NextCoordinatorOfSubmit(cmd)
    IN  /\ cmd.kind = "SUBMIT" /\ AcceptsSubmit(cmd) /\ WorkflowBounded
        /\ cmd.manifest \in shards
        /\ coordinator' = next
        /\ request' = [request EXCEPT
              ![c].status = "PENDING_APPROVAL",
              ![c].workflow = next.workflowRevision,
              ![c].manifest = cmd.manifest,
              ![c].requester = cmd.actor,
              ![c].approver = cmd.approver]
        /\ month' = [month EXCEPT ![c] = "SUBMITTED"]
        /\ UNCHANGED <<project, ledger, versions, head, weeks, sheet, shards, inflight>>

AcceptsTransition(cmd) ==
    LET c == cmd.cycle
    IN  /\ IF cmd.kind = "WITHDRAW" THEN cmd.actor = request[c].requester
           ELSE MayDecide(cmd.actor)
        /\ request[c].status = "PENDING_APPROVAL"
        /\ request[c].manifest = cmd.manifest
        /\ CanFinishReview(coordinator, c, cmd.workflow)
        /\ month[c] = "SUBMITTED"

Transition(cmd) ==
    LET c == cmd.cycle
    IN  /\ cmd.kind \in {"WITHDRAW", "REJECT"} /\ AcceptsTransition(cmd) /\ WorkflowBounded
        /\ coordinator' = AfterFinishReview(coordinator)
        /\ request' = [request EXCEPT
              ![c].status = IF cmd.kind = "WITHDRAW" THEN "WITHDRAWN" ELSE "REJECTED",
              ![c].workflow = coordinator'.workflowRevision]
        /\ month' = [month EXCEPT ![c] = "WAITING_FOR_UPDATE"]
        /\ UNCHANGED <<project, ledger, versions, head, weeks, sheet, shards, inflight>>

AcceptsCancel(cmd) ==
    LET c == cmd.cycle
    IN  /\ cmd.actor \in Admins
        /\ request[c].status \in {"PENDING_APPROVAL", "REOPENED"}
        /\ request[c].workflow = cmd.workflow
        /\ CanCancelActive(coordinator, c, cmd.workflow)
        /\ month[c] = IF request[c].status = "PENDING_APPROVAL" THEN "SUBMITTED"
                      ELSE "WAITING_FOR_UPDATE"

Cancel(cmd) ==
    LET c == cmd.cycle
    IN  /\ cmd.kind = "CANCEL" /\ AcceptsCancel(cmd) /\ WorkflowBounded
        /\ coordinator' = AfterCancelActive(coordinator)
        /\ request' = [request EXCEPT
              ![c].status = "WITHDRAWN",
              ![c].workflow = coordinator'.workflowRevision]
        /\ month' = [month EXCEPT ![c] = "WAITING_FOR_UPDATE"]
        /\ UNCHANGED <<project, ledger, versions, head, weeks, sheet, shards, inflight>>

\* Approval is a change of state only: it takes the stored request, whatever the
\* approver's screen showed, and compares no revision of the command.
AcceptsApprove(cmd) ==
    LET c == cmd.cycle
    IN  /\ MayDecide(cmd.actor)
        /\ request[c].status = "PENDING_APPROVAL"
        /\ CanFinishReview(coordinator, c, request[c].workflow)
        /\ request[c].manifest \in shards
        /\ head.exists => head.closedThrough < Target(c)
        /\ AffectedRangeValid(head, Target(c))
        /\ ledger[c].status = "OPEN"

ApprovedRange(c, revision) ==
    [from |-> AffectedFrom(head, Target(c)), through |-> Target(c), cycle |-> c,
     version |-> revision, manifest |-> request[c].manifest]

Approve(cmd) ==
    LET c == cmd.cycle
        revision == ledger[c].revision + 1
        range == ApprovedRange(c, revision)
    IN  /\ cmd.kind = "APPROVE" /\ AcceptsApprove(cmd) /\ WorkflowBounded
        /\ ledger' = [ledger EXCEPT
              ![c] = [status |-> "CLOSED", revision |-> revision, latest |-> revision]]
        /\ versions' = versions \cup
              {[cycle |-> c, revision |-> revision, manifest |-> request[c].manifest,
                headRevision |-> head.revision + 1, from |-> range.from,
                through |-> range.through,
                prior |-> IF head.exists THEN head ELSE NoAuthority(0)]}
        /\ head' = [exists |-> TRUE, closedThrough |-> Target(c),
                    manifest |-> request[c].manifest, revision |-> head.revision + 1,
                    ranges |-> Append(head.ranges, range)]
        /\ coordinator' = AfterFinishReview(coordinator)
        /\ request' = [request EXCEPT
              ![c].status = "APPROVED",
              ![c].workflow = coordinator'.workflowRevision,
              ![c].ledger = cmd.ledger + 1,
              ![c].version = revision]
        /\ month' = [month EXCEPT ![c] = "LOCKED"]
        /\ UNCHANGED <<project, weeks, sheet, shards, inflight>>

\* The version that closed the present horizon, with the authority it replaced.
RestorationEvidence(c) ==
    {v \in versions :
        /\ v.cycle = c /\ v.revision = ledger[c].latest
        /\ head.exists /\ head.revision = v.headRevision /\ head.manifest = v.manifest
        /\ AffectedRangeValid(v.prior, head.closedThrough)
        /\ v.from = AffectedFrom(v.prior, head.closedThrough)
        /\ v.through = head.closedThrough}

ReopensHorizon(cmd, ledgerStatus) ==
    LET c == cmd.cycle
    IN  /\ RestorationEvidence(c) # {}
        /\ c = head.closedThrough + 1
        /\ ledger[c].status = ledgerStatus
        /\ ledger[c].revision = cmd.ledger
        /\ request[c].manifest = cmd.manifest
        /\ request[c].ledger = cmd.ledger
        /\ month[c] = "LOCKED"

AcceptsReopenRequest(cmd) ==
    LET c == cmd.cycle
        latest == LastRange(head)
    IN  /\ ReopensHorizon(cmd, "CLOSED")
        /\ request[c].status = "APPROVED"
        /\ request[c].workflow <= cmd.workflow
        /\ CanRequestReopen(coordinator, cmd.workflow)
        /\ head.manifest = cmd.manifest
        /\ head.ranges # <<>>
        /\ latest.manifest = cmd.manifest
        /\ latest.version = request[c].version
        /\ latest.through = Target(c)
        /\ request[c].ledger >= latest.version

RequestReopen(cmd) ==
    LET c == cmd.cycle
    IN  /\ cmd.kind = "REQUEST_REOPEN" /\ AcceptsReopenRequest(cmd) /\ WorkflowBounded
        /\ ledger' = [ledger EXCEPT ![c].status = "REOPEN_REQUESTED",
                                    ![c].revision = @ + 1]
        /\ coordinator' = AfterRequestReopen(coordinator, c)
        /\ request' = [request EXCEPT
              ![c].status = "REOPEN_REQUESTED",
              ![c].workflow = coordinator'.workflowRevision,
              ![c].ledger = ledger'[c].revision]
        /\ UNCHANGED <<project, month, versions, head, weeks, sheet, shards, inflight>>

AcceptsReopenDecision(cmd) ==
    LET c == cmd.cycle
    IN  /\ MayDecide(cmd.actor)
        /\ ReopensHorizon(cmd, "REOPEN_REQUESTED")
        /\ request[c].status = "REOPEN_REQUESTED"
        /\ request[c].workflow = cmd.workflow
        /\ CanDecideReopen(coordinator, c, cmd.workflow)

\* What a decision writes besides the head and the weeks.
DecideReopen(cmd, approved) ==
    LET c == cmd.cycle
    IN  /\ AcceptsReopenDecision(cmd) /\ WorkflowBounded
        /\ ledger' = [ledger EXCEPT
              ![c].status = IF approved THEN "OPEN" ELSE "CLOSED",
              ![c].revision = @ + 1]
        /\ coordinator' = AfterDecideReopen(coordinator, approved)
        /\ request' = [request EXCEPT
              ![c].status = IF approved THEN "REOPENED" ELSE "APPROVED",
              ![c].workflow = coordinator'.workflowRevision,
              ![c].ledger = ledger'[c].revision]
        /\ UNCHANGED <<project, versions, sheet, shards, inflight>>

\* Mutant: the authority before the approval comes back with its own revision.
RestoredWithOldRevision(v) ==
    IF v.prior.exists THEN v.prior ELSE NoAuthority(head.revision + 1)

\* Mutant: reopening gives up every range.
RestoredToNothing(v) == NoAuthority(head.revision + 1)

\* The authority before the approval comes back under a new head revision.
Restored(v) ==
    IF v.prior.exists THEN [v.prior EXCEPT !.revision = head.revision + 1]
    ELSE NoAuthority(head.revision + 1)

ApproveReopen(cmd) ==
    /\ cmd.kind = "APPROVE_REOPEN"
    /\ DecideReopen(cmd, TRUE)
    /\ \E v \in RestorationEvidence(cmd.cycle) :
          /\ head' = Restored(v)
          /\ weeks' = [m \in TrackedMonths |->
                          IF RangeCovers(v, m) THEN "OPEN" ELSE weeks[m]]
    /\ month' = [month EXCEPT ![cmd.cycle] = "WAITING_FOR_UPDATE"]

RejectReopen(cmd) ==
    /\ cmd.kind = "REJECT_REOPEN"
    /\ DecideReopen(cmd, FALSE)
    /\ UNCHANGED <<head, month, weeks>>

-----------------------------------------------------------------------------
(***************************************************************************)
(* The rest of the platform, as far as it moves what a cycle depends on.   *)
(***************************************************************************)
\* The sheet is applied again and gets another revision.
EditSheet(source) ==
    /\ source # sheet
    /\ sheet' = source
    /\ UNCHANGED <<project, coordinator, request, month, ledger, versions, head,
                   weeks, shards, inflight>>

ApproverLocked == coordinator.activeState \in ActiveStates

\* The approver route refuses while a cycle is under way.
ChangeApprover(a) ==
    /\ ~ApproverLocked
    /\ a # project.approver
    /\ project.version < MaxProjectVersion
    /\ project' = [approver |-> a, version |-> project.version + 1]
    /\ UNCHANGED <<coordinator, request, month, ledger, versions, head, weeks,
                   sheet, shards, inflight>>

\* Approving a project change request writes the approver without asking.
ApproveProjectChange(a) ==
    /\ project.version < MaxProjectVersion
    /\ project' = [approver |-> a, version |-> project.version + 1]
    /\ UNCHANGED <<coordinator, request, month, ledger, versions, head, weeks,
                   sheet, shards, inflight>>

\* Another sheet is applied over a closed month, with a reason: the transaction
\* that writes it counts the amendment in monthly_closes/<project>-m, the ledger of
\* cycle m, which closed the month before m.
AmendMonth(m) ==
    /\ IsLocked(m)
    /\ ledger[m].revision > 0
    /\ ledger[m].revision < MaxAmendedRevision
    /\ ledger' = [ledger EXCEPT ![m].revision = @ + 1]
    /\ UNCHANGED <<project, coordinator, request, month, versions, head, weeks,
                   sheet, shards, inflight>>

\* The five weeks of a month follow the same rules: one stands for all.  Every
\* command on a week but ApproveWeek compares the week's revision, which every
\* write of it raises, so reading it and executing the command are one step.
SetWeek(m, status) ==
    /\ weeks' = [weeks EXCEPT ![m] = status]
    /\ UNCHANGED <<project, coordinator, request, month, ledger, versions, head,
                   sheet, shards, inflight>>

\* A week that is settled already is answered as it stands.
CompleteWeek(m) ==
    /\ MonthWritable(m)
    /\ weeks[m] = "OPEN"
    /\ SetWeek(m, "SUBMITTED")

ConfirmWeek(a, m) ==
    /\ MonthWritable(m)
    /\ IsApprover(a)
    /\ weeks[m] = "SUBMITTED"
    /\ SetWeek(m, "LOCKED")

\* The approver's list of settlements confirms a submitted week in whatever month.
ApproveWeek(a, m) ==
    /\ IsApprover(a)
    /\ weeks[m] = "SUBMITTED"
    /\ SetWeek(m, "LOCKED")

\* A submitted week is taken back by any writer, a confirmed one only by those who
\* decide, and either only while its month may be written.
ReopenWeek(a, m) ==
    /\ MonthWritable(m)
    /\ weeks[m] # "OPEN"
    /\ weeks[m] = "LOCKED" => MayDecide(a)
    /\ SetWeek(m, "OPEN")

-----------------------------------------------------------------------------
Init ==
    /\ project \in [approver : Members, version : {1}]
    /\ coordinator = Inactive(0)
    /\ request = [c \in Cycles |-> NoRequest(c)]
    /\ month = [c \in Cycles |-> "WAITING_FOR_UPDATE"]
    /\ ledger = [c \in Cycles |-> OpenLedger]
    /\ versions = {}
    /\ head = NoAuthority(0)
    /\ weeks = [m \in TrackedMonths |-> "OPEN"]
    /\ sheet \in Sources
    /\ shards = {}
    /\ inflight = {}

Prepare(a, c) ==
    \/ PrepareSubmit(a, c)
    \/ \E kind \in {"WITHDRAW", "REJECT"} : PrepareTransition(kind, a, c)
    \/ PrepareCancel(a, c)
    \/ PrepareApprove(a, c)
    \/ PrepareReopenRequest(a, c)
    \/ \E kind \in {"APPROVE_REOPEN", "REJECT_REOPEN"} : PrepareReopenDecision(kind, a, c)

Execute(cmd) ==
    \/ Submit(cmd)
    \/ Transition(cmd)
    \/ Cancel(cmd)
    \/ Approve(cmd)
    \/ RequestReopen(cmd)
    \/ ApproveReopen(cmd)
    \/ RejectReopen(cmd)

WeekStep(a, m) ==
    \/ CompleteWeek(m)
    \/ ConfirmWeek(a, m)
    \/ ApproveWeek(a, m)
    \/ ReopenWeek(a, m)

Next ==
    \/ \E a \in Members, c \in Cycles : Prepare(a, c)
    \/ \E cmd \in inflight : StageSubmit(cmd) \/ Execute(cmd) \/ Lose(cmd)
    \/ \E source \in Sources : EditSheet(source)
    \/ \E a \in Members : ChangeApprover(a) \/ ApproveProjectChange(a)
    \/ \E m \in Cycles : AmendMonth(m)
    \/ \E a \in Members, m \in TrackedMonths : WeekStep(a, m)

Spec == Init /\ [][Next]_vars
=============================================================================

------------------------ MODULE SettlementProperties ------------------------
(***************************************************************************)
(* What must be true of month settlement in every reachable state, and of  *)
(* every step.  The invariants are conjunctions of named parts so that the *)
(* proofs can take them apart.                                             *)
(***************************************************************************)
EXTENDS SettlementCycle

ManifestType == [cycle : Nat, evidence : Nat, source : Sources \cup {NoSource}]

RequestStatus ==
    {"NONE", "PENDING_APPROVAL", "APPROVED", "REJECTED", "WITHDRAWN",
     "REOPEN_REQUESTED", "REOPENED"}

LedgerStatus == {"OPEN", "CLOSED", "REOPEN_REQUESTED"}

CommandKinds ==
    {"STAGE", "SUBMIT", "WITHDRAW", "REJECT", "CANCEL", "APPROVE",
     "REQUEST_REOPEN", "APPROVE_REOPEN", "REJECT_REOPEN"}

RangeType ==
    [from : Nat, through : Nat, cycle : Cycles, version : Nat, manifest : ManifestType]

HeadType ==
    [exists : BOOLEAN, closedThrough : Nat \cup {NoMonth}, manifest : ManifestType,
     revision : Nat, ranges : Seq(RangeType)]

VersionType ==
    [cycle : Cycles, revision : Nat, manifest : ManifestType, headRevision : Nat,
     from : Nat, through : Nat, prior : HeadType]

RequestType ==
    [status : RequestStatus, workflow : Nat, manifest : ManifestType, ledger : Nat,
     version : Nat, requester : Members \cup {NoMember}, approver : Members \cup {NoMember}]

LedgerType == [status : LedgerStatus, revision : Nat, latest : Nat]

CommandType ==
    [kind : CommandKinds, cycle : Cycles, actor : Members, manifest : ManifestType,
     workflow : Nat, ledger : Nat, approver : Members \cup {NoMember}, projectVersion : Nat]

CoordinatorType ==
    [activeCycle : Cycles \cup {NoCycle}, activeState : ActiveStates \cup {"INACTIVE"},
     workflowRevision : Nat]

\* Every document and command has the shape its readers in the code expect.
TypeOK ==
    /\ project \in [approver : Members, version : Nat]
    /\ coordinator \in CoordinatorType
    /\ request \in [Cycles -> RequestType]
    /\ month \in [Cycles -> {"WAITING_FOR_UPDATE", "SUBMITTED", "LOCKED"}]
    /\ ledger \in [Cycles -> LedgerType]
    /\ versions \subseteq VersionType
    /\ head \in HeadType
    /\ weeks \in [TrackedMonths -> {"OPEN", "SUBMITTED", "LOCKED"}]
    /\ sheet \in Sources
    /\ shards \subseteq ManifestType
    /\ inflight \subseteq CommandType

-----------------------------------------------------------------------------
MonthOf(status) ==
    CASE status = "PENDING_APPROVAL" -> "SUBMITTED"
      [] status \in {"APPROVED", "REOPEN_REQUESTED"} -> "LOCKED"
      [] OTHER -> "WAITING_FOR_UPDATE"

LedgerOf(status) ==
    CASE status = "APPROVED" -> "CLOSED"
      [] status = "REOPEN_REQUESTED" -> "REOPEN_REQUESTED"
      [] OTHER -> "OPEN"

\* Four documents are written by six handlers in as many transactions.  Whatever
\* order commands arrive in, the request of a cycle under way is the one the
\* coordinator names at exactly its revision, no other request is active, and the
\* MONTH period and the ledger say what the request says.
DocumentsAgree ==
    \A c \in Cycles :
        /\ request[c].workflow <= coordinator.workflowRevision
        /\ request[c].status \in ActiveStates =>
              Matches(coordinator, c, request[c].status, request[c].workflow)
        /\ coordinator.activeCycle = c => request[c].status = coordinator.activeState
        /\ month[c] = MonthOf(request[c].status)
        /\ ledger[c].status = LedgerOf(request[c].status)

\* The closed ranges are a gapless run of months that starts in a January, every
\* range is at most the permitted length, and the head's horizon and evidence are
\* those of its last range.
HeadIsCanonical ==
    /\ head.exists <=> head.ranges # <<>>
    /\ head.exists =>
          /\ head.closedThrough = LastRange(head).through
          /\ head.manifest = LastRange(head).manifest
    /\ \A i \in DOMAIN head.ranges :
          /\ AffectedRangeValid([exists |-> i > 1, closedThrough |->
                                   IF i > 1 THEN head.ranges[i - 1].through ELSE NoMonth],
                                head.ranges[i].through)
          /\ head.ranges[i].from =
                IF i = 1 THEN January(head.ranges[i].through)
                ELSE head.ranges[i - 1].through + 1
          /\ head.ranges[i].cycle = head.ranges[i].through + 1

\* The head and the requests tell the same story: a cycle counts as approved (or
\* as asking to be reopened) exactly when a range of the head was closed by it,
\* with the evidence and the approval version the request names, and the ledger's
\* latest version is that one.
AuthorityAgrees ==
    /\ \A c \in Cycles :
          request[c].status \in {"APPROVED", "REOPEN_REQUESTED"} <=>
              \E i \in DOMAIN head.ranges : head.ranges[i].cycle = c
    /\ \A i \in DOMAIN head.ranges :
          LET range == head.ranges[i]
              r == request[range.cycle]
          IN  /\ r.manifest = range.manifest /\ r.version = range.version
              /\ ledger[range.cycle].latest = range.version
              /\ ledger[range.cycle].revision >= range.version

\* Evidence is immutable and precedes everything that rests on it: one staged
\* shard set per cycle and evidence revision, and every submitted request and
\* every closed range has its own.
EvidenceIsStaged ==
    /\ \A s, t \in shards : s.cycle = t.cycle /\ s.evidence = t.evidence => s = t
    /\ \A c \in Cycles : request[c].status # "NONE" => request[c].manifest \in shards
    /\ \A i \in DOMAIN head.ranges : head.ranges[i].manifest \in shards

\* Reopening restores from a version, so the version must be unmistakable: head
\* revisions are never reused, and the version that carries the present one closed
\* the last range and remembers the ranges before it.
VersionsRestore ==
    \A v \in versions :
        /\ v.headRevision <= head.revision
        /\ \A w \in versions : v.headRevision = w.headRevision => v = w
        /\ v.headRevision = head.revision =>
              /\ head.exists
              /\ v.manifest = head.manifest /\ v.through = head.closedThrough
              /\ v.prior.ranges = SubSeq(head.ranges, 1, Len(head.ranges) - 1)

-----------------------------------------------------------------------------
FreshTransition(kind, a, c) ==
    Command(kind, c, a, request[c].manifest, request[c].workflow, 0)

FreshDecision(kind, a, c) ==
    Command(kind, c, a, request[c].manifest, coordinator.workflowRevision, ledger[c].revision)

FreshSubmit(a, c) ==
    [Command("SUBMIT", c, a, Manifest(c, request[c].manifest.evidence + 1, sheet),
             coordinator.workflowRevision, ledger[c].revision)
        EXCEPT !.approver = project.approver, !.projectVersion = project.version]

\* Whatever the screen offers, the JVM takes, if nothing moves in between: the
\* capabilities and the handlers are written apart and must not drift.  A range
\* over the permitted length is the one refusal of an approval; reopening requests
\* have a property of their own.
OfferedIsAccepted ==
    \A a \in Members, c \in Cycles :
        /\ Allowed("SUBMIT", a, c) => AcceptsSubmit(FreshSubmit(a, c))
        /\ \A kind \in {"WITHDRAW", "REJECT"} :
              Allowed(kind, a, c) => AcceptsTransition(FreshTransition(kind, a, c))
        /\ Allowed("CANCEL", a, c) => AcceptsCancel(FreshTransition("CANCEL", a, c))
        /\ Allowed("APPROVE", a, c) /\ AffectedRangeValid(head, Target(c)) =>
              AcceptsApprove(FreshTransition("APPROVE", a, c))
        /\ \A kind \in {"APPROVE_REOPEN", "REJECT_REOPEN"} :
              Allowed(kind, a, c) /\ request[c].status = "REOPEN_REQUESTED" =>
                  AcceptsReopenDecision(FreshDecision(kind, a, c))

\* A cycle under way never blocks the project for good: its requester can take a
\* pending request back, a reopening can be decided either way, and recovery can
\* end a reopened cycle.
NeverStuck ==
    \A c \in Cycles :
        /\ request[c].status = "PENDING_APPROVAL" =>
              AcceptsTransition(FreshTransition("WITHDRAW", request[c].requester, c))
        /\ request[c].status = "REOPEN_REQUESTED" =>
              AcceptsReopenDecision(FreshDecision("REJECT_REOPEN", project.approver, c))
        /\ request[c].status = "REOPENED" =>
              \A a \in Admins : AcceptsCancel(FreshTransition("CANCEL", a, c))

\* The numbers of a cycle that closed a range disagree: an approval recorded a
\* ledger revision the ledger never had, or the month of that name was amended.
Misnumbered(c) ==
    \E range \in CoveringRanges(c) :
        request[range.cycle].ledger # ledger[range.cycle].revision

\* An earlier cycle is under way.
Overshadowed(c) ==
    /\ coordinator.activeCycle \in Cycles /\ coordinator.activeCycle < c
    /\ request[c].status \in {"APPROVED", "REJECTED", "WITHDRAWN"}

BeforeFirstRange(c) == head.exists /\ Target(c) < head.ranges[1].from

\* A cycle shows as INCONSISTENT, which takes every command away from everybody,
\* for no reason but the three known ones.
InconsistentIsExplained ==
    \A c \in Cycles :
        BusinessState(c) = "INCONSISTENT" =>
            Misnumbered(c) \/ Overshadowed(c) \/ BeforeFirstRange(c)

-----------------------------------------------------------------------------
Covered(m) == \E i \in DOMAIN head.ranges : RangeCovers(head.ranges[i], m)

\* Giving a range up opens every settled week of its months in the same step.  A
\* settled week opens in no other way but by itself, with the closed ranges left as
\* they are and its month not locked by them: neither an order of closing, restoring
\* and taking weeks back, nor a step that meets another, opens a week under a lock
\* or leaves one settled that lost its range.
WeeksOpenWithTheRange ==
    [][\A m \in TrackedMonths : weeks[m] # "OPEN" =>
          LET givenUp == Covered(m) /\ ~Covered(m)'
          IN  /\ givenUp => weeks'[m] = "OPEN"
              /\ weeks'[m] = "OPEN" => givenUp \/ (head' = head /\ ~IsLocked(m))]_vars

Accepts(cmd) ==
    CASE cmd.kind = "SUBMIT" -> AcceptsSubmit(cmd)
      [] cmd.kind \in {"WITHDRAW", "REJECT"} -> AcceptsTransition(cmd)
      [] cmd.kind = "CANCEL" -> AcceptsCancel(cmd)
      [] cmd.kind = "APPROVE" -> AcceptsApprove(cmd)
      [] cmd.kind = "REQUEST_REOPEN" -> AcceptsReopenRequest(cmd)
      [] cmd.kind \in {"APPROVE_REOPEN", "REJECT_REOPEN"} -> AcceptsReopenDecision(cmd)
      [] OTHER -> FALSE

\* A step that moves the coordinator makes every command prepared for an earlier
\* revision refusable for ever, so nothing but an approval can take effect twice:
\* after any change each command in flight is refused, unless it is an approval or
\* was itself prepared against the new revision.
StaleIsRefused ==
    [][coordinator' # coordinator =>
          \A cmd \in inflight :
              cmd.kind # "APPROVE" /\ cmd.workflow <= coordinator.workflowRevision =>
                  ~Accepts(cmd)']_vars

\* The settlement as its abstract specification sees it.
Authority == INSTANCE CloseAuthority WITH
    closed <- [i \in DOMAIN head.ranges |->
                  [from |-> head.ranges[i].from, through |-> head.ranges[i].through]],
    underway <-
        [phase |-> CASE coordinator.activeState = "PENDING_APPROVAL" -> "CLOSING"
                     [] coordinator.activeState = "REOPEN_REQUESTED" -> "REOPENING"
                     [] coordinator.activeState = "REOPENED" -> "REOPENED"
                     [] OTHER -> "IDLE",
         cycle |-> coordinator.activeCycle]

\* Every history of the documents is a history of a stack of closed ranges with at
\* most one cycle under way.
ImplementsAuthority == Authority!Spec

-----------------------------------------------------------------------------
(***************************************************************************)
(* What the repository's documents say and the code does not keep.         *)
(***************************************************************************)
\* The latest horizon can be reopened whenever the screen offers it, one range
\* after the other going back.
HorizonCanBeReopened ==
    \A a \in Members, c \in Cycles :
        Allowed("REQUEST_REOPEN", a, c) /\ request[c].status = "APPROVED" =>
            AcceptsReopenRequest(FreshDecision("REQUEST_REOPEN", a, c))

\* An approval records the ledger revision that it wrote, whatever revision the
\* approver's screen had.
ApprovalUsesPresentRevision ==
    \A c \in Cycles : request[c].status = "APPROVED" => request[c].ledger = ledger[c].revision
=============================================================================

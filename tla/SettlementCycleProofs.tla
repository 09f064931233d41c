----------------------- MODULE SettlementCycleProofs -----------------------
(***************************************************************************)
(* What holds of month settlement for every set of cycles, members and     *)
(* sheet revisions, and for any number of commands in flight.              *)
(***************************************************************************)
EXTENDS SettlementProperties, TLAPS

-----------------------------------------------------------------------------
(***************************************************************************)
(* Types of the operators the actions are built from.                      *)
(***************************************************************************)
LEMMA ManifestTyped ==
    ASSUME NEW c \in Nat, NEW e \in Nat, NEW s \in Sources \cup {NoSource}
    PROVE  Manifest(c, e, s) \in ManifestType
BY DEF Manifest, ManifestType

LEMMA CycleIsNat == \A c \in Cycles : c \in Nat /\ c - 1 \in Nat
BY CyclesAssumption

\* The January of a month is a month.
LEMMA JanuaryTyped ==
    ASSUME NEW m \in Nat
    PROVE  January(m) \in Nat /\ January(m) <= m
<1>1. MonthsPerYear \in Nat /\ MonthsPerYear > 0
  BY CalendarAssumption
<1>2. m % MonthsPerYear \in Nat /\ m % MonthsPerYear <= m
  BY <1>1, Z3T(20)
<1> QED
  BY <1>2 DEF January

\* The coordinator functions return coordinators.
LEMMA CoordinatorTyped ==
    ASSUME NEW co \in CoordinatorType, NEW c \in Cycles, NEW approved \in BOOLEAN
    PROVE  /\ AfterSubmit(co, c) \in CoordinatorType
           /\ AfterResubmit(co) \in CoordinatorType
           /\ AfterFinishReview(co) \in CoordinatorType
           /\ AfterCancelActive(co) \in CoordinatorType
           /\ AfterRequestReopen(co, c) \in CoordinatorType
           /\ AfterDecideReopen(co, approved) \in CoordinatorType
BY DEF CoordinatorType, ActiveStates, NoCycle, Inactive, Active, AfterSubmit, AfterResubmit,
       AfterFinishReview, AfterCancelActive, AfterRequestReopen, AfterDecideReopen

LEMMA CommandTyped ==
    ASSUME NEW kind \in CommandKinds, NEW c \in Cycles, NEW a \in Members,
           NEW manifest \in ManifestType, NEW workflow \in Nat, NEW revision \in Nat
    PROVE  Command(kind, c, a, manifest, workflow, revision) \in CommandType
BY DEF Command, CommandType

\* A range that passes the affected-range check has proper months.
LEMMA RangeTyped ==
    ASSUME TypeOK, NEW c \in Cycles, NEW revision \in Nat, request[c].manifest \in ManifestType
    PROVE  ApprovedRange(c, revision) \in RangeType
<1>1. AffectedFrom(head, Target(c)) \in Nat
  <2>1. CASE head.exists
    <3>1. head.closedThrough \in Nat \cup {-1}
      BY DEF TypeOK, HeadType, NoMonth
    <3> QED
      BY <2>1, <3>1 DEF AffectedFrom
  <2>2. CASE ~head.exists
    BY <2>2, CycleIsNat, JanuaryTyped DEF AffectedFrom, Target
  <2> QED
    BY <2>1, <2>2
<1> QED
  BY <1>1, CycleIsNat DEF ApprovedRange, RangeType, Target

LEMMA NoAuthorityTyped ==
    ASSUME NEW revision \in Nat
    PROVE  NoAuthority(revision) \in HeadType
BY DEF NoAuthority, HeadType, NoMonth, Manifest, ManifestType, NoCycle

LEMMA RestoredTyped ==
    ASSUME TypeOK, NEW v \in versions
    PROVE  Restored(v) \in HeadType
<1>1. v.prior \in HeadType /\ head.revision + 1 \in Nat
  BY DEF TypeOK, VersionType, HeadType
<1>2. [v.prior EXCEPT !.revision = head.revision + 1] \in HeadType
  BY <1>1 DEF HeadType
<1> QED
  BY <1>1, <1>2, NoAuthorityTyped DEF Restored

-----------------------------------------------------------------------------
(***************************************************************************)
(* Type correctness.                                                       *)
(***************************************************************************)
LEMMA TypeInit == Init => TypeOK
<1> SUFFICES ASSUME Init PROVE TypeOK
  OBVIOUS
<1>1. \A c \in Cycles : NoRequest(c) \in RequestType
  BY CycleIsNat DEF NoRequest, RequestType, RequestStatus, Manifest, ManifestType
<1>2. head \in HeadType
  BY NoAuthorityTyped DEF Init
<1>3. coordinator \in CoordinatorType
  BY DEF Init, Inactive, CoordinatorType, NoCycle
<1>4. ledger \in [Cycles -> LedgerType]
  BY DEF Init, OpenLedger, LedgerType, LedgerStatus
<1>5. request \in [Cycles -> RequestType]
  BY <1>1 DEF Init
<1> QED
  BY <1>2, <1>3, <1>4, <1>5 DEF Init, TypeOK

\* Preparing a command adds a command and changes no document.
LEMMA TypePrepare ==
    ASSUME TypeOK, NEW a \in Members, NEW c \in Cycles, Prepare(a, c)
    PROVE  TypeOK'
<1>1. /\ request[c].manifest \in ManifestType /\ request[c].workflow \in Nat
      /\ ledger[c].revision \in Nat /\ coordinator.workflowRevision \in Nat
  BY DEF TypeOK, RequestType, LedgerType, CoordinatorType
<1>2. Manifest(c, 0, sheet) \in ManifestType /\ NoManifest(c) \in ManifestType
  BY CycleIsNat, ManifestTyped DEF TypeOK, NoManifest
<1>3. SUFFICES ASSUME NEW cmd \in CommandType, Send(cmd), UNCHANGED <<docs, shards>>
               PROVE  TypeOK'
  <2>1. CASE PrepareSubmit(a, c)
    BY <2>1, <1>1, <1>2, <1>3, CommandTyped DEF PrepareSubmit, CommandKinds
  <2>2. CASE \E kind \in {"WITHDRAW", "REJECT"} : PrepareTransition(kind, a, c)
    BY <2>2, <1>1, <1>2, <1>3, CommandTyped DEF PrepareTransition, CommandKinds
  <2>3. CASE PrepareCancel(a, c)
    BY <2>3, <1>1, <1>2, <1>3, CommandTyped DEF PrepareCancel, CommandKinds
  <2>4. CASE PrepareApprove(a, c)
    BY <2>4, <1>1, <1>2, <1>3, CommandTyped DEF PrepareApprove, CommandKinds
  <2>5. CASE PrepareReopenRequest(a, c)
    BY <2>5, <1>1, <1>2, <1>3, CommandTyped DEF PrepareReopenRequest, CommandKinds
  <2>6. CASE \E kind \in {"APPROVE_REOPEN", "REJECT_REOPEN"} : PrepareReopenDecision(kind, a, c)
    BY <2>6, <1>1, <1>2, <1>3, CommandTyped DEF PrepareReopenDecision, CommandKinds
  <2> QED
    BY <2>1, <2>2, <2>3, <2>4, <2>5, <2>6 DEF Prepare
<1> QED
  BY <1>3 DEF TypeOK, Send, docs

LEMMA TypeStage ==
    ASSUME TypeOK, NEW cmd \in inflight, StageSubmit(cmd)
    PROVE  TypeOK'
<1> DEFINE c == cmd.cycle
           evidence == Manifest(c, request[c].manifest.evidence + 1, cmd.manifest.source)
           submit == [cmd EXCEPT !.kind = "SUBMIT", !.manifest = evidence,
                                 !.approver = project.approver,
                                 !.projectVersion = project.version]
<1>1. cmd \in CommandType /\ c \in Cycles
  BY DEF TypeOK, CommandType
<1>2. evidence \in ManifestType
  <2>1. request[c].manifest.evidence + 1 \in Nat
    BY <1>1 DEF TypeOK, RequestType, ManifestType
  <2>2. cmd.manifest.source \in Sources \cup {NoSource}
    BY <1>1 DEF CommandType, ManifestType
  <2> QED
    BY <1>1, <2>1, <2>2, CycleIsNat, ManifestTyped
<1>3. submit \in CommandType
  BY <1>1, <1>2 DEF TypeOK, CommandType, CommandKinds
<1>4. shards' = shards \cup {evidence} /\ inflight' = (inflight \ {cmd}) \cup {submit}
      /\ UNCHANGED docs
  BY DEF StageSubmit
<1> HIDE DEF evidence, submit
<1> QED
  BY <1>2, <1>3, <1>4 DEF TypeOK, docs

LEMMA TypeSubmit ==
    ASSUME TypeOK, NEW cmd \in inflight, Submit(cmd)
    PROVE  TypeOK'
<1> DEFINE c == cmd.cycle
<1>1. cmd \in CommandType /\ c \in Cycles /\ request[c] \in RequestType
  BY DEF TypeOK, CommandType
<1>2. NextCoordinatorOfSubmit(cmd) \in CoordinatorType
  BY <1>1, CoordinatorTyped DEF TypeOK, NextCoordinatorOfSubmit
<1>3. coordinator' \in CoordinatorType
  BY <1>2 DEF Submit
<1>4. request' \in [Cycles -> RequestType]
  BY <1>1, <1>2 DEF Submit, TypeOK, RequestType, RequestStatus, CoordinatorType, CommandType
<1> QED
  BY <1>1, <1>3, <1>4 DEF Submit, TypeOK

LEMMA TypeTransition ==
    ASSUME TypeOK, NEW cmd \in inflight, Transition(cmd) \/ Cancel(cmd)
    PROVE  TypeOK'
<1> DEFINE c == cmd.cycle
<1>1. cmd \in CommandType /\ c \in Cycles /\ request[c] \in RequestType
  BY DEF TypeOK, CommandType
<1>2. coordinator' \in CoordinatorType
  <2>1. coordinator \in CoordinatorType
    BY DEF TypeOK
  <2>2. coordinator' \in {AfterFinishReview(coordinator), AfterCancelActive(coordinator)}
    BY Zenon DEF Transition, Cancel
  <2> QED
    BY <1>1, <2>1, <2>2, CoordinatorTyped
<1>3. coordinator'.workflowRevision \in Nat
  BY <1>2 DEF CoordinatorType
<1>4. request' \in [Cycles -> RequestType]
  BY <1>1, <1>3 DEF Transition, Cancel, TypeOK, RequestType, RequestStatus
<1> QED
  BY <1>1, <1>2, <1>4 DEF Transition, Cancel, TypeOK

LEMMA TypeApprove ==
    ASSUME TypeOK, NEW cmd \in inflight, Approve(cmd)
    PROVE  TypeOK'
<1> DEFINE c == cmd.cycle
           revision == ledger[c].revision + 1
           range == ApprovedRange(c, revision)
           version ==
              [cycle |-> c, revision |-> revision, manifest |-> request[c].manifest,
               headRevision |-> head.revision + 1, from |-> range.from,
               through |-> range.through,
               prior |-> IF head.exists THEN head ELSE NoAuthority(0)]
<1>1. cmd \in CommandType /\ c \in Cycles /\ request[c] \in RequestType
      /\ ledger[c] \in LedgerType /\ head \in HeadType
  BY DEF TypeOK, CommandType
<1>2. request[c].manifest \in ManifestType /\ revision \in Nat /\ head.revision + 1 \in Nat
  BY <1>1 DEF RequestType, LedgerType, HeadType
<1>3. range \in RangeType
  BY <1>1, <1>2, RangeTyped
<1>4. coordinator' \in CoordinatorType /\ coordinator'.workflowRevision \in Nat
  <2>1. coordinator' \in CoordinatorType
    BY <1>1, CoordinatorTyped DEF TypeOK, Approve
  <2> QED
    BY <2>1 DEF CoordinatorType
<1>5. request' \in [Cycles -> RequestType]
  <2> DEFINE approved == [request[c] EXCEPT !.status = "APPROVED",
                             !.workflow = coordinator'.workflowRevision,
                             !.ledger = cmd.ledger + 1, !.version = revision]
  <2>1. cmd.ledger + 1 \in Nat
    BY <1>1 DEF CommandType
  <2>2. approved \in RequestType
    BY <1>1, <1>2, <1>4, <2>1 DEF RequestType, RequestStatus
  <2>3. request' = [request EXCEPT ![c] = approved]
    BY <1>1 DEF Approve, TypeOK
  <2> HIDE DEF approved
  <2> QED
    BY <2>2, <2>3 DEF TypeOK
<1>6. ledger' \in [Cycles -> LedgerType]
  BY <1>1, <1>2 DEF Approve, TypeOK, LedgerType, LedgerStatus
<1>7. version \in VersionType /\ versions' = versions \cup {version}
  <2>1. NoAuthority(0) \in HeadType
    BY NoAuthorityTyped
  <2>2. range.from \in Nat /\ range.through \in Nat
    BY <1>3 DEF RangeType
  <2>3. version \in VersionType
    BY <1>1, <1>2, <2>1, <2>2 DEF VersionType
  <2> QED
    BY <2>3 DEF Approve
<1>8. head' \in HeadType
  <2>1. head.ranges \in Seq(RangeType)
    BY <1>1 DEF HeadType
  <2>2. Append(head.ranges, range) \in Seq(RangeType)
    BY <2>1, <1>3
  <2>3. Target(c) \in Nat \cup {NoMonth}
    BY <1>1, CycleIsNat DEF Target
  <2> HIDE DEF range
  <2>4. [exists |-> TRUE, closedThrough |-> Target(c), manifest |-> request[c].manifest,
         revision |-> head.revision + 1, ranges |-> Append(head.ranges, range)] \in HeadType
    BY <1>2, <2>2, <2>3 DEF HeadType
  <2> QED
    BY <2>4 DEF Approve, range
<1>9. month' \in [Cycles -> {"WAITING_FOR_UPDATE", "SUBMITTED", "LOCKED"}]
  BY <1>1 DEF Approve, TypeOK
<1>10. UNCHANGED <<project, weeks, sheet, shards, inflight>>
  BY DEF Approve
<1> HIDE DEF version
<1> QED
  BY <1>4, <1>5, <1>6, <1>7, <1>8, <1>9, <1>10 DEF TypeOK

LEMMA TypeRequestReopen ==
    ASSUME TypeOK, NEW cmd \in inflight, RequestReopen(cmd)
    PROVE  TypeOK'
<1> DEFINE c == cmd.cycle
<1>1. cmd \in CommandType /\ c \in Cycles /\ request[c] \in RequestType
      /\ ledger[c] \in LedgerType
  BY DEF TypeOK, CommandType
<1>2. coordinator' \in CoordinatorType
  BY <1>1, CoordinatorTyped DEF TypeOK, RequestReopen
<1>3. ledger' \in [Cycles -> LedgerType]
  BY <1>1 DEF RequestReopen, TypeOK, LedgerType, LedgerStatus
<1>4. coordinator'.workflowRevision \in Nat /\ ledger'[c].revision \in Nat
  BY <1>1, <1>2, <1>3 DEF CoordinatorType, LedgerType
<1>5. request' \in [Cycles -> RequestType]
  BY <1>1, <1>4 DEF RequestReopen, TypeOK, RequestType, RequestStatus
<1> QED
  BY <1>2, <1>3, <1>5 DEF RequestReopen, TypeOK

LEMMA TypeDecideReopen ==
    ASSUME TypeOK, NEW cmd \in inflight, ApproveReopen(cmd) \/ RejectReopen(cmd)
    PROVE  TypeOK'
<1> DEFINE c == cmd.cycle
<1>1. cmd \in CommandType /\ c \in Cycles /\ request[c] \in RequestType
      /\ ledger[c] \in LedgerType
  BY DEF TypeOK, CommandType
<1>2. PICK approved \in BOOLEAN : DecideReopen(cmd, approved)
  BY DEF ApproveReopen, RejectReopen
<1>3. coordinator' \in CoordinatorType
  BY <1>1, <1>2, CoordinatorTyped DEF TypeOK, DecideReopen
<1>4. ledger' \in [Cycles -> LedgerType]
  BY <1>1, <1>2 DEF DecideReopen, TypeOK, LedgerType, LedgerStatus
<1>5. coordinator'.workflowRevision \in Nat /\ ledger'[c].revision \in Nat
  BY <1>1, <1>3, <1>4 DEF CoordinatorType, LedgerType
<1>6. request' \in [Cycles -> RequestType]
  BY <1>1, <1>2, <1>5 DEF DecideReopen, TypeOK, RequestType, RequestStatus
<1>7. head' \in HeadType
  BY RestoredTyped, ZenonT(40) DEF ApproveReopen, RejectReopen, RestorationEvidence, TypeOK
<1>8. month' \in [Cycles -> {"WAITING_FOR_UPDATE", "SUBMITTED", "LOCKED"}]
  BY <1>1 DEF ApproveReopen, RejectReopen, TypeOK
<1>9. weeks' \in [TrackedMonths -> {"OPEN", "SUBMITTED", "LOCKED"}]
  BY DEF ApproveReopen, RejectReopen, TypeOK
<1>10. UNCHANGED <<project, versions, sheet, shards, inflight>>
  BY <1>2 DEF DecideReopen
<1> QED
  BY <1>3, <1>4, <1>6, <1>7, <1>8, <1>9, <1>10 DEF TypeOK

\* A command on a week writes the completion of that week and nothing else.
LEMMA WeekStepSets ==
    ASSUME NEW a, NEW m, WeekStep(a, m)
    PROVE  /\ \E status \in {"OPEN", "SUBMITTED", "LOCKED"} :
                 weeks' = [weeks EXCEPT ![m] = status]
           /\ UNCHANGED <<project, coordinator, request, month, ledger, versions, head,
                          sheet, shards, inflight>>
BY DEF WeekStep, CompleteWeek, ConfirmWeek, ApproveWeek, ReopenWeek, SetWeek

\* An amendment raises the number of one ledger, whose month the head locks.
Amended ==
    \A c \in Cycles :
        /\ ledger'[c].status = ledger[c].status /\ ledger'[c].latest = ledger[c].latest
        /\ ledger'[c].revision >= ledger[c].revision
        /\ ledger'[c] = ledger[c] \/ IsLocked(c)

LEMMA AmendMonthAmends ==
    ASSUME TypeOK, NEW m \in Cycles, AmendMonth(m)
    PROVE  Amended /\ ledger' \in [Cycles -> LedgerType]
<1> DEFINE amended == [ledger[m] EXCEPT !.revision = @ + 1]
<1>1. ledger \in [Cycles -> LedgerType] /\ \A c \in Cycles : ledger[c] \in LedgerType
  BY DEF TypeOK
<1>2. \A c \in Cycles : ledger[c].revision \in Nat
  BY <1>1 DEF LedgerType
<1>3. /\ amended \in LedgerType /\ amended.status = ledger[m].status
      /\ amended.latest = ledger[m].latest /\ amended.revision >= ledger[m].revision
  BY <1>1, <1>2 DEF LedgerType
<1>4. ledger' = [ledger EXCEPT ![m] = amended] /\ IsLocked(m)
  BY DEF AmendMonth
<1> HIDE DEF amended
<1>5. ledger' \in [Cycles -> LedgerType]
  BY <1>1, <1>3, <1>4
<1>6. ledger'[m] = amended /\ \A c \in Cycles \ {m} : ledger'[c] = ledger[c]
  BY <1>1, <1>4
<1>7. Amended
  BY <1>2, <1>3, <1>4, <1>6 DEF Amended
<1> QED
  BY <1>5, <1>7

LEMMA TypeStep == TypeOK /\ [Next]_vars => TypeOK'
<1> SUFFICES ASSUME TypeOK, [Next]_vars PROVE TypeOK'
  OBVIOUS
<1>1. ASSUME NEW a \in Members, NEW c \in Cycles, Prepare(a, c) PROVE TypeOK'
  BY <1>1, TypePrepare
<1>2. ASSUME NEW cmd \in inflight, StageSubmit(cmd) PROVE TypeOK'
  BY <1>2, TypeStage
<1>3. ASSUME NEW cmd \in inflight, Execute(cmd) PROVE TypeOK'
  BY <1>3, TypeSubmit, TypeTransition, TypeApprove, TypeRequestReopen, TypeDecideReopen
  DEF Execute
<1>4. ASSUME NEW cmd \in inflight, Lose(cmd) PROVE TypeOK'
  BY <1>4 DEF Lose, TypeOK, docs
<1>5. ASSUME NEW source \in Sources, EditSheet(source) PROVE TypeOK'
  BY <1>5 DEF EditSheet, TypeOK
<1>6. ASSUME NEW a \in Members, ChangeApprover(a) \/ ApproveProjectChange(a) PROVE TypeOK'
  BY <1>6 DEF ChangeApprover, ApproveProjectChange, TypeOK
<1>7. ASSUME NEW m \in Cycles, AmendMonth(m) PROVE TypeOK'
  <2>1. ledger' \in [Cycles -> LedgerType]
    BY <1>7, AmendMonthAmends
  <2> QED
    BY <1>7, <2>1 DEF AmendMonth, TypeOK
<1>8. ASSUME NEW a \in Members, NEW m \in TrackedMonths, WeekStep(a, m) PROVE TypeOK'
  BY <1>8, WeekStepSets DEF TypeOK
<1>9. CASE UNCHANGED vars
  BY <1>9 DEF vars, TypeOK
<1> QED
  BY <1>1, <1>2, <1>3, <1>4, <1>5, <1>6, <1>7, <1>8, <1>9 DEF Next

\* The documents and the commands keep their shapes, whatever the interleaving.
THEOREM TypeCorrect == Spec => []TypeOK
BY TypeInit, TypeStep, PTL DEF Spec

-----------------------------------------------------------------------------
(***************************************************************************)
(* Agreement of the documents.  Every command rewrites the documents of    *)
(* one cycle, which is the one under way if any is; what it leaves behind  *)
(* is described once, and each handler is shown to be of that form.        *)
(***************************************************************************)
\* The command of cycle c moves the workflow on by one, alone.
Moves(c) ==
    /\ coordinator.activeState = "INACTIVE" \/ coordinator.activeCycle = c
    /\ coordinator'.workflowRevision = coordinator.workflowRevision + 1
    /\ \A d \in Cycles \ {c} :
          request'[d] = request[d] /\ month'[d] = month[d] /\ ledger'[d] = ledger[d]

\* What it writes for its own cycle fits together.
Fits(c) ==
    /\ request'[c].workflow = coordinator'.workflowRevision
    /\ month'[c] = MonthOf(request'[c].status)
    /\ ledger'[c].status = LedgerOf(request'[c].status)
    /\ IF request'[c].status \in ActiveStates
       THEN coordinator'.activeCycle = c /\ coordinator'.activeState = request'[c].status
       ELSE coordinator'.activeCycle = NoCycle /\ coordinator'.activeState = "INACTIVE"

LEMMA MovedDocumentsAgree ==
    ASSUME TypeOK, DocumentsAgree, NEW c \in Cycles, Moves(c), Fits(c)
    PROVE  DocumentsAgree'
<1>1. coordinator.workflowRevision \in Nat /\ \A d \in Cycles : request[d].workflow \in Nat
  BY DEF TypeOK, CoordinatorType, RequestType
<1>2. \A d \in Cycles \ {c} : request[d].status \notin ActiveStates
  BY DEF DocumentsAgree, Matches, Moves, ActiveStates
<1>3. SUFFICES ASSUME NEW d \in Cycles
      PROVE  (/\ request[d].workflow <= coordinator.workflowRevision
              /\ request[d].status \in ActiveStates =>
                    Matches(coordinator, d, request[d].status, request[d].workflow)
              /\ coordinator.activeCycle = d => request[d].status = coordinator.activeState
              /\ month[d] = MonthOf(request[d].status)
              /\ ledger[d].status = LedgerOf(request[d].status))'
  BY DEF DocumentsAgree
<1>4. CASE d = c
  <2>1. request'[c].workflow <= coordinator'.workflowRevision
    BY <1>1 DEF Moves, Fits
  <2>2. NoCycle # c
    BY CyclesAssumption DEF NoCycle
  <2> QED
    BY <1>4, <2>1, <2>2 DEF Fits, Matches, MonthOf, LedgerOf
<1>5. CASE d # c
  <2>1. request'[d] = request[d] /\ month'[d] = month[d] /\ ledger'[d] = ledger[d]
    BY <1>5 DEF Moves
  <2>2. request[d].workflow <= coordinator.workflowRevision + 1
    BY <1>1 DEF DocumentsAgree
  <2>3. coordinator'.activeCycle # d
    BY <1>5, CyclesAssumption DEF Fits, NoCycle
  <2> QED
    BY <1>2, <1>5, <2>1, <2>2, <2>3 DEF DocumentsAgree, Moves, MonthOf, LedgerOf
<1> QED
  BY <1>4, <1>5

\* A submission starts a cycle or resumes the reopened one.
LEMMA SubmitMoves ==
    ASSUME TypeOK, DocumentsAgree, NEW cmd \in inflight, Submit(cmd)
    PROVE  cmd.cycle \in Cycles /\ Moves(cmd.cycle) /\ Fits(cmd.cycle)
<1> DEFINE c == cmd.cycle
<1>1. c \in Cycles /\ request \in [Cycles -> RequestType] /\ month \in [Cycles -> {"WAITING_FOR_UPDATE", "SUBMITTED", "LOCKED"}]
      /\ coordinator \in CoordinatorType
  BY DEF TypeOK, CommandType
<1>2. /\ coordinator.activeState = "INACTIVE" \/ coordinator.activeCycle = c
      /\ coordinator' = Active(c, "PENDING_APPROVAL", coordinator.workflowRevision + 1)
  BY DEF Submit, AcceptsSubmit, NextCoordinatorOfSubmit, CanResubmit, CanSubmit, CanStart, Matches,
         AfterSubmit, AfterResubmit
<1>3. /\ request'[c].status = "PENDING_APPROVAL"
      /\ request'[c].workflow = coordinator'.workflowRevision
      /\ month'[c] = "SUBMITTED" /\ ledger' = ledger
  BY <1>1 DEF Submit
<1>4. ledger[c].status = "OPEN"
  BY <1>1 DEF DocumentsAgree, LedgerOf, Submit, AcceptsSubmit
<1>5. \A d \in Cycles \ {c} : request'[d] = request[d] /\ month'[d] = month[d]
  BY <1>1 DEF Submit
<1> QED
  BY <1>1, <1>2, <1>3, <1>4, <1>5 DEF Moves, Fits, Active, MonthOf, LedgerOf, ActiveStates

\* A review, a recovery and an approval end the cycle under way.
LEMMA FinishMoves ==
    ASSUME TypeOK, DocumentsAgree, NEW cmd \in inflight,
           Transition(cmd) \/ Cancel(cmd) \/ Approve(cmd)
    PROVE  cmd.cycle \in Cycles /\ Moves(cmd.cycle) /\ Fits(cmd.cycle)
<1> DEFINE c == cmd.cycle
<1>1. /\ c \in Cycles /\ request \in [Cycles -> RequestType]
      /\ month \in [Cycles -> {"WAITING_FOR_UPDATE", "SUBMITTED", "LOCKED"}]
      /\ ledger \in [Cycles -> LedgerType] /\ ledger[c] \in LedgerType
  BY DEF TypeOK, CommandType
<1>2. /\ coordinator.activeCycle = c
      /\ coordinator' = Inactive(coordinator.workflowRevision + 1)
  BY DEF Transition, AcceptsTransition, Cancel, AcceptsCancel, Approve, AcceptsApprove,
         CanFinishReview, CanCancelActive, Matches, AfterFinishReview, AfterCancelActive
<1>3. ASSUME Transition(cmd) \/ Cancel(cmd) PROVE Moves(c) /\ Fits(c)
  <2>1. /\ request'[c].status \in {"WITHDRAWN", "REJECTED"}
        /\ request'[c].workflow = coordinator'.workflowRevision
        /\ month'[c] = "WAITING_FOR_UPDATE" /\ ledger' = ledger
    <3>1. CASE Transition(cmd)
      <4> DEFINE status == IF cmd.kind = "WITHDRAW" THEN "WITHDRAWN" ELSE "REJECTED"
                 ended == [request[c] EXCEPT !.status = status,
                                             !.workflow = coordinator'.workflowRevision]
      <4>1. request' = [request EXCEPT ![c] = ended]
        BY <1>1, <3>1 DEF Transition
      <4>2. ended.status = status /\ ended.workflow = coordinator'.workflowRevision
        BY <1>1 DEF RequestType
      <4>3. status \in {"WITHDRAWN", "REJECTED"}
        OBVIOUS
      <4> HIDE DEF ended, status
      <4>4. request'[c] = ended
        BY <1>1, <4>1
      <4>5. month'[c] = "WAITING_FOR_UPDATE" /\ ledger' = ledger
        BY <1>1, <3>1 DEF Transition
      <4> QED
        BY <4>2, <4>3, <4>4, <4>5
    <3>2. CASE Cancel(cmd)
      BY <1>1, <3>2 DEF Cancel
    <3> QED
      BY <1>3, <3>1, <3>2
  <2>2. ledger[c].status = "OPEN"
    BY <1>1, <1>3 DEF DocumentsAgree, LedgerOf, Transition, AcceptsTransition, Cancel, AcceptsCancel
  <2>3. \A d \in Cycles \ {c} : request'[d] = request[d] /\ month'[d] = month[d]
    BY <1>1, <1>3 DEF Transition, Cancel
  <2> QED
    BY <1>2, <2>1, <2>2, <2>3 DEF Moves, Fits, Inactive, MonthOf, LedgerOf, ActiveStates
<1>4. ASSUME Approve(cmd) PROVE Moves(c) /\ Fits(c)
  <2>1. /\ request'[c].status = "APPROVED"
        /\ request'[c].workflow = coordinator'.workflowRevision
        /\ month'[c] = "LOCKED" /\ ledger'[c].status = "CLOSED"
    BY <1>1, <1>4 DEF Approve
  <2>2. \A d \in Cycles \ {c} :
           request'[d] = request[d] /\ month'[d] = month[d] /\ ledger'[d] = ledger[d]
    BY <1>1, <1>4 DEF Approve
  <2> QED
    BY <1>2, <2>1, <2>2 DEF Moves, Fits, Inactive, MonthOf, LedgerOf, ActiveStates
<1> QED
  BY <1>1, <1>3, <1>4

\* A reopening is asked for while nothing is under way, and decided on the cycle
\* that asked.
LEMMA ReopenMoves ==
    ASSUME TypeOK, DocumentsAgree, NEW cmd \in inflight,
           RequestReopen(cmd) \/ ApproveReopen(cmd) \/ RejectReopen(cmd)
    PROVE  cmd.cycle \in Cycles /\ Moves(cmd.cycle) /\ Fits(cmd.cycle)
<1> DEFINE c == cmd.cycle
<1>1. /\ c \in Cycles /\ request \in [Cycles -> RequestType]
      /\ month \in [Cycles -> {"WAITING_FOR_UPDATE", "SUBMITTED", "LOCKED"}]
      /\ ledger \in [Cycles -> LedgerType] /\ ledger[c] \in LedgerType
  BY DEF TypeOK, CommandType
<1>2. ASSUME RequestReopen(cmd) PROVE Moves(c) /\ Fits(c)
  <2>1. /\ coordinator.activeState = "INACTIVE"
        /\ coordinator' = Active(c, "REOPEN_REQUESTED", coordinator.workflowRevision + 1)
    BY <1>2 DEF RequestReopen, AcceptsReopenRequest, CanRequestReopen, CanStart,
                AfterRequestReopen
  <2>2. /\ request'[c].status = "REOPEN_REQUESTED"
        /\ request'[c].workflow = coordinator'.workflowRevision
        /\ ledger'[c].status = "REOPEN_REQUESTED" /\ month' = month
    BY <1>1, <1>2 DEF RequestReopen
  <2>3. month[c] = "LOCKED"
    BY <1>2 DEF RequestReopen, AcceptsReopenRequest, ReopensHorizon
  <2>4. \A d \in Cycles \ {c} : request'[d] = request[d] /\ ledger'[d] = ledger[d]
    BY <1>1, <1>2 DEF RequestReopen
  <2> QED
    BY <2>1, <2>2, <2>3, <2>4 DEF Moves, Fits, Active, MonthOf, LedgerOf, ActiveStates
<1>3. ASSUME NEW approved \in BOOLEAN, DecideReopen(cmd, approved)
      PROVE  /\ coordinator.activeCycle = c
             /\ coordinator' = AfterDecideReopen(coordinator, approved)
             /\ request'[c].status = IF approved THEN "REOPENED" ELSE "APPROVED"
             /\ request'[c].workflow = coordinator'.workflowRevision
             /\ ledger'[c].status = IF approved THEN "OPEN" ELSE "CLOSED"
             /\ \A d \in Cycles \ {c} : request'[d] = request[d] /\ ledger'[d] = ledger[d]
  <2> DEFINE status == IF approved THEN "REOPENED" ELSE "APPROVED"
             decided == [request[c] EXCEPT !.status = status,
                                           !.workflow = coordinator'.workflowRevision,
                                           !.ledger = ledger'[c].revision]
  <2>1. decided.status = status /\ decided.workflow = coordinator'.workflowRevision
    BY <1>1 DEF RequestType
  <2>2. request' = [request EXCEPT ![c] = decided]
    <3>1. request' = [request EXCEPT
              ![c].status = IF approved THEN "REOPENED" ELSE "APPROVED",
              ![c].workflow = coordinator'.workflowRevision,
              ![c].ledger = ledger'[c].revision]
      BY <1>3, Zenon DEF DecideReopen
    <3> QED
      BY <1>1, <3>1
  <2> HIDE DEF decided
  <2>3. request'[c] = decided /\ \A d \in Cycles \ {c} : request'[d] = request[d]
    BY <1>1, <2>2
  <2> DEFINE outcome == IF approved THEN "OPEN" ELSE "CLOSED"
             closing == [ledger[c] EXCEPT !.status = outcome, !.revision = @ + 1]
  <2>4. /\ ledger'[c].status = outcome
        /\ \A d \in Cycles \ {c} : ledger'[d] = ledger[d]
    <3>1. ledger' = [ledger EXCEPT ![c] = closing]
      BY <1>1, <1>3 DEF DecideReopen
    <3>2. closing.status = outcome
      BY <1>1 DEF LedgerType
    <3> HIDE DEF closing, outcome
    <3> QED
      BY <1>1, <3>1, <3>2
  <2>5. coordinator.activeCycle = c /\ coordinator' = AfterDecideReopen(coordinator, approved)
    BY <1>3 DEF DecideReopen, AcceptsReopenDecision, CanDecideReopen, Matches
  <2> QED
    BY <2>1, <2>3, <2>4, <2>5
<1>4. ASSUME ApproveReopen(cmd) PROVE Moves(c) /\ Fits(c)
  <2>1. DecideReopen(cmd, TRUE)
    BY <1>4 DEF ApproveReopen
  <2>2. month'[c] = "WAITING_FOR_UPDATE" /\ \A d \in Cycles \ {c} : month'[d] = month[d]
    BY <1>1, <1>4 DEF ApproveReopen
  <2>3. coordinator' = Active(c, "REOPENED", coordinator.workflowRevision + 1)
    BY <1>3, <2>1 DEF AfterDecideReopen
  <2> QED
    BY <1>3, <2>1, <2>2, <2>3 DEF Moves, Fits, Active, MonthOf, LedgerOf, ActiveStates
<1>5. ASSUME RejectReopen(cmd) PROVE Moves(c) /\ Fits(c)
  <2>1. DecideReopen(cmd, FALSE)
    BY <1>5 DEF RejectReopen
  <2>2. month' = month /\ month[c] = "LOCKED"
    BY <1>5 DEF RejectReopen, DecideReopen, AcceptsReopenDecision, ReopensHorizon
  <2>3. coordinator' = Inactive(coordinator.workflowRevision + 1)
    BY <1>3, <2>1 DEF AfterDecideReopen
  <2> QED
    BY <1>3, <2>1, <2>2, <2>3 DEF Moves, Fits, Inactive, MonthOf, LedgerOf, ActiveStates
<1> QED
  BY <1>1, <1>2, <1>4, <1>5

LEMMA ExecuteMoves ==
    ASSUME TypeOK, DocumentsAgree, NEW cmd \in inflight, Execute(cmd)
    PROVE  cmd.cycle \in Cycles /\ Moves(cmd.cycle) /\ Fits(cmd.cycle)
BY SubmitMoves, FinishMoves, ReopenMoves DEF Execute

\* Nothing but an executed command writes the documents of a cycle, apart from the
\* number of its ledger, which an amendment raises.
CycleDocuments == <<coordinator, request, month>>

LEMMA OthersLeaveDocuments ==
    ASSUME TypeOK, [Next]_vars, \A cmd \in inflight : ~Execute(cmd)
    PROVE  UNCHANGED CycleDocuments /\ Amended
<1>0. ledger' = ledger => Amended
  BY DEF Amended, TypeOK, LedgerType
<1>1. ASSUME NEW a \in Members, NEW c \in Cycles, Prepare(a, c)
      PROVE  UNCHANGED CycleDocuments /\ ledger' = ledger
  BY <1>1 DEF CycleDocuments, Prepare, PrepareSubmit, PrepareTransition, PrepareCancel,
              PrepareApprove, PrepareReopenRequest, PrepareReopenDecision, docs
<1>2. ASSUME NEW cmd \in inflight, StageSubmit(cmd) \/ Lose(cmd)
      PROVE  UNCHANGED CycleDocuments /\ ledger' = ledger
  BY <1>2 DEF CycleDocuments, StageSubmit, Lose, docs
<1>3. ASSUME NEW source \in Sources, EditSheet(source)
      PROVE  UNCHANGED CycleDocuments /\ ledger' = ledger
  BY <1>3 DEF CycleDocuments, EditSheet
<1>4. ASSUME NEW a \in Members, ChangeApprover(a) \/ ApproveProjectChange(a)
      PROVE  UNCHANGED CycleDocuments /\ ledger' = ledger
  BY <1>4 DEF CycleDocuments, ChangeApprover, ApproveProjectChange
<1>5. ASSUME NEW a \in Members, NEW m \in TrackedMonths, WeekStep(a, m)
      PROVE  UNCHANGED CycleDocuments /\ ledger' = ledger
  BY <1>5, WeekStepSets DEF CycleDocuments
<1>6. ASSUME NEW m \in Cycles, AmendMonth(m) PROVE UNCHANGED CycleDocuments /\ Amended
  BY <1>6, AmendMonthAmends DEF CycleDocuments, AmendMonth
<1>7. CASE UNCHANGED vars
  BY <1>0, <1>7 DEF CycleDocuments, vars
<1> QED
  BY <1>0, <1>1, <1>2, <1>3, <1>4, <1>5, <1>6, <1>7 DEF Next

LEMMA DocumentsInit == Init => DocumentsAgree
BY CyclesAssumption DEF Init, DocumentsAgree, NoRequest, OpenLedger, Inactive, Matches, MonthOf,
   LedgerOf, ActiveStates, NoCycle

LEMMA DocumentsStep == TypeOK /\ DocumentsAgree /\ [Next]_vars => DocumentsAgree'
<1> SUFFICES ASSUME TypeOK, DocumentsAgree, [Next]_vars PROVE DocumentsAgree'
  OBVIOUS
<1>1. CASE \E cmd \in inflight : Execute(cmd)
  BY <1>1, ExecuteMoves, MovedDocumentsAgree
<1>2. CASE \A cmd \in inflight : ~Execute(cmd)
  <2>1. UNCHANGED CycleDocuments /\ Amended
    BY <1>2, OthersLeaveDocuments
  <2> QED
    BY <2>1 DEF CycleDocuments, Amended, DocumentsAgree
<1> QED
  BY <1>1, <1>2

\* Whatever order commands arrive in, and however often, the coordinator, the
\* request, the MONTH period and the ledger of every cycle agree.
THEOREM DocumentsAlwaysAgree == Spec => []DocumentsAgree
<1>1. Init => TypeOK /\ DocumentsAgree
  BY TypeInit, DocumentsInit
<1>2. TypeOK /\ DocumentsAgree /\ [Next]_vars => (TypeOK /\ DocumentsAgree)'
  BY TypeStep, DocumentsStep
<1> QED
  BY <1>1, <1>2, PTL DEF Spec

-----------------------------------------------------------------------------
(***************************************************************************)
(* Stale commands.  Every handler but the approval compares the command's  *)
(* workflow revision with the coordinator's, which only grows.             *)
(***************************************************************************)
LEMMA AcceptedAtItsRevision ==
    ASSUME NEW CONSTANT cmd, Accepts(cmd)', cmd.kind # "APPROVE"
    PROVE  cmd.workflow = coordinator'.workflowRevision
<1>1. cmd.kind \in CommandKinds \ {"STAGE", "APPROVE"}
  BY DEF Accepts, CommandKinds
<1>2. CASE cmd.kind = "SUBMIT"
  BY <1>2 DEF Accepts, AcceptsSubmit, CanResubmit, CanSubmit, CanStart, Matches
<1>3. CASE cmd.kind \in {"WITHDRAW", "REJECT"}
  BY <1>3 DEF Accepts, AcceptsTransition, CanFinishReview, Matches
<1>4. CASE cmd.kind = "CANCEL"
  BY <1>4 DEF Accepts, AcceptsCancel, CanCancelActive, Matches
<1>5. CASE cmd.kind = "REQUEST_REOPEN"
  BY <1>5 DEF Accepts, AcceptsReopenRequest, CanRequestReopen, CanStart
<1>6. CASE cmd.kind \in {"APPROVE_REOPEN", "REJECT_REOPEN"}
  BY <1>6 DEF Accepts, AcceptsReopenDecision, CanDecideReopen, Matches
<1> QED
  BY <1>1, <1>2, <1>3, <1>4, <1>5, <1>6 DEF CommandKinds

LEMMA RefusedAfterMove ==
    ASSUME TypeOK, TypeOK', [Next]_vars, DocumentsAgree, coordinator' # coordinator,
           NEW CONSTANT cmd \in inflight, cmd.kind # "APPROVE",
           cmd.workflow <= coordinator.workflowRevision
    PROVE  ~Accepts(cmd)'
<1>1. PICK executed \in inflight : Execute(executed)
  BY OthersLeaveDocuments DEF CycleDocuments
<1>2. coordinator'.workflowRevision = coordinator.workflowRevision + 1
  BY <1>1, ExecuteMoves DEF Moves
<1>3. cmd.workflow \in Nat /\ coordinator.workflowRevision \in Nat
  BY DEF TypeOK, CommandType, CoordinatorType
<1>4. cmd.workflow # coordinator'.workflowRevision
  BY <1>2, <1>3
<1>5. Accepts(cmd)' => cmd.workflow = coordinator'.workflowRevision
  BY AcceptedAtItsRevision
<1> QED
  BY <1>4, <1>5

\* A command prepared before another one took effect is refused for ever after;
\* only an approval can take effect on what its sender did not see.
THEOREM StaleAlwaysRefused == Spec => StaleIsRefused
<1>1. Init => TypeOK /\ DocumentsAgree
  BY TypeInit, DocumentsInit
<1>2. TypeOK /\ DocumentsAgree /\ [Next]_vars => (TypeOK /\ DocumentsAgree)'
  BY TypeStep, DocumentsStep
<1> DEFINE Refused ==
      coordinator' # coordinator =>
          \A cmd \in inflight :
              cmd.kind # "APPROVE" /\ cmd.workflow <= coordinator.workflowRevision =>
                  ~Accepts(cmd)'
<1>3. TypeOK /\ DocumentsAgree /\ TypeOK' /\ [Next]_vars => [Refused]_vars
  BY RefusedAfterMove
<1> QED
  BY <1>1, <1>2, <1>3, PTL DEF Spec, StaleIsRefused
=============================================================================

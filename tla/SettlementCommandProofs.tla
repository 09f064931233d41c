----------------------- MODULE SettlementCommandProofs -----------------------
(***************************************************************************)
(* What commands, interleaved in any way, leave of month settlement: none  *)
(* is offered that would be refused, no cycle is stuck, a screen shows     *)
(* INCONSISTENT for known reasons only, and the handlers together do what  *)
(* the abstract authority allows.                                          *)
(***************************************************************************)
EXTENDS SettlementAuthorityProofs, SequenceTheorems

-----------------------------------------------------------------------------
(***************************************************************************)
(* What the next command rests on.  A reopening under way can be decided;  *)
(* a cycle under review or reopened is not closed by another one; and a    *)
(* submission prepared at the present revision is of such a cycle, since   *)
(* whatever moves the head moves the revision too.                         *)
(***************************************************************************)
Reopenable ==
    \A c \in Cycles : request[c].status = "REOPEN_REQUESTED" =>
        /\ RestorationEvidence(c) # {}
        /\ c = head.closedThrough + 1
        /\ request[c].ledger = ledger[c].revision

Outdated ==
    \A c \in Cycles : coordinator.activeState # "INACTIVE" /\ coordinator.activeCycle # c =>
        request[c].workflow < coordinator.workflowRevision

Uncovered ==
    \A c \in Cycles :
        request[c].status \in {"PENDING_APPROVAL", "REOPENED"} => ~ClaimsTarget(c)

Prepared ==
    \A cmd \in inflight :
        /\ cmd.workflow <= coordinator.workflowRevision
        /\ cmd.kind \in {"STAGE", "SUBMIT"} /\ cmd.workflow = coordinator.workflowRevision =>
              ~ClaimsTarget(cmd.cycle)

\* A command leaves no other cycle under way.
LEMMA OthersRest ==
    ASSUME TypeOK, DocumentsAgree, NEW cmd \in inflight, Execute(cmd),
           NEW c \in Cycles, c # cmd.cycle
    PROVE  request[c].status \notin ActiveStates /\ request'[c] = request[c]
<1>1. Moves(cmd.cycle)
  BY ExecuteMoves
<1> QED
  BY <1>1 DEF Moves, DocumentsAgree, Matches, ActiveStates

\* The status a command leaves its own cycle in.
LEMMA StatusAfter ==
    ASSUME TypeOK, NEW cmd \in inflight
    PROVE  LET status == request'[cmd.cycle].status IN
           /\ Submit(cmd) => status = "PENDING_APPROVAL"
           /\ Transition(cmd) \/ Cancel(cmd) => status \in {"WITHDRAWN", "REJECTED"}
           /\ Approve(cmd) \/ RejectReopen(cmd) => status = "APPROVED"
           /\ ApproveReopen(cmd) => status = "REOPENED"
<1>1. ApproveReopen(cmd) => request'[cmd.cycle].status = "REOPENED"
  BY DecisionFields DEF ApproveReopen
<1>2. RejectReopen(cmd) => request'[cmd.cycle].status = "APPROVED"
  BY DecisionFields DEF RejectReopen
<1> QED
  BY <1>1, <1>2, SubmitFields, FinishFields, ApprovalFields

LEMMA ReopenableStep ==
    TypeOK /\ DocumentsAgree /\ Reopenable /\ [Next]_vars => Reopenable'
<1> SUFFICES ASSUME TypeOK, DocumentsAgree, Reopenable, [Next]_vars,
                    NEW c \in Cycles, request'[c].status = "REOPEN_REQUESTED"
             PROVE  (/\ RestorationEvidence(c) # {}
                     /\ c = head.closedThrough + 1
                     /\ request[c].ledger = ledger[c].revision)'
  BY DEF Reopenable
<1>1. CASE \A cmd \in inflight : ~Execute(cmd)
  <2>1. UNCHANGED CycleDocuments /\ Amended /\ UNCHANGED <<head, versions>>
    BY <1>1, OthersLeaveDocuments, HeadOnlyMovesBy DEF Execute
  <2>2. /\ RestorationEvidence(c) # {} /\ c = head.closedThrough + 1
        /\ request[c].ledger = ledger[c].revision
    BY <2>1 DEF CycleDocuments, Reopenable
  <2>3. RestorationEvidence(c)' = RestorationEvidence(c)
    BY <2>1 DEF Amended, RestorationEvidence
  <2>4. ledger'[c] = ledger[c]
    <3>1. ~(c <= head.closedThrough)
      BY <2>2 DEF TypeOK, HeadType, NoMonth
    <3> QED
      BY <2>1, <3>1 DEF Amended, IsLocked
  <2> QED
    BY <2>1, <2>2, <2>3, <2>4 DEF CycleDocuments
<1>2. ASSUME NEW cmd \in inflight, Execute(cmd)
      PROVE  (/\ RestorationEvidence(c) # {}
              /\ c = head.closedThrough + 1
              /\ request[c].ledger = ledger[c].revision)'
  <2>1. c = cmd.cycle
    BY <1>2, OthersRest DEF ActiveStates
  <2>2. RequestReopen(cmd)
    BY <1>2, <2>1, StatusAfter DEF Execute
  <2>3. /\ UNCHANGED <<head, versions>> /\ RestorationEvidence(c) # {}
        /\ c = head.closedThrough + 1
    BY <2>1, <2>2 DEF RequestReopen, AcceptsReopenRequest, ReopensHorizon
  <2>4. Keeps(c)
    BY <2>1, <2>2, ClosedStaysClosed
  <2> QED
    BY <2>3, <2>4 DEF Keeps, RestorationEvidence
<1> QED
  BY <1>1, <1>2

LEMMA OutdatedStep ==
    TypeOK /\ DocumentsAgree /\ Outdated /\ [Next]_vars => Outdated'
<1> SUFFICES ASSUME TypeOK, DocumentsAgree, Outdated, [Next]_vars, NEW c \in Cycles,
                    coordinator'.activeState # "INACTIVE", coordinator'.activeCycle # c
             PROVE  request'[c].workflow < coordinator'.workflowRevision
  BY DEF Outdated
<1>1. CASE \A cmd \in inflight : ~Execute(cmd)
  BY <1>1, OthersLeaveDocuments DEF CycleDocuments, Outdated
<1>2. ASSUME NEW cmd \in inflight, Execute(cmd)
      PROVE  request'[c].workflow < coordinator'.workflowRevision
  <2>1. cmd.cycle \in Cycles /\ Moves(cmd.cycle) /\ Fits(cmd.cycle)
    BY <1>2, ExecuteMoves
  <2>2. c # cmd.cycle
    BY <2>1 DEF Fits
  <2>3. request[c].workflow \in Nat /\ coordinator.workflowRevision \in Nat
        /\ request[c].workflow <= coordinator.workflowRevision
    BY DEF TypeOK, RequestType, CoordinatorType, DocumentsAgree
  <2> QED
    BY <2>1, <2>2, <2>3 DEF Moves
<1> QED
  BY <1>1, <1>2

\* Whatever the state of the documents, the three commands that end a cycle under
\* way are there for the taking.
THEOREM NeverAnywhereStuck == Spec => []NeverStuck
<1> DEFINE I == TypeOK /\ DocumentsAgree /\ Reopenable
<1>1. Init => I
  <2>1. Init => \A c \in Cycles : request[c].status = "NONE"
    BY DEF Init, NoRequest
  <2> QED
    BY <2>1, TypeInit, DocumentsInit DEF Reopenable
<1>2. I /\ [Next]_vars => I'
  BY TypeStep, DocumentsStep, ReopenableStep
<1>3. I => NeverStuck
  <2> SUFFICES ASSUME I, NEW c \in Cycles
               PROVE  /\ request[c].status = "PENDING_APPROVAL" =>
                            AcceptsTransition(FreshTransition("WITHDRAW", request[c].requester, c))
                      /\ request[c].status = "REOPEN_REQUESTED" =>
                            AcceptsReopenDecision(FreshDecision("REJECT_REOPEN", project.approver, c))
                      /\ request[c].status = "REOPENED" =>
                            \A a \in Admins : AcceptsCancel(FreshTransition("CANCEL", a, c))
    BY DEF NeverStuck
  <2>1. /\ request[c].status \in ActiveStates =>
              Matches(coordinator, c, request[c].status, request[c].workflow)
        /\ month[c] = MonthOf(request[c].status)
        /\ ledger[c].status = LedgerOf(request[c].status)
    BY DEF DocumentsAgree
  <2>2. CASE request[c].status = "PENDING_APPROVAL"
    BY <2>1, <2>2 DEF AcceptsTransition, FreshTransition, Command, CanFinishReview, Matches,
                      MonthOf, ActiveStates
  <2>3. CASE request[c].status = "REOPEN_REQUESTED"
    <3>1. RestorationEvidence(c) # {} /\ c = head.closedThrough + 1
          /\ request[c].ledger = ledger[c].revision
      BY <2>3 DEF Reopenable
    <3> QED
      BY <2>1, <2>3, <3>1 DEF AcceptsReopenDecision, ReopensHorizon, FreshDecision, Command,
                              CanDecideReopen, Matches, MonthOf, LedgerOf, ActiveStates,
                              MayDecide, IsApprover
  <2>4. CASE request[c].status = "REOPENED"
    BY <2>1, <2>4 DEF AcceptsCancel, FreshTransition, Command, CanCancelActive, Matches,
                      MonthOf, ActiveStates
  <2> QED
    BY <2>2, <2>3, <2>4
<1> QED
  BY <1>1, <1>2, <1>3, PTL DEF Spec

-----------------------------------------------------------------------------
(***************************************************************************)
(* What the screen shows.  A state other than INCONSISTENT is a row of the *)
(* projection table, and tells what the documents hold.                    *)
(***************************************************************************)
LEMMA BusinessRow ==
    ASSUME NEW c \in Cycles, BusinessState(c) # "INCONSISTENT"
    PROVE  \E row \in RowsOf(c) :
              \/ BusinessState(c) = row.business
              \/ /\ row.business = "LOCKED" /\ row.ledger = "OPEN"
                 /\ BusinessState(c) = "REOPEN_REQUESTED"
<1>1. ProjectionValid(c) /\ RowsOf(c) # {}
  BY DEF BusinessState
<1> DEFINE row == CHOOSE row \in RowsOf(c) : TRUE
<1>2. row \in RowsOf(c)
  BY <1>1
<1>3. BusinessState(c) = IF ~CoverReopening(c) THEN row.business
                         ELSE IF row.business = "LOCKED" /\ row.ledger = "OPEN"
                              THEN "REOPEN_REQUESTED" ELSE "INCONSISTENT"
  BY <1>1, Zenon DEF BusinessState
<1> HIDE DEF row
<1> QED
  BY <1>2, <1>3

LEMMA TableFacts ==
    \A row \in ProjectionTable :
        /\ row.business = "SUBMITTED" => row.status = "PENDING_APPROVAL"
        /\ row.business = "REOPENED" => row.status = "REOPENED"
        /\ row.business = "NOT_REQUESTED" => row.status = "NONE"
        /\ row.business \in {"REJECTED", "WITHDRAWN"} => row.status = row.business
        /\ row.business \in {"SUBMITTED", "REOPENED", "NOT_REQUESTED", "REJECTED", "WITHDRAWN"} =>
              row.closed = FALSE
        /\ row.business \in {"LOCKED", "REOPEN_REQUESTED"} => row.closed = TRUE
BY DEF ProjectionTable, Row

LEMMA StateFacts ==
    ASSUME NEW c \in Cycles
    PROVE  LET state == BusinessState(c) IN
           /\ state = "SUBMITTED" => request[c].status = "PENDING_APPROVAL"
           /\ state = "REOPENED" => request[c].status = "REOPENED"
           /\ state = "NOT_REQUESTED" => request[c].status = "NONE"
           /\ state \in {"REJECTED", "WITHDRAWN"} => request[c].status = state
           /\ state \in {"SUBMITTED", "REOPENED", "NOT_REQUESTED", "REJECTED", "WITHDRAWN"} =>
                 ~ClaimsTarget(c)
<1>1. CASE BusinessState(c) = "INCONSISTENT"
  BY <1>1
<1>2. CASE BusinessState(c) # "INCONSISTENT"
  <2>1. PICK row \in RowsOf(c) :
              \/ BusinessState(c) = row.business
              \/ /\ row.business = "LOCKED" /\ row.ledger = "OPEN"
                 /\ BusinessState(c) = "REOPEN_REQUESTED"
    BY <1>2, BusinessRow
  <2>2. /\ row \in ProjectionTable /\ row.status = request[c].status
        /\ row.closed = ClaimsTarget(c)
    BY DEF RowsOf
  <2>3. CASE BusinessState(c) = row.business
    BY <2>2, <2>3, TableFacts
  <2>4. CASE BusinessState(c) = "REOPEN_REQUESTED"
    BY <2>4
  <2> QED
    BY <2>1, <2>3, <2>4
<1> QED
  BY <1>1, <1>2

-----------------------------------------------------------------------------
(***************************************************************************)
(* Submissions and the head.  Whatever moves the head moves the workflow   *)
(* revision, so a submission that is accepted was prepared with the head   *)
(* as it is.                                                               *)
(***************************************************************************)
LEMMA PreparedCommand ==
    ASSUME TypeOK, DocumentsAgree, NEW a \in Members, NEW c \in Cycles, Prepare(a, c)
    PROVE  \E cmd : /\ inflight' = inflight \cup {cmd} /\ UNCHANGED docs
                    /\ cmd.workflow <= coordinator.workflowRevision
                    /\ cmd.kind \in {"STAGE", "SUBMIT"} => ~ClaimsTarget(cmd.cycle)
<1>1. /\ request[c].workflow <= coordinator.workflowRevision
      /\ coordinator.workflowRevision \in Nat
      /\ 0 <= coordinator.workflowRevision
  BY DEF DocumentsAgree, TypeOK, CoordinatorType
<1>2. CASE PrepareSubmit(a, c)
  <2>1. BusinessState(c) \in {"REOPENED", "NOT_REQUESTED", "REJECTED", "WITHDRAWN"}
    BY <1>2 DEF PrepareSubmit, Allowed
  <2>2. ~ClaimsTarget(c)
    BY <2>1, StateFacts
  <2> QED
    BY <1>1, <1>2, <2>2 DEF PrepareSubmit, Send, Command
<1>3. CASE \E kind \in {"WITHDRAW", "REJECT"} : PrepareTransition(kind, a, c)
  BY <1>1, <1>3 DEF PrepareTransition, Send, Command
<1>4. CASE PrepareCancel(a, c)
  BY <1>1, <1>4 DEF PrepareCancel, Send, Command
<1>5. CASE PrepareApprove(a, c)
  BY <1>1, <1>5 DEF PrepareApprove, Send, Command
<1>6. CASE PrepareReopenRequest(a, c)
  BY <1>1, <1>6 DEF PrepareReopenRequest, Send, Command
<1>7. CASE \E kind \in {"APPROVE_REOPEN", "REJECT_REOPEN"} : PrepareReopenDecision(kind, a, c)
  BY <1>1, <1>7 DEF PrepareReopenDecision, Send, Command
<1> QED
  BY <1>2, <1>3, <1>4, <1>5, <1>6, <1>7 DEF Prepare

LEMMA PreparedStep ==
    TypeOK /\ DocumentsAgree /\ Prepared /\ [Next]_vars => Prepared'
<1> SUFFICES ASSUME TypeOK, DocumentsAgree, Prepared, [Next]_vars PROVE Prepared'
  OBVIOUS
<1>1. ASSUME NEW a \in Members, NEW c \in Cycles, Prepare(a, c) PROVE Prepared'
  BY <1>1, PreparedCommand DEF Prepared, ClaimsTarget, docs
<1>2. ASSUME NEW cmd \in inflight, StageSubmit(cmd) PROVE Prepared'
  <2>1. PICK evidence : inflight' = (inflight \ {cmd}) \cup
              {[cmd EXCEPT !.kind = "SUBMIT", !.manifest = evidence,
                           !.approver = project.approver,
                           !.projectVersion = project.version]}
    BY <1>2, Zenon DEF StageSubmit
  <2> DEFINE sent == [cmd EXCEPT !.kind = "SUBMIT", !.manifest = evidence,
                                 !.approver = project.approver,
                                 !.projectVersion = project.version]
  <2>2. cmd \in CommandType /\ cmd.kind = "STAGE" /\ UNCHANGED docs
    BY <1>2 DEF TypeOK, StageSubmit
  <2>3. sent.workflow = cmd.workflow /\ sent.cycle = cmd.cycle /\ sent.kind = "SUBMIT"
    BY <2>2 DEF CommandType
  <2>4. inflight' = (inflight \ {cmd}) \cup {sent}
    BY <2>1
  <2> HIDE DEF sent
  <2> QED
    BY <2>2, <2>3, <2>4 DEF Prepared, ClaimsTarget, docs
<1>3. ASSUME NEW cmd \in inflight, Lose(cmd) PROVE Prepared'
  BY <1>3 DEF Lose, Prepared, ClaimsTarget, docs
<1>4. ASSUME NEW cmd \in inflight, Execute(cmd) PROVE Prepared'
  <2>1. inflight' = inflight
    BY <1>4 DEF Execute, Submit, Transition, Cancel, Approve, RequestReopen, ApproveReopen,
                RejectReopen, DecideReopen
  <2>2. coordinator'.workflowRevision = coordinator.workflowRevision + 1
    BY <1>4, ExecuteMoves DEF Moves
  <2>3. ASSUME NEW sent \in inflight
        PROVE  sent.workflow < coordinator'.workflowRevision
               /\ sent.workflow <= coordinator'.workflowRevision
               /\ sent.workflow # coordinator'.workflowRevision
    <3>1. sent.workflow \in Nat /\ coordinator.workflowRevision \in Nat
          /\ sent.workflow <= coordinator.workflowRevision
      BY DEF TypeOK, CommandType, CoordinatorType, Prepared
    <3> QED
      BY <2>2, <3>1
  <2> QED
    BY <2>1, <2>3 DEF Prepared
<1>5. CASE UNCHANGED <<coordinator, head, inflight>>
  BY <1>5 DEF Prepared, ClaimsTarget
<1>6. ASSUME NEW source \in Sources, EditSheet(source) PROVE UNCHANGED <<coordinator, head, inflight>>
  BY <1>6 DEF EditSheet
<1>7. ASSUME NEW a \in Members, ChangeApprover(a) \/ ApproveProjectChange(a)
      PROVE  UNCHANGED <<coordinator, head, inflight>>
  BY <1>7 DEF ChangeApprover, ApproveProjectChange
<1>8. ASSUME NEW m \in Cycles, AmendMonth(m) PROVE UNCHANGED <<coordinator, head, inflight>>
  BY <1>8 DEF AmendMonth
<1>9. ASSUME NEW a \in Members, NEW m \in TrackedMonths, WeekStep(a, m)
      PROVE  UNCHANGED <<coordinator, head, inflight>>
  BY <1>9, WeekStepSets
<1>10. CASE UNCHANGED vars
  BY <1>5, <1>10 DEF vars
<1> QED
  BY <1>1, <1>2, <1>3, <1>4, <1>5, <1>6, <1>7, <1>8, <1>9, <1>10 DEF Next

\* A submission that is taken is of a month the head does not cover.
LEMMA SubmitUncovered ==
    ASSUME TypeOK, Prepared, NEW cmd \in inflight, Submit(cmd)
    PROVE  ~ClaimsTarget(cmd.cycle) /\ UNCHANGED head
<1>1. cmd.workflow = coordinator.workflowRevision /\ cmd.kind = "SUBMIT"
  BY DEF Submit, AcceptsSubmit, CanResubmit, CanSubmit, CanStart, Matches
<1> QED
  BY <1>1 DEF Prepared, Submit

\* A reopened cycle is behind the horizon no longer.
LEMMA ReopenReleases ==
    ASSUME TypeOK, HeadSound, VersionsRestore, NEW cmd \in inflight, ApproveReopen(cmd)
    PROVE  ~ClaimsTarget(cmd.cycle)'
<1> SUFFICES ASSUME head'.exists PROVE ~(Target(cmd.cycle) <= head'.closedThrough)
  BY DEF ClaimsTarget, Target
<1>1. Sound(head) /\ Shaped(head) /\ head.exists /\ Sound(head')
  BY HeadShaped, ReopenPops DEF HeadSound, TypeOK
<1>2. PICK n \in Nat : n = Len(head.ranges)
  BY <1>1 DEF Shaped
<1>3. /\ n > 0 /\ DOMAIN head.ranges = 1..n /\ LastRange(head) = head.ranges[n]
      /\ head.closedThrough = head.ranges[n].through
  BY <1>1, <1>2 DEF Shaped, Sound, Canonical, LastRange
<1>4. Len(head'.ranges) = n - 1 /\ \A i \in 1..(n - 1) : head'.ranges[i] = head.ranges[i]
  BY <1>2, ReopenCuts
<1>5. head'.ranges # <<>> /\ head'.closedThrough = head'.ranges[Len(head'.ranges)].through
  BY <1>1 DEF Sound, Canonical, LastRange
<1>6. n > 1
  <2>1. head'.ranges \in Seq(RangeType)
    <3>1. TypeOK'
      BY TypeStep DEF Next, Execute
    <3> QED
      BY <3>1 DEF TypeOK, HeadType
  <2> QED
    BY <1>2, <1>3, <1>4, <1>5, <2>1
<1>7. head'.closedThrough = head.ranges[n - 1].through
  BY <1>2, <1>4, <1>5, <1>6
<1>8. /\ n - 1 \in DOMAIN head.ranges /\ n \in DOMAIN head.ranges /\ n - 1 # Len(head.ranges)
  BY <1>2, <1>3, <1>6
<1>9. head.ranges[n - 1].through < head.ranges[n].from /\ head.ranges[n].from <= head.ranges[n].through
  BY <1>1, <1>3, <1>8, RangesBelow
<1>10. head.ranges[n - 1] \in RangeType /\ head.ranges[n] \in RangeType
  BY <1>1, <1>8, RangesBelow
<1>11. /\ head.ranges[n - 1].through \in Nat /\ head.ranges[n].from \in Nat
       /\ head.ranges[n].through \in Nat
  BY <1>10 DEF RangeType
<1>12. cmd.cycle = head.ranges[n].through + 1
  BY <1>3, ReopenPops
<1> QED
  BY <1>7, <1>9, <1>11, <1>12 DEF Target

LEMMA UncoveredStep ==
    TypeOK /\ DocumentsAgree /\ HeadSound /\ VersionsRestore /\ Prepared /\ Uncovered
    /\ [Next]_vars => Uncovered'
<1> SUFFICES ASSUME TypeOK, DocumentsAgree, HeadSound, VersionsRestore, Prepared, Uncovered,
                    [Next]_vars, NEW c \in Cycles,
                    request'[c].status \in {"PENDING_APPROVAL", "REOPENED"}
             PROVE  ~ClaimsTarget(c)'
  BY DEF Uncovered
<1>1. CASE \A cmd \in inflight : ~Execute(cmd)
  <2>1. UNCHANGED CycleDocuments /\ UNCHANGED <<head, versions>>
    BY <1>1, OthersLeaveDocuments, HeadOnlyMovesBy DEF Execute
  <2> QED
    BY <2>1 DEF CycleDocuments, Uncovered, ClaimsTarget
<1>2. ASSUME NEW cmd \in inflight, Execute(cmd) PROVE ~ClaimsTarget(c)'
  <2>1. c = cmd.cycle
    BY <1>2, OthersRest DEF ActiveStates
  <2>2. Submit(cmd) \/ ApproveReopen(cmd)
    BY <1>2, <2>1, StatusAfter, ClosedStaysClosed DEF Execute, Keeps, IsClosed
  <2>3. CASE Submit(cmd)
    BY <2>1, <2>3, SubmitUncovered DEF ClaimsTarget
  <2> QED
    BY <2>1, <2>2, <2>3, ReopenReleases
<1> QED
  BY <1>1, <1>2

-----------------------------------------------------------------------------
(***************************************************************************)
(* What is offered is taken.                                               *)
(***************************************************************************)
LEMMA SubmitOffered ==
    ASSUME TypeOK, DocumentsAgree, NEW a \in Members, NEW c \in Cycles, Allowed("SUBMIT", a, c)
    PROVE  AcceptsSubmit(FreshSubmit(a, c))
<1>0. PICK cmd : cmd = FreshSubmit(a, c)
  OBVIOUS
<1>1. /\ cmd.cycle = c /\ cmd.workflow = coordinator.workflowRevision
      /\ cmd.approver = project.approver /\ cmd.projectVersion = project.version
      /\ cmd.manifest.evidence = request[c].manifest.evidence + 1
  BY <1>0 DEF FreshSubmit, Command, Manifest
<1>2. /\ request[c].status \in {"NONE", "REJECTED", "WITHDRAWN", "REOPENED"}
      /\ CoordinatorInactive \/ request[c].status = "REOPENED"
  BY StateFacts DEF Allowed
<1>3. month[c] = "WAITING_FOR_UPDATE"
  BY <1>2 DEF DocumentsAgree, MonthOf
<1>4. CASE request[c].status = "REOPENED"
  <2>1. coordinator.activeState = "REOPENED" /\ coordinator.activeCycle = c
    BY <1>4 DEF DocumentsAgree, Matches, ActiveStates
  <2> QED
    BY <1>0, <1>1, <1>2, <1>3, <2>1 DEF AcceptsSubmit, CanResubmit, Matches
<1>5. CASE CoordinatorInactive
  BY <1>0, <1>1, <1>2, <1>3, <1>5 DEF AcceptsSubmit, CanSubmit, CanStart, CoordinatorInactive
<1> QED
  BY <1>2, <1>4, <1>5

LEMMA ReviewOffered ==
    ASSUME TypeOK, DocumentsAgree, EvidenceIsStaged, NEW a \in Members, NEW c \in Cycles
    PROVE  /\ \A kind \in {"WITHDRAW", "REJECT"} :
                 Allowed(kind, a, c) => AcceptsTransition(FreshTransition(kind, a, c))
           /\ Allowed("CANCEL", a, c) => AcceptsCancel(FreshTransition("CANCEL", a, c))
           /\ Allowed("APPROVE", a, c) /\ AffectedRangeValid(head, Target(c)) =>
                 AcceptsApprove(FreshTransition("APPROVE", a, c))
<1>1. request[c].status \in {"PENDING_APPROVAL", "REOPENED"} =>
         /\ Matches(coordinator, c, request[c].status, request[c].workflow)
         /\ month[c] = MonthOf(request[c].status)
         /\ ledger[c].status = "OPEN"
  BY DEF DocumentsAgree, ActiveStates, LedgerOf
<1>2. ASSUME BusinessState(c) = "SUBMITTED"
      PROVE  request[c].status = "PENDING_APPROVAL" /\ ~ClaimsTarget(c)
  BY <1>2, StateFacts
<1>3. ASSUME NEW kind \in {"WITHDRAW", "REJECT"}, Allowed(kind, a, c)
      PROVE  AcceptsTransition(FreshTransition(kind, a, c))
  <2>1. /\ BusinessState(c) = "SUBMITTED"
        /\ IF kind = "WITHDRAW" THEN a = request[c].requester ELSE IsApprover(a)
    BY <1>3 DEF Allowed
  <2> QED
    BY <1>1, <1>2, <2>1 DEF AcceptsTransition, FreshTransition, Command, CanFinishReview,
                            MonthOf, MayDecide
<1>4. ASSUME Allowed("CANCEL", a, c) PROVE AcceptsCancel(FreshTransition("CANCEL", a, c))
  <2>1. BusinessState(c) \in {"SUBMITTED", "REOPENED"} /\ a \in Admins
    BY <1>4 DEF Allowed
  <2>2. request[c].status \in {"PENDING_APPROVAL", "REOPENED"}
    BY <2>1, StateFacts
  <2> QED
    BY <1>1, <2>1, <2>2 DEF AcceptsCancel, FreshTransition, Command, CanCancelActive, MonthOf
<1>5. ASSUME Allowed("APPROVE", a, c), AffectedRangeValid(head, Target(c))
      PROVE  AcceptsApprove(FreshTransition("APPROVE", a, c))
  <2>1. BusinessState(c) = "SUBMITTED" /\ IsApprover(a)
    BY <1>5 DEF Allowed
  <2>2. head.exists => head.closedThrough < Target(c)
    BY <1>2, <2>1, CycleIsNat DEF ClaimsTarget, TypeOK, HeadType, NoMonth, Target
  <2>3. request[c].manifest \in shards
    BY <1>2, <2>1 DEF EvidenceIsStaged
  <2> QED
    BY <1>1, <1>2, <1>5, <2>1, <2>2, <2>3
       DEF AcceptsApprove, FreshTransition, Command, CanFinishReview, MayDecide
<1> QED
  BY <1>3, <1>4, <1>5

LEMMA ReopeningOffered ==
    ASSUME TypeOK, DocumentsAgree, Reopenable, NEW a \in Members, NEW c \in Cycles,
           NEW kind \in {"APPROVE_REOPEN", "REJECT_REOPEN"}, Allowed(kind, a, c),
           request[c].status = "REOPEN_REQUESTED"
    PROVE  AcceptsReopenDecision(FreshDecision(kind, a, c))
<1>1. MayDecide(a)
  BY DEF Allowed
<1>2. /\ Matches(coordinator, c, request[c].status, request[c].workflow)
      /\ month[c] = "LOCKED" /\ ledger[c].status = "REOPEN_REQUESTED"
  BY DEF DocumentsAgree, ActiveStates, MonthOf, LedgerOf
<1>3. RestorationEvidence(c) # {} /\ c = head.closedThrough + 1
      /\ request[c].ledger = ledger[c].revision
  BY DEF Reopenable
<1> QED
  BY <1>1, <1>2, <1>3 DEF AcceptsReopenDecision, ReopensHorizon, FreshDecision, Command,
                          CanDecideReopen, Matches

LEMMA OfferedFromInvariants ==
    TypeOK /\ DocumentsAgree /\ EvidenceIsStaged /\ Reopenable => OfferedIsAccepted
BY SubmitOffered, ReviewOffered, ReopeningOffered DEF OfferedIsAccepted

LEMMA ReopenableInit == Init => Reopenable /\ Uncovered /\ Prepared /\ Outdated
<1> SUFFICES ASSUME Init PROVE Reopenable /\ Uncovered /\ Prepared /\ Outdated
  OBVIOUS
<1>1. \A c \in Cycles : request[c].status = "NONE"
  BY DEF Init, NoRequest
<1>2. inflight = {} /\ coordinator.activeState = "INACTIVE"
  BY DEF Init, Inactive
<1> QED
  BY <1>1, <1>2 DEF Reopenable, Uncovered, Prepared, Outdated

\* The screens and the handlers, written apart, do not drift: what a member is
\* offered the JVM takes, as long as nothing moves in between.
THEOREM OfferedAlwaysAccepted == Spec => []OfferedIsAccepted
<1> DEFINE I == /\ TypeOK /\ DocumentsAgree /\ HeadSound /\ VersionsRestore
                /\ EvidenceIsStaged /\ Reopenable
<1>1. Init => I
  BY TypeInit, DocumentsInit, HeadInit, EvidenceInit, ReopenableInit
<1>2. I /\ [Next]_vars => I'
  BY TypeStep, DocumentsStep, HeadSoundStep, VersionsRestoreStep, EvidenceStep, ReopenableStep
<1>3. I => OfferedIsAccepted
  BY OfferedFromInvariants
<1> QED
  BY <1>1, <1>2, <1>3, PTL DEF Spec

-----------------------------------------------------------------------------
(***************************************************************************)
(* Why a cycle may show as INCONSISTENT.  Every range has its version and  *)
(* its documents, so it proves the months it covers unless its ledger      *)
(* numbers disagree; and the coordinator, if anything is under way, names  *)
(* a cycle.                                                                *)
(***************************************************************************)
HasVersion(range) ==
    \E v \in versions :
        /\ v.cycle = range.cycle /\ v.revision = range.version
        /\ v.manifest = range.manifest
        /\ v.from = range.from /\ v.through = range.through

Backed == \A i \in DOMAIN head.ranges : HasVersion(head.ranges[i])

Definite ==
    IF coordinator.activeState = "INACTIVE" THEN coordinator.activeCycle = NoCycle
    ELSE coordinator.activeCycle \in Cycles

LEMMA BackedInit == Init => Backed /\ Definite
BY DEF Init, NoAuthority, Backed, Definite, Inactive

LEMMA VersionsGrow ==
    ASSUME TypeOK, HeadSound, [Next]_vars PROVE versions \subseteq versions'
<1>1. CASE \A cmd \in inflight : ~Approve(cmd) /\ ~ApproveReopen(cmd)
  BY <1>1, HeadOnlyMovesBy
<1>2. ASSUME NEW cmd \in inflight, Approve(cmd) PROVE versions \subseteq versions'
  BY <1>2, ApprovePushes DEF Pushes
<1>3. ASSUME NEW cmd \in inflight, ApproveReopen(cmd) PROVE versions \subseteq versions'
  BY <1>3, ReopenPops
<1> QED
  BY <1>1, <1>2, <1>3

LEMMA BackedStep ==
    TypeOK /\ HeadSound /\ VersionsRestore /\ Backed /\ [Next]_vars => Backed'
<1> SUFFICES ASSUME TypeOK, HeadSound, VersionsRestore, Backed, [Next]_vars,
                    NEW i \in DOMAIN head'.ranges
             PROVE  HasVersion(head.ranges[i])'
  BY DEF Backed
<1>1. ASSUME NEW j \in DOMAIN head.ranges, head'.ranges[i] = head.ranges[j]
      PROVE  HasVersion(head.ranges[i])'
  BY <1>1, VersionsGrow DEF Backed, HasVersion
<1>2. ASSUME NEW cmd \in inflight, Approve(cmd), head'.ranges[i] = NewRange(cmd.cycle)
      PROVE  HasVersion(head.ranges[i])'
  <2>1. NewVersion(cmd.cycle) \in versions'
    BY <1>2, ApprovePushes DEF Pushes
  <2> QED
    BY <1>2, <2>1, NewFields DEF HasVersion
<1> QED
  BY <1>1, <1>2, RangesFrom

LEMMA DefiniteStep == TypeOK /\ DocumentsAgree /\ Definite /\ [Next]_vars => Definite'
<1> SUFFICES ASSUME TypeOK, DocumentsAgree, Definite, [Next]_vars PROVE Definite'
  OBVIOUS
<1>1. CASE \A cmd \in inflight : ~Execute(cmd)
  BY <1>1, OthersLeaveDocuments DEF CycleDocuments, Definite
<1>2. ASSUME NEW cmd \in inflight, Execute(cmd) PROVE Definite'
  <2>1. cmd.cycle \in Cycles /\ Fits(cmd.cycle)
    BY <1>2, ExecuteMoves
  <2> QED
    BY <2>1 DEF Fits, Definite, ActiveStates
<1> QED
  BY <1>1, <1>2

\* The head covers the months behind its horizon, but for those before its first range.
LEMMA CoverageIsClaim ==
    ASSUME TypeOK, HeadSound, NEW c \in Cycles, ~BeforeFirstRange(c)
    PROVE  ClaimsTarget(c) <=> CoveringRanges(c) # {}
<1>1. Sound(head) /\ Shaped(head) /\ Target(c) \in Nat
  BY HeadShaped, CycleIsNat DEF HeadSound, TypeOK, Target
<1>2. ASSUME ClaimsTarget(c) PROVE CoveringRanges(c) # {}
  <2>1. head.exists /\ Target(c) <= head.closedThrough /\ ~(Target(c) < head.ranges[1].from)
    BY <1>2 DEF ClaimsTarget, BeforeFirstRange
  <2>2. head.ranges[1] \in RangeType
    BY <1>1, <2>1 DEF Shaped, Sound, Canonical
  <2>3. head.ranges[1].from \in Nat /\ head.closedThrough \in Int
    BY <1>1, <2>2 DEF RangeType, Shaped, NoMonth
  <2>4. Target(c) \in head.ranges[1].from .. head.closedThrough
    BY <1>1, <2>1, <2>3
  <2>5. PICK i \in DOMAIN head.ranges : RangeCovers(head.ranges[i], Target(c))
    BY <1>1, <2>1, <2>4 DEF Sound, Gapless
  <2> QED
    BY <2>5 DEF CoveringRanges
<1>3. ASSUME CoveringRanges(c) # {} PROVE ClaimsTarget(c)
  <2>1. PICK i \in DOMAIN head.ranges : RangeCovers(head.ranges[i], Target(c))
    BY <1>3 DEF CoveringRanges
  <2>2. head.exists /\ head.ranges[i] \in RangeType /\ head.ranges[i].through <= head.closedThrough
    BY <1>1, RangesBelow
  <2>3. head.ranges[i].through \in Nat /\ head.closedThrough \in Int
    BY <1>1, <2>2 DEF RangeType, Shaped, NoMonth
  <2> QED
    BY <1>1, <2>1, <2>2, <2>3 DEF RangeCovers, ClaimsTarget
<1> QED
  BY <1>2, <1>3

\* Ranges whose numbers agree prove the months they cover.
LEMMA CoverageIsProven ==
    ASSUME TypeOK, DocumentsAgree, AuthorityAgrees, Backed, NEW c \in Cycles, ~Misnumbered(c)
    PROVE  Provenance(c) = CoveringRanges(c)
<1> SUFFICES ASSUME NEW range \in CoveringRanges(c) PROVE Proven(range)
  BY DEF Provenance
<1>1. PICK i \in DOMAIN head.ranges : range = head.ranges[i]
  BY DEF CoveringRanges
<1>2. range \in RangeType
  BY <1>1 DEF TypeOK, HeadType
<1>3. range.cycle \in Cycles
  BY <1>2 DEF RangeType
<1>4. HasVersion(range) /\ Told(range) /\ IsClosed(range.cycle)
  BY <1>1, <1>3, AgreesByParts DEF Backed, HasRange
<1>5. ledger[range.cycle].status = LedgerOf(request[range.cycle].status)
  BY <1>3 DEF DocumentsAgree
<1>6. request[range.cycle].ledger = ledger[range.cycle].revision
  BY DEF Misnumbered
<1>7. <<ledger[range.cycle].status, request[range.cycle].status>> \in
         {<<"CLOSED", "APPROVED">>, <<"REOPEN_REQUESTED", "REOPEN_REQUESTED">>}
  BY <1>4, <1>5 DEF IsClosed, LedgerOf
<1> QED
  BY <1>4, <1>6, <1>7 DEF Proven, HasVersion, Told

\* A closed cycle has a range that ends with its month, and no other covers that month.
LEMMA OwnRangeCovers ==
    ASSUME TypeOK, HeadSound, AuthorityAgrees, NEW c \in Cycles, IsClosed(c)
    PROVE  /\ CoveringRanges(c) # {}
           /\ \A range \in CoveringRanges(c) : range.cycle = c
<1>1. Sound(head) /\ Shaped(head)
  BY HeadShaped DEF HeadSound, TypeOK
<1>2. PICK i \in DOMAIN head.ranges : head.ranges[i].cycle = c
  BY AgreesByParts DEF HasRange
<1>3. /\ head.ranges[i] \in RangeType /\ head.ranges[i].from <= head.ranges[i].through
      /\ head.ranges[i].cycle = head.ranges[i].through + 1
  BY <1>1, RangesBelow DEF Sound, Canonical
<1>4. head.ranges[i].from \in Nat /\ head.ranges[i].through \in Nat
  BY <1>3 DEF RangeType
<1>5. head.ranges[i].through = Target(c)
  BY <1>2, <1>3, <1>4 DEF Target
<1>6. RangeCovers(head.ranges[i], Target(c))
  BY <1>3, <1>4, <1>5 DEF RangeCovers
<1>7. ASSUME NEW range \in CoveringRanges(c) PROVE range.cycle = c
  <2>1. PICK j \in DOMAIN head.ranges : range = head.ranges[j] /\ RangeCovers(range, Target(c))
    BY <1>7 DEF CoveringRanges
  <2>2. range \in RangeType
    BY <1>1, <2>1, RangesBelow
  <2>3. range.from \in Nat /\ range.through \in Nat
    BY <2>2 DEF RangeType
  <2>4. range.from <= Target(c) /\ Target(c) <= range.through
    BY <2>1 DEF RangeCovers
  <2>5. i \in Nat /\ j \in Nat
    BY <1>1 DEF Shaped
  <2>6. ~(i < j)
    <3>1. i < j => head.ranges[i].through < range.from
      BY <1>1, <2>1 DEF Sound, Ordered
    <3> QED
      BY <1>4, <1>5, <2>3, <2>4, <3>1
  <2>7. ~(j < i)
    <3>1. j < i => range.through < head.ranges[i].from
      BY <1>1, <2>1 DEF Sound, Ordered
    <3> QED
      BY <1>3, <1>4, <1>5, <2>3, <2>4, <3>1
  <2>8. i = j
    BY <2>5, <2>6, <2>7
  <2> QED
    BY <1>2, <2>1, <2>8
<1> QED
  BY <1>6, <1>7 DEF CoveringRanges

LEMMA CoordinatorUsuallyAgrees ==
    ASSUME TypeOK, DocumentsAgree, Outdated, Definite, NEW c \in Cycles, ~Overshadowed(c)
    PROVE  CoordinatorAgrees(c)
<1>1. /\ request[c].workflow <= coordinator.workflowRevision
      /\ request[c].status \in ActiveStates =>
            Matches(coordinator, c, request[c].status, request[c].workflow)
      /\ coordinator.activeCycle = c => request[c].status = coordinator.activeState
  BY DEF DocumentsAgree
<1>2. /\ request[c].status \in RequestStatus
      /\ coordinator.activeState \in ActiveStates \cup {"INACTIVE"}
      /\ coordinator.workflowRevision \in Nat /\ request[c].workflow \in Nat
  BY DEF TypeOK, RequestType, CoordinatorType
<1>3. CASE request[c].status = "NONE"
  BY <1>1, <1>2, <1>3 DEF CoordinatorAgrees, ActiveStates
<1>4. CASE request[c].status \in ActiveStates
  BY <1>1, <1>4 DEF CoordinatorAgrees, ActiveStates
<1>5. CASE request[c].status \in {"APPROVED", "REJECTED", "WITHDRAWN"}
  <2>1. coordinator.activeCycle # c
    <3>1. coordinator.activeCycle = c => coordinator.activeState = "INACTIVE"
      BY <1>1, <1>2, <1>5 DEF ActiveStates
    <3>2. c # NoCycle
      BY CyclesAssumption DEF NoCycle
    <3> QED
      BY <3>1, <3>2 DEF Definite
  <2>2. ASSUME coordinator.activeState # "INACTIVE"
        PROVE  coordinator.workflowRevision > request[c].workflow /\ coordinator.activeCycle > c
    <3>1. coordinator.activeCycle \in Cycles
      BY <2>2 DEF Definite
    <3>2. ~(coordinator.activeCycle < c)
      BY <1>5, <3>1 DEF Overshadowed
    <3>3. coordinator.activeCycle \in Nat /\ c \in Nat
      BY <3>1, CycleIsNat
    <3>4. request[c].workflow < coordinator.workflowRevision
      BY <2>1, <2>2 DEF Outdated
    <3> QED
      BY <1>2, <2>1, <3>2, <3>3, <3>4
  <2> QED
    BY <1>1, <1>5, <2>1, <2>2 DEF CoordinatorAgrees, ActiveStates
<1> QED
  BY <1>2, <1>3, <1>4, <1>5 DEF RequestStatus, ActiveStates

\* The row that says what the documents of a cycle hold.
RowFor(c) ==
    Row(request[c].status, ClaimsTarget(c), ledger[c].status, month[c],
        CASE request[c].status = "NONE" -> IF ClaimsTarget(c) THEN "LOCKED" ELSE "NOT_REQUESTED"
          [] request[c].status = "PENDING_APPROVAL" -> "SUBMITTED"
          [] request[c].status = "APPROVED" -> "LOCKED"
          [] request[c].status \in {"REJECTED", "WITHDRAWN"} ->
                IF ClaimsTarget(c) THEN "LOCKED" ELSE request[c].status
          [] OTHER -> request[c].status)

LEMMA RowFits ==
    ASSUME TypeOK, DocumentsAgree, NEW c \in Cycles,
           request[c].status \in {"PENDING_APPROVAL", "REOPENED"} => ~ClaimsTarget(c),
           IsClosed(c) => ClaimsTarget(c)
    PROVE  RowFor(c) \in ProjectionTable
<1>1. month[c] = MonthOf(request[c].status) /\ ledger[c].status = LedgerOf(request[c].status)
      /\ request[c].status \in RequestStatus
  BY DEF DocumentsAgree, TypeOK, RequestType
<1>2. ClaimsTarget(c) \in BOOLEAN
  BY DEF ClaimsTarget, TypeOK, HeadType
<1> QED
  BY <1>1, <1>2 DEF RowFor, Row, ProjectionTable, MonthOf, LedgerOf, RequestStatus, IsClosed

\* A row of the table for a closed month whose request is not closed shows LOCKED.
LEMMA LockedRows ==
    \A row \in ProjectionTable :
        /\ row.business # "INCONSISTENT"
        /\ row.closed /\ row.status \notin {"APPROVED", "REOPEN_REQUESTED"} =>
              row.business = "LOCKED" /\ row.ledger = "OPEN"
BY DEF ProjectionTable, Row

Explanations ==
    /\ TypeOK /\ DocumentsAgree /\ HeadSound /\ VersionsRestore /\ AuthorityAgrees
    /\ Outdated /\ Prepared /\ Uncovered /\ Definite /\ Backed

LEMMA Explained == Explanations => InconsistentIsExplained
<1> SUFFICES ASSUME Explanations, NEW c \in Cycles,
                    ~Misnumbered(c), ~Overshadowed(c), ~BeforeFirstRange(c)
             PROVE  BusinessState(c) # "INCONSISTENT"
  BY DEF InconsistentIsExplained
<1> USE DEF Explanations
<1>1. Provenance(c) = CoveringRanges(c) /\ (ClaimsTarget(c) <=> CoveringRanges(c) # {})
  BY CoverageIsProven, CoverageIsClaim
<1>2. IsClosed(c) => ClaimsTarget(c)
  BY <1>1, OwnRangeCovers
<1>3. RowFor(c) \in ProjectionTable
  BY <1>2, RowFits DEF Uncovered
<1>4. RowFor(c) \in RowsOf(c)
  <2>1. ClaimsTarget(c) \in BOOLEAN
    BY DEF ClaimsTarget, TypeOK, HeadType
  <2> QED
    BY <1>1, <1>3, <2>1 DEF RowsOf, RowFor, Row
<1>5. ProjectionValid(c)
  <2>1. HeadReadable
    BY DEF HeadReadable, HeadSound, Sound, Canonical
  <2>2. CoordinatorAgrees(c)
    BY CoordinatorUsuallyAgrees
  <2>3. ASSUME CoverReopening(c) PROVE CoverCoordinatorMatches(c)
    <3>1. PICK range \in Provenance(c) :
             range.cycle > c /\ request[range.cycle].status = "REOPEN_REQUESTED"
      BY <2>3 DEF CoverReopening
    <3>2. range.cycle \in Cycles
      <4>1. range \in RangeType
        BY DEF Provenance, CoveringRanges, TypeOK, HeadType
      <4> QED
        BY <4>1 DEF RangeType
    <3>3. Matches(coordinator, range.cycle, "REOPEN_REQUESTED", request[range.cycle].workflow)
      BY <3>1, <3>2 DEF DocumentsAgree, ActiveStates
    <3> QED
      BY <3>1, <3>3 DEF CoverCoordinatorMatches
  <2> QED
    BY <2>1, <2>2, <2>3 DEF ProjectionValid
<1>6. ASSUME CoverReopening(c), NEW row \in RowsOf(c)
      PROVE  row.business = "LOCKED" /\ row.ledger = "OPEN"
  <2>1. PICK range \in CoveringRanges(c) : range.cycle > c
    BY <1>1, <1>6 DEF CoverReopening
  <2>2. range.cycle # c
    BY <2>1, CycleIsNat
  <2>3. ~IsClosed(c)
    BY <2>2, OwnRangeCovers
  <2>4. row \in ProjectionTable /\ row.closed /\ row.status \notin {"APPROVED", "REOPEN_REQUESTED"}
    BY <1>1, <2>1, <2>3 DEF RowsOf, IsClosed
  <2> QED
    BY <2>4, LockedRows
<1> DEFINE shown == CHOOSE row \in RowsOf(c) : TRUE
<1>7. shown \in RowsOf(c)
  BY <1>4
<1>8. BusinessState(c) = IF ~CoverReopening(c) THEN shown.business
                         ELSE IF shown.business = "LOCKED" /\ shown.ledger = "OPEN"
                              THEN "REOPEN_REQUESTED" ELSE "INCONSISTENT"
  BY <1>4, <1>5, Zenon DEF BusinessState
<1> HIDE DEF shown
<1>9. shown.business # "INCONSISTENT"
  BY <1>7, LockedRows DEF RowsOf
<1> QED
  BY <1>6, <1>7, <1>8, <1>9

\* A cycle is INCONSISTENT, and closed to everybody, for the three known reasons
\* only: no history of commands leaves the documents contradicting one another.
THEOREM InconsistentAlwaysExplained == Spec => []InconsistentIsExplained
<1>1. Init => Explanations
  BY TypeInit, DocumentsInit, HeadInit, AgreesInit, ReopenableInit, BackedInit DEF Explanations
<1>2. Explanations /\ [Next]_vars => Explanations'
  BY TypeStep, DocumentsStep, HeadSoundStep, VersionsRestoreStep, AgreesStep, OutdatedStep,
     PreparedStep, UncoveredStep, DefiniteStep, BackedStep DEF Explanations
<1> QED
  BY <1>1, <1>2, Explained, PTL DEF Spec

-----------------------------------------------------------------------------
(***************************************************************************)
(* Refinement.  The documents implement a stack of closed ranges with at   *)
(* most one cycle under way: each command is one step of the stack, and    *)
(* all else leaves it alone.                                               *)
(***************************************************************************)
Closed ==
    [i \in DOMAIN head.ranges |->
        [from |-> head.ranges[i].from, through |-> head.ranges[i].through]]

PhaseOf(state) ==
    CASE state = "PENDING_APPROVAL" -> "CLOSING"
      [] state = "REOPEN_REQUESTED" -> "REOPENING"
      [] state = "REOPENED" -> "REOPENED"
      [] OTHER -> "IDLE"

Underway == [phase |-> PhaseOf(coordinator.activeState), cycle |-> coordinator.activeCycle]

Months == [from : Nat, through : Nat]

LEMMA ClosedIsSeq ==
    ASSUME TypeOK, HeadSound
    PROVE  /\ Closed \in Seq(Months)
           /\ Len(Closed) = Len(head.ranges) /\ DOMAIN Closed = DOMAIN head.ranges
           /\ head.exists <=> Closed # <<>>
           /\ head.exists => Closed[Len(Closed)].through = head.closedThrough
           /\ ~head.exists => head.ranges = <<>>
<1>1. Sound(head) /\ Shaped(head)
  BY HeadShaped DEF HeadSound, TypeOK
<1>2. PICK n \in Nat : n = Len(head.ranges)
  BY <1>1 DEF Shaped
<1>3. head.ranges \in Seq(RangeType) /\ DOMAIN head.ranges = 1..n
  BY <1>1, <1>2 DEF Shaped
<1>4. ASSUME NEW i \in 1..n
      PROVE  [from |-> head.ranges[i].from, through |-> head.ranges[i].through] \in Months
  <2>1. head.ranges[i] \in RangeType
    BY <1>3
  <2> QED
    BY <2>1 DEF RangeType, Months
<1>5. Closed \in [1..n -> Months]
  BY <1>3, <1>4 DEF Closed
<1>6. Closed \in Seq(Months) /\ Len(Closed) = n /\ DOMAIN Closed = 1..n
  <2>1. Closed \in Seq(Months)
    BY <1>5, SeqDef
  <2> QED
    BY <1>2, <1>5, <2>1, LenProperties
<1>7. head.exists <=> n > 0
  BY <1>1, <1>2, <1>3 DEF Sound, Canonical
<1>8. Closed # <<>> <=> n > 0
  BY <1>2, <1>6
<1>9. ASSUME head.exists PROVE Closed[n].through = head.closedThrough
  <2>1. n \in DOMAIN head.ranges
    BY <1>2, <1>3, <1>7, <1>9
  <2>2. Closed[n].through = head.ranges[n].through
    BY <2>1 DEF Closed
  <2> QED
    BY <1>1, <1>2, <1>9, <2>2 DEF Sound, Canonical, LastRange
<1>10. ~head.exists => head.ranges = <<>>
  BY <1>1 DEF Sound, Canonical
<1> QED
  BY <1>2, <1>3, <1>6, <1>7, <1>8, <1>9, <1>10

LEMMA HorizonOf ==
    ASSUME TypeOK, HeadSound
    PROVE  Authority!Horizon = IF head.exists THEN head.closedThrough ELSE -1
BY ClosedIsSeq DEF Authority!Horizon, Closed

LEMMA BeginStep ==
    ASSUME TypeOK, DocumentsAgree, HeadSound, Prepared, Definite, NEW cmd \in inflight, Submit(cmd)
    PROVE  Authority!Next
<1> DEFINE c == cmd.cycle
<1>1. c \in Cycles /\ UNCHANGED head /\ ~ClaimsTarget(c)
  BY SubmitUncovered DEF TypeOK, CommandType
<1>2. coordinator' = Active(c, "PENDING_APPROVAL", coordinator.workflowRevision + 1)
  BY DEF Submit, AcceptsSubmit, NextCoordinatorOfSubmit, CanResubmit, CanSubmit, CanStart, Matches,
         AfterSubmit, AfterResubmit
<1>3. Underway' = [phase |-> "CLOSING", cycle |-> c] /\ UNCHANGED Closed
  BY <1>1, <1>2 DEF Active, Underway, PhaseOf, Closed
<1>4. \/ coordinator.activeState = "REOPENED" /\ coordinator.activeCycle = c
      \/ coordinator.activeState = "INACTIVE"
  BY DEF Submit, AcceptsSubmit, CanResubmit, CanSubmit, CanStart, Matches
<1>5. CASE coordinator.activeState = "REOPENED" /\ coordinator.activeCycle = c
  <2>1. Underway = [phase |-> "REOPENED", cycle |-> c]
    BY <1>5 DEF Underway, PhaseOf
  <2>2. Authority!Resume(c)
    BY <1>3, <2>1 DEF Authority!Resume, Authority!Phase, Underway, PhaseOf, Closed
  <2> QED
    BY <1>1, <2>2 DEF Authority!Next
<1>6. CASE coordinator.activeState = "INACTIVE"
  <2>1. Underway = [phase |-> "IDLE", cycle |-> 0]
    BY <1>6 DEF Underway, PhaseOf, Definite, NoCycle
  <2>2. c - 1 > Authority!Horizon
    <3>1. c - 1 \in Nat /\ head.closedThrough \in Int
      BY <1>1, CycleIsNat DEF TypeOK, HeadType, NoMonth
    <3> QED
      BY <1>1, <3>1, HorizonOf DEF ClaimsTarget, Target
  <2>3. Authority!Begin(c)
    BY <1>3, <2>1, <2>2 DEF Authority!Begin, Authority!Phase, Authority!Idle, Underway, PhaseOf, Closed
  <2> QED
    BY <1>1, <2>3 DEF Authority!Next
<1> QED
  BY <1>4, <1>5, <1>6

LEMMA AbandonStep ==
    ASSUME TypeOK, NEW cmd \in inflight, Transition(cmd) \/ Cancel(cmd)
    PROVE  Authority!Next
<1>1. /\ coordinator.activeState \in {"PENDING_APPROVAL", "REOPENED"}
      /\ coordinator' = Inactive(coordinator.workflowRevision + 1) /\ UNCHANGED head
  BY DEF Transition, AcceptsTransition, Cancel, AcceptsCancel, CanFinishReview, CanCancelActive,
         Matches, AfterFinishReview, AfterCancelActive
<1>2. Underway' = [phase |-> "IDLE", cycle |-> 0] /\ UNCHANGED Closed
  BY <1>1 DEF Inactive, Underway, PhaseOf, Closed, NoCycle
<1>3. Underway.phase \in {"CLOSING", "REOPENED"}
  BY <1>1 DEF Underway, PhaseOf
<1>4. Authority!Abandon
  BY <1>2, <1>3 DEF Authority!Abandon, Authority!Idle, Underway, PhaseOf, Closed
<1> QED
  BY <1>4 DEF Authority!Next

LEMMA CloseStep ==
    ASSUME TypeOK, HeadSound, NEW cmd \in inflight, Approve(cmd)
    PROVE  Authority!Next
<1> DEFINE c == cmd.cycle
<1>1. /\ c \in Cycles /\ coordinator.activeState = "PENDING_APPROVAL" /\ coordinator.activeCycle = c
      /\ coordinator' = Inactive(coordinator.workflowRevision + 1)
  BY DEF TypeOK, CommandType, Approve, AcceptsApprove, CanFinishReview, Matches, AfterFinishReview
<1>2. Underway = [phase |-> "CLOSING", cycle |-> c] /\ Underway' = [phase |-> "IDLE", cycle |-> 0]
  BY <1>1 DEF Inactive, Underway, PhaseOf, NoCycle
<1>3. PICK n \in Nat : n = Len(head.ranges)
  BY DEF TypeOK, HeadType
<1>4. /\ head.ranges \in Seq(RangeType) /\ DOMAIN head.ranges = 1..n
      /\ NewRange(c) \in RangeType /\ head'.ranges = Append(head.ranges, NewRange(c))
  <2>1. head.ranges \in Seq(RangeType) /\ DOMAIN head.ranges = 1..n
    BY <1>3 DEF TypeOK, HeadType
  <2>2. NewRange(c) \in RangeType /\ head'.ranges = Append(head.ranges, NewRange(c))
    BY ApprovePushes DEF Pushes
  <2> QED
    BY <2>1, <2>2
<1>5. /\ DOMAIN head'.ranges = 1..(n + 1) /\ head'.ranges[n + 1] = NewRange(c)
      /\ \A i \in 1..n : head'.ranges[i] = head.ranges[i]
  BY <1>3, <1>4
<1>6. Authority!NextRange(c) = [from |-> NewRange(c).from, through |-> NewRange(c).through]
  <2>1. NewRange(c).through = c - 1 /\ NewRange(c).from = AffectedFrom(head, c - 1)
    BY NewFields
  <2>2. AffectedFrom(head, c - 1) = IF Closed = <<>> THEN January(c - 1) ELSE Authority!Horizon + 1
    BY ClosedIsSeq, HorizonOf DEF AffectedFrom
  <2> QED
    BY <2>1, <2>2 DEF Authority!NextRange, Authority!StartOfYear, January, Closed
<1> DEFINE pushed == [from |-> NewRange(c).from, through |-> NewRange(c).through]
<1>7. Closed' = Append(Closed, pushed)
  <2>1. Closed \in Seq(Months) /\ Len(Closed) = n
    BY <1>3, ClosedIsSeq
  <2>2. /\ Append(Closed, pushed) \in Seq(Months) /\ Len(Append(Closed, pushed)) = n + 1
        /\ Append(Closed, pushed)[n + 1] = pushed
        /\ \A i \in 1..n : Append(Closed, pushed)[i] = Closed[i]
    <3>1. pushed \in Months
      BY <1>4 DEF RangeType, Months
    <3> HIDE DEF pushed
    <3> QED
      BY <2>1, <3>1
  <2>3. Append(Closed, pushed) \in [1..(n + 1) -> Months]
    BY <2>2, LenProperties
  <2>4. DOMAIN Closed' = 1..(n + 1) /\ Closed' = [i \in 1..(n + 1) |-> Closed'[i]]
    BY <1>5 DEF Closed
  <2>5. Closed'[n + 1] = pushed
    BY <1>5 DEF Closed
  <2>6. \A i \in 1..n : Closed'[i] = Closed[i]
    BY <1>4, <1>5 DEF Closed
  <2>7. \A i \in 1..(n + 1) : i \in 1..n \/ i = n + 1
    OBVIOUS
  <2>8. \A i \in 1..(n + 1) : Closed'[i] = Append(Closed, pushed)[i]
    <3> HIDE DEF pushed
    <3> QED
      BY <2>2, <2>5, <2>6, <2>7
  <2> QED
    BY <2>3, <2>4, <2>8
<1>8. Authority!Close(c)
  <2>1. Closed' = Append(Closed, Authority!NextRange(c))
    BY <1>6, <1>7
  <2> QED
    BY <1>2, <2>1 DEF Authority!Close, Authority!Idle, Authority!Phase, Underway, PhaseOf, Closed
<1> QED
  BY <1>1, <1>8 DEF Authority!Next

LEMMA AskStep ==
    ASSUME TypeOK, HeadSound, Definite, NEW cmd \in inflight, RequestReopen(cmd)
    PROVE  Authority!Next
<1> DEFINE c == cmd.cycle
<1>1. /\ coordinator.activeState = "INACTIVE" /\ head.exists /\ c = head.closedThrough + 1
      /\ coordinator' = Active(c, "REOPEN_REQUESTED", coordinator.workflowRevision + 1)
      /\ UNCHANGED head
  BY DEF RequestReopen, AcceptsReopenRequest, ReopensHorizon, RestorationEvidence,
         CanRequestReopen, CanStart, AfterRequestReopen
<1>2. Underway = [phase |-> "IDLE", cycle |-> 0]
  BY <1>1 DEF Underway, PhaseOf, Definite, NoCycle
<1>3. Underway' = [phase |-> "REOPENING", cycle |-> Authority!Horizon + 1] /\ UNCHANGED Closed
  <2>1. c = Authority!Horizon + 1
    BY <1>1, HorizonOf
  <2>2. Underway' = [phase |-> "REOPENING", cycle |-> c] /\ UNCHANGED Closed
    BY <1>1 DEF Active, Underway, PhaseOf, Closed
  <2> QED
    BY <2>1, <2>2
<1>4. Closed # <<>>
  BY <1>1, ClosedIsSeq
<1>5. Authority!AskReopen
  BY <1>2, <1>3, <1>4 DEF Authority!AskReopen, Authority!Idle, Authority!Phase, Underway, PhaseOf, Closed
<1> QED
  BY <1>5 DEF Authority!Next

LEMMA RefuseStep ==
    ASSUME TypeOK, NEW cmd \in inflight, RejectReopen(cmd)
    PROVE  Authority!Next
<1>1. /\ coordinator.activeState = "REOPEN_REQUESTED"
      /\ coordinator' = Inactive(coordinator.workflowRevision + 1) /\ UNCHANGED head
  BY DEF RejectReopen, DecideReopen, AcceptsReopenDecision, CanDecideReopen, Matches,
         AfterDecideReopen
<1>2. Underway' = [phase |-> "IDLE", cycle |-> 0] /\ UNCHANGED Closed
  BY <1>1 DEF Inactive, Underway, PhaseOf, Closed, NoCycle
<1>3. Underway.phase = "REOPENING"
  BY <1>1 DEF Underway, PhaseOf
<1>4. Authority!Refuse
  BY <1>2, <1>3 DEF Authority!Refuse, Authority!Idle, Underway, PhaseOf, Closed
<1> QED
  BY <1>4 DEF Authority!Next

LEMMA ReleaseStep ==
    ASSUME TypeOK, HeadSound, VersionsRestore, NEW cmd \in inflight, ApproveReopen(cmd)
    PROVE  Authority!Next
<1> DEFINE c == cmd.cycle
<1>1. /\ coordinator.activeState = "REOPEN_REQUESTED" /\ coordinator.activeCycle = c
      /\ coordinator' = Active(coordinator.activeCycle, "REOPENED", coordinator.workflowRevision + 1)
      /\ head.exists /\ c = head.closedThrough + 1
  BY ReopenPops DEF ApproveReopen, DecideReopen, AcceptsReopenDecision, CanDecideReopen, Matches,
                    AfterDecideReopen
<1>2. c = Authority!Horizon + 1
  BY <1>1, HorizonOf
<1>3. Underway = [phase |-> "REOPENING", cycle |-> c] /\ Underway' = [phase |-> "REOPENED", cycle |-> c]
  BY <1>1 DEF Active, Underway, PhaseOf
<1>4. PICK n \in Nat : n = Len(head.ranges)
  BY DEF TypeOK, HeadType
<1>5. /\ Closed \in Seq(Months) /\ Len(Closed) = n /\ n > 0 /\ DOMAIN head.ranges = 1..n
  BY <1>1, <1>4, ClosedIsSeq DEF TypeOK, HeadType
<1>6. DOMAIN head'.ranges = 1..(n - 1) /\ \A i \in 1..(n - 1) : head'.ranges[i] = head.ranges[i]
  <2>1. head'.ranges \in Seq(RangeType)
    <3>1. TypeOK'
      BY TypeStep DEF Next, Execute
    <3> QED
      BY <3>1 DEF TypeOK, HeadType
  <2>2. Len(head'.ranges) = n - 1 /\ \A i \in 1..(n - 1) : head'.ranges[i] = head.ranges[i]
    BY <1>4, ReopenCuts
  <2> QED
    BY <2>1, <2>2
<1>7. Closed' = SubSeq(Closed, 1, Len(Closed) - 1)
  <2>1. SubSeq(Closed, 1, n - 1) = [i \in 1..(n - 1) |-> Closed[i]]
    BY <1>5
  <2>2. Closed' = [i \in 1..(n - 1) |-> Closed'[i]]
    BY <1>6 DEF Closed
  <2>3. \A i \in 1..(n - 1) : i \in 1..n
    BY <1>5
  <2>4. \A i \in 1..(n - 1) : Closed'[i] = Closed[i]
    BY <1>5, <1>6, <2>3 DEF Closed
  <2> QED
    BY <1>5, <2>1, <2>2, <2>4
<1>8. Authority!Release
  <2>1. /\ Underway = [phase |-> "REOPENING", cycle |-> Authority!Horizon + 1]
        /\ Underway' = [phase |-> "REOPENED", cycle |-> Authority!Horizon + 1]
    BY <1>2, <1>3
  <2> QED
    BY <1>7, <2>1 DEF Authority!Release, Authority!Phase, Underway, PhaseOf, Closed
<1> QED
  BY <1>8 DEF Authority!Next

Implements == TypeOK /\ DocumentsAgree /\ HeadSound /\ VersionsRestore /\ Prepared /\ Definite

LEMMA AuthorityStep ==
    ASSUME Implements, [Next]_vars
    PROVE  Authority!Next \/ UNCHANGED <<Closed, Underway>>
<1> USE DEF Implements
<1>1. CASE \A cmd \in inflight : ~Execute(cmd)
  <2>1. UNCHANGED CycleDocuments /\ UNCHANGED <<head, versions>>
    BY <1>1, OthersLeaveDocuments, HeadOnlyMovesBy DEF Execute
  <2> QED
    BY <2>1 DEF CycleDocuments, Closed, Underway
<1>2. CASE \E cmd \in inflight : Execute(cmd)
  BY <1>2, BeginStep, AbandonStep, CloseStep, AskStep, RefuseStep, ReleaseStep DEF Execute
<1> QED
  BY <1>1, <1>2

\* The six handlers, interleaved in any way, do what the abstract authority allows:
\* they push the next range, pop the last one, and have one cycle under way.
THEOREM AuthorityIsImplemented == Spec => ImplementsAuthority
<1>1. Init => Implements /\ Authority!Init
  <2>1. Init => Implements
    BY TypeInit, DocumentsInit, HeadInit, ReopenableInit, BackedInit DEF Implements
  <2>2. Init => Closed = <<>> /\ Underway = [phase |-> "IDLE", cycle |-> 0]
    BY DEF Init, NoAuthority, Closed, Inactive, Underway, PhaseOf, NoCycle
  <2> QED
    BY <2>1, <2>2 DEF Authority!Init, Authority!Idle, Closed, Underway, PhaseOf
<1>2. Implements /\ [Next]_vars => Implements'
  BY TypeStep, DocumentsStep, HeadSoundStep, VersionsRestoreStep, PreparedStep, DefiniteStep
     DEF Implements
<1>3. Implements /\ [Next]_vars => [Authority!Next]_<<Closed, Underway>>
  BY AuthorityStep
<1> QED
  BY <1>1, <1>2, <1>3, PTL DEF Spec, ImplementsAuthority, Authority!Spec, Closed, Underway, PhaseOf
=============================================================================

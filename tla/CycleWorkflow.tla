--------------------------- MODULE CycleWorkflow ---------------------------
(***************************************************************************)
(* The coordinator of one project's month settlements: at most one cycle   *)
(* is under way, and every command names the workflow revision it was      *)
(* prepared against.  The operators are the pure functions of the domain   *)
(* class CashflowSettlementCycleWorkflow: a Can... operator is the guard   *)
(* (the source throws a Violation when it is false), the operator of the   *)
(* same stem is the coordinator the function returns.                      *)
(***************************************************************************)
EXTENDS Naturals

\* The blank active cycle of an inactive coordinator (the source's "").
NoCycle == 0

ActiveStates == {"PENDING_APPROVAL", "REOPEN_REQUESTED", "REOPENED"}

\* The canonical constructor blanks the cycle of an inactive coordinator.
Inactive(revision) ==
    [activeCycle |-> NoCycle, activeState |-> "INACTIVE", workflowRevision |-> revision]

Active(cycle, state, revision) ==
    [activeCycle |-> cycle, activeState |-> state, workflowRevision |-> revision]

Matches(co, cycle, state, expected) ==
    /\ co.workflowRevision = expected
    /\ co.activeCycle = cycle
    /\ co.activeState = state

\* Mutant: a start looks at the state and not at the revision it was prepared for.
CanStartAtAnyRevision(co, expected) == co.activeState = "INACTIVE"

CanStart(co, expected) ==
    /\ co.workflowRevision = expected
    /\ co.activeState = "INACTIVE"

CanSubmit(co, expected) == CanStart(co, expected)
AfterSubmit(co, cycle) == Active(cycle, "PENDING_APPROVAL", co.workflowRevision + 1)

CanFinishReview(co, cycle, expected) == Matches(co, cycle, "PENDING_APPROVAL", expected)
AfterFinishReview(co) == Inactive(co.workflowRevision + 1)

CanRequestReopen(co, expected) == CanStart(co, expected)
AfterRequestReopen(co, cycle) == Active(cycle, "REOPEN_REQUESTED", co.workflowRevision + 1)

\* Mutant: the coordinator takes over the request's status instead of being cleared.
AfterDecideReopenKeepsStatus(co, approved) ==
    Active(co.activeCycle, IF approved THEN "REOPENED" ELSE "APPROVED", co.workflowRevision + 1)

CanDecideReopen(co, cycle, expected) == Matches(co, cycle, "REOPEN_REQUESTED", expected)
AfterDecideReopen(co, approved) ==
    IF approved THEN Active(co.activeCycle, "REOPENED", co.workflowRevision + 1)
                ELSE Inactive(co.workflowRevision + 1)

CanResubmit(co, cycle, expected) == Matches(co, cycle, "REOPENED", expected)
AfterResubmit(co) == Active(co.activeCycle, "PENDING_APPROVAL", co.workflowRevision + 1)

\* Mutant: recovery knows pending cycles and leaves a reopened one under way.
AfterCancelPendingOnly(co) ==
    IF co.activeState = "REOPENED" THEN Active(co.activeCycle, "REOPENED", co.workflowRevision + 1)
    ELSE Inactive(co.workflowRevision + 1)

CanCancelActive(co, cycle, expected) ==
    \E state \in {"PENDING_APPROVAL", "REOPENED"} : Matches(co, cycle, state, expected)
AfterCancelActive(co) == Inactive(co.workflowRevision + 1)
=============================================================================

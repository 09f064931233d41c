\* An approval prepared before a reopening is executed after it.
CONSTANTS
  Cycles = {2}
  Members = {ann}
  Admins = {ann}
  Sources = {s1}
  TrackedMonths = {}
  MonthsPerYear = 3
  MaxAffectedMonths = 3
  NoSource = NoSource
  NoMember = NoMember
  MaxWorkflowRevision = 6
  MaxProjectVersion = 1
  MaxInFlight = 2
  MaxAmendedRevision = 1
SPECIFICATION Spec
INVARIANTS ApprovalUsesPresentRevision
\* The bounds end every behaviour.
CHECK_DEADLOCK FALSE

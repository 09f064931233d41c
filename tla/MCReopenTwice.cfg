\* The second of two closed ranges is reopened, then the first.
CONSTANTS
  Cycles = {2, 3}
  Members = {ann}
  Admins = {ann}
  Sources = {s1}
  TrackedMonths = {}
  MonthsPerYear = 3
  MaxAffectedMonths = 3
  NoSource = NoSource
  NoMember = NoMember
  MaxWorkflowRevision = 7
  MaxProjectVersion = 1
  MaxInFlight = 1
  MaxAmendedRevision = 2
SPECIFICATION Spec
INVARIANTS HorizonCanBeReopened
\* The bounds end every behaviour.
CHECK_DEADLOCK FALSE

\* Cycles of two years of three months: month 5 is too far from month 1 for one range.
CONSTANTS
  Cycles = {2, 5, 6}
  Members = {ann}
  Admins = {ann}
  Sources = {s1}
  TrackedMonths = {1, 4}
  MonthsPerYear = 3
  MaxAffectedMonths = 3
  NoSource = NoSource
  NoMember = NoMember
  MaxWorkflowRevision = 6
  MaxProjectVersion = 1
  MaxInFlight = 1
  MaxAmendedRevision = 2
SPECIFICATION Spec
INVARIANTS OfferedIsAccepted
PROPERTIES WeeksOpenWithTheRange
\* The bounds end every behaviour.
CHECK_DEADLOCK FALSE

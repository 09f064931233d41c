\* Two neighbouring cycles of one year, two commands in flight.
CONSTANTS
  Cycles = {2, 3}
  Members = {ann}
  Admins = {ann}
  Sources = {s1}
  TrackedMonths = {}
  MonthsPerYear = 3
  MaxAffectedMonths = 3
  NoSource = NoSource
  NoMember = NoMember
  MaxWorkflowRevision = 8
  MaxProjectVersion = 1
  MaxInFlight = 2
  MaxAmendedRevision = 2
SPECIFICATION Spec
INVARIANTS TypeOK DocumentsAgree HeadIsCanonical AuthorityAgrees VersionsRestore InconsistentIsExplained
PROPERTIES StaleIsRefused ImplementsAuthority
\* The bounds end every behaviour.
CHECK_DEADLOCK FALSE

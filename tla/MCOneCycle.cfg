\* One cycle, two sheet revisions, two members, the approver replaced once.
CONSTANTS
  Cycles = {2}
  Members = {ann, bob}
  Admins = {bob}
  Sources = {s1, s2}
  TrackedMonths = {}
  MonthsPerYear = 3
  MaxAffectedMonths = 3
  NoSource = NoSource
  NoMember = NoMember
  MaxWorkflowRevision = 5
  MaxProjectVersion = 2
  MaxInFlight = 2
  MaxAmendedRevision = 1
SPECIFICATION Spec
INVARIANTS EvidenceIsStaged NeverStuck
\* The bounds end every behaviour.
CHECK_DEADLOCK FALSE

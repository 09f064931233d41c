SPECIFICATION Spec
CONSTANTS
  tab1 = tab1
  tab2 = tab2
  other = other
  ann = ann
  bob = bob
  None = None
  Sessions = {tab1, tab2, other}
  Actors = {ann, bob}
  ActorOf <- TwoUsers
  TTL = 1
  Skew = 1
  MaxGrants = 2
  MaxRevision = 1
  MaxSent = 2
SYMMETRY Tabs
INVARIANTS TypeOK EndsAreRecorded SavesStayInTheirDraft SubmittedMeansSaved
PROPERTY WritersAdvance
CHECK_DEADLOCK FALSE

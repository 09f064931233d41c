SPECIFICATION Spec
CONSTANTS
  r1 = r1
  r2 = r2
  c1 = c1
  c2 = c2
  k1 = k1
  k2 = k2
  None = None
  Runs = {r1}
  Calls = {c1, c2}
  Keys = {k1, k2}
  Contents = {0, 1}
  NewContent = 0
  Modes = {TRUE, FALSE}
  Life = 1
  Flight = 1
  Lease = 3
  MaxEdits = 1
  MaxForced = 1
SYMMETRY Symmetry
INVARIANTS PublishedWasWritten YearWrittenOnce
PROPERTY WritesUnderLock

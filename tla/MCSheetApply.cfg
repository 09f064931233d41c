SPECIFICATION FairSpec
CONSTANTS
  r1 = r1
  r2 = r2
  c1 = c1
  c2 = c2
  k1 = k1
  k2 = k2
  None = None
  Runs = {r1, r2}
  Calls = {c1, c2}
  Keys = {k1}
  Contents = {0, 1}
  NewContent = 0
  Modes = {TRUE}
  Life = 1
  Flight = 0
  Lease = 2
  MaxEdits = 0
  MaxForced = 0
INVARIANTS TypeOK LockAgrees
PROPERTY LockIsFreed

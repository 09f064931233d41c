SPECIFICATION FairSpec
CONSTANTS
  tab1 = tab1
  tab2 = tab2
  other = other
  ann = ann
  bob = bob
  None = None
  Sessions = {tab1, other}
  Actors = {ann, bob}
  ActorOf <- TwoTabs
  TTL = 1
  Skew = 1
  MaxGrants = 2
  MaxRevision = 1
  MaxSent = 1
PROPERTY AbandonedLeaseIsFreed
CHECK_DEADLOCK FALSE

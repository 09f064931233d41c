SPECIFICATION FairSpec
CONSTANTS
  app = app
  cron = cron
  ann = ann
  kim = kim
  lee = lee
  Workers = {app, cron}
  Equipped = {app}
  MaxAttempts = 2
  Lease = 2
  MaxEvents = 1
  MaxFaults = 1
  Names = {kim, lee}
  MaxMoves = 1
  Users = {ann}
  Approvers = {ann}
INVARIANTS TypeOK ClaimsEndByExpiry DoneMeansDelivered MissingIsReported
PROPERTIES FinishedStaysFinished LonePushesKeepNames EventsEnd

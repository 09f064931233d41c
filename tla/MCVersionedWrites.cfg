SPECIFICATION FairSpec
CONSTANTS
  k1 = k1
  k2 = k2
  k3 = k3
  r1 = r1
  r2 = r2
  cron = cron
  Keys = {k1, k2, k3}
  TTL = 1
  Views = {"approval_inbox"}
  Requests = {r1, r2}
  Crons = {cron}
  Runners = {r1, r2, cron}
  MaxAttempts = 2
  MaxVersion = 2
  Scenarios <- MCScenarios
INVARIANTS TypeOK AppliedOnce RunsAloneUnlessLate FreshUnlessOvertaken
PROPERTIES JobsEnd TransitionsFromPresentState

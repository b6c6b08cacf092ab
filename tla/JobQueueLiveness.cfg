SPECIFICATION FairSpec
CONSTANTS
  w1 = w1
  w2 = w2
  w3 = w3
  acme = acme
  globex = globex
  None = None
  Jobs = {1, 2}
  Seeded = {1}
  Companies = {acme}
  Workers = {w1, w2}
  MaxAttempts = 2
  MaxConcurrentJobs = 2
  InitialQuota = 2
  MaxCrashes = 1
PROPERTIES
  EveryRunEnds
  EveryQueuedJobIsServed

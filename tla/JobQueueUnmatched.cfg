SPECIFICATION Spec
CONSTANTS
  w1 = w1
  w2 = w2
  w3 = w3
  acme = acme
  globex = globex
  None = None
  Jobs = {1, 2}
  Seeded = {}
  Companies = {acme}
  Workers = {w1, w2}
  MaxAttempts = 3
  MaxConcurrentJobs = 2
  InitialQuota = 2
  MaxCrashes = 0
SYMMETRY WorkerSymmetry
PROPERTIES
  UnmatchedFinalizeWasCancelled

SPECIFICATION Spec
CONSTANTS
  w1 = w1
  w2 = w2
  w3 = w3
  acme = acme
  globex = globex
  None = None
  Jobs = {1, 2}
  Seeded = {}
  Companies = {acme, globex}
  Workers = {w1, w2, w3}
  MaxAttempts = 2
  MaxConcurrentJobs = 1
  InitialQuota = 2
  MaxCrashes = 2
SYMMETRY WorkerSymmetry
INVARIANTS
  ClaimsBelongToTheirWorker
  OneWorkerPerAttempt
  ResultIffDone
  DeadLettersAreExhausted
  AuditExplainsTheRow
  QuotaPaysForResults
PROPERTIES
  FinalStatesAreKept
  LiveClaimsAreNotStolen
  ImplementsLifecycle
  RoundsAreJobRounds

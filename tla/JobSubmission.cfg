SPECIFICATION FairSpec
CONSTANTS
  r1 = r1
  r2 = r2
  r3 = r3
  j1 = j1
  j2 = j2
  j3 = j3
  acme = acme
  ghost = ghost
  k1 = k1
  k2 = k2
  report = report
  import = import
  None = None
  Companies = {acme, ghost}
  Known = {acme}
  Keys = {k1, k2}
  Kinds = {report, import}
  Jobs = {j1, j2}
  Requests = {r1, r2}
  MaxConcurrentJobs = 1
INVARIANTS
  CreatesKeepTheLimit
  InsertFindsItsKeyFree
PROPERTIES
  ImplementsKeyedJobs
  EveryRequestIsAnswered
CHECK_DEADLOCK FALSE

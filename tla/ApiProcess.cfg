SPECIFICATION ApiFairSpec
CONSTANTS
  Runners = {r1, r2}
  here = r1
  Requests = {q1, q2}
  LastFile = 3
  Concurrent = {2}
  MaxRuns = 3
  None = None
INVARIANTS
  LedgerIsAPrefix
  LedgerTellsTheSchema
  CounterIsExact
  PoolOutlivesRequests
  RequestsMeetTheSchema
PROPERTIES
  RunnersGetTheLock
  ShutdownsEnd
CHECK_DEADLOCK FALSE

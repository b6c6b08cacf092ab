SPECIFICATION FairSpec
CONSTANT MaxFailures = 3
INVARIANTS
  CancellationsAreSeen
  WorkIsSupervised
  FinalizesAreClean
  SignalsHaveACause
  NoThreadOutlivesItsRound
PROPERTIES
  ImplementsJobRound
  CancelledWorkEnds
CHECK_DEADLOCK FALSE

SPECIFICATION FairSpec
CONSTANT MaxFailures = 3
PROPERTIES
  ProcessLivesOn
CHECK_DEADLOCK FALSE

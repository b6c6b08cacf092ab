SPECIFICATION FairSpec
CONSTANTS
  Jobs = {1, 2}
  Poll = 3
  MaxAttempts = 3
INVARIANTS
  NeverOversleeps
PROPERTIES
  DueJobsAreTaken
  ShutdownsStop
CHECK_DEADLOCK FALSE

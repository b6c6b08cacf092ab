SPECIFICATION FairSpec
CONSTANTS
  Auths = {"1:user", "2:user"}
  Owners = {"1:user"}
  MaxChanges = 4
INVARIANTS
  MutationsAreShown
  EndsAreExplained
  ResultsAreThere
  JobsStayInTheirCompany
PROPERTIES
  ActiveJobsAreFollowed
CHECK_DEADLOCK FALSE

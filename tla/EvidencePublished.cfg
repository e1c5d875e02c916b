SPECIFICATION Spec
CONSTANTS
  c1 = c1
  c2 = c2
  none = none
  junit = junit
  N = 1
  Checks <- MCChecks
  DomainOf <- MCOneDomainOf
  JUnitContract = junit
  None = none
  Profiles <- MCProfiles
  Reviewed <- MCReviewed
  MaxTime = 1
  MaxSuffix = 1
  MaxRuns = 2
  MaxFailures = 1
  MaxQualifications = 0
  MaxRemovals = 0
  MaxPublications = 1
CHECK_DEADLOCK FALSE
INVARIANT
  PublishedRunSucceeded

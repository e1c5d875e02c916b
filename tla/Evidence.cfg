SPECIFICATION Spec
CONSTANTS
  c1 = c1
  c2 = c2
  none = none
  junit = junit
  N = 2
  Checks <- MCChecks
  DomainOf <- MCDomainOf
  JUnitContract = junit
  None = none
  Profiles <- MCProfiles
  Reviewed <- MCReviewed
  MaxTime = 1
  MaxSuffix = 2
  MaxRuns = 3
  MaxFailures = 1
  MaxQualifications = 1
  MaxRemovals = 1
  MaxPublications = 1
CHECK_DEADLOCK FALSE
INVARIANTS
  ReportHoldsLatest
  ReadyMeansSucceeded
  UploadsAssessedRun
PROPERTY
  RecordsNeverRewritten

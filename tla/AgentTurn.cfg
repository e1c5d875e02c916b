SPECIFICATION Spec
CONSTANTS
  none = none
  absent = absent
  Checks = {1, 2, 3}
  Editable = {1, 2}
  Contents <- MCContents
  Absent = absent
  Good <- MCGood
  Initial <- MCInitial
  Candidates = {"first", "red"}
  Edits = {"mine", "stub", "first"}
  StaticPrints = {"schema"}
  LivePrints = {"timeout", "refused"}
  MaxAttempts = 3
  MaxFailureGroups = 3
  None = none
  MaxStops = 1
  StopPoints <- Phases
  MaxEdits = 1
  EditPoints <- Phases
CHECK_DEADLOCK FALSE
INVARIANTS
  FailedChangesRemoved
  CompleteMeansGreen
  EveryRetryHasANewFailure
PROPERTY
  OnlyApprovedOrRestored

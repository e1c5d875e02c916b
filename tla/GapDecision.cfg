SPECIFICATION DecisionSpec
CONSTANTS
  Profiles <- MCProfiles
  Rows <- MCRows
CHECK_DEADLOCK FALSE
INVARIANTS
  OwnedFailureBlocks
  OnlySignedSkipsAccepted
  FailureHasARoute
  NarrowerSelectorDecides

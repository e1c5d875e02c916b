SPECIFICATION Spec
CONSTANTS
  none = none
  partial = partial
  D = 2
  Files <- MCFiles
  Versions <- MCVersions
  Scope <- MCScope
  Clean <- MCClean
  None = none
  Partial = partial
  MaxKills = 1
  MaxEdits = 1
  EditPoints <- MCEditPoints
  RejectsFresh = TRUE
  Insists = TRUE
CHECK_DEADLOCK FALSE
INVARIANTS
  DeclinedNotShownAgain
  OfferedWithinScope
  LiveOnlyWhenClean
PROPERTY
  OnlyReviewedChanges

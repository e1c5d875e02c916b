SPECIFICATION FairSpec
CONSTANTS
  none = none
  partial = partial
  D = 2
  Files <- MCFiles
  Versions <- MCVersions
  Scope <- MCScope
  Clean <- MCClean
  None = none
  Partial = partial
  MaxKills = 2
  MaxEdits = 0
  EditPoints = {}
  RejectsFresh = FALSE
  Insists = FALSE
CHECK_DEADLOCK FALSE
PROPERTY
  RepeatReachesLive

SPECIFICATION FairSpec
CONSTANTS
  none = none
  cut = cut
  D = 2
  StaticOf <- MCNoneOf
  SemanticOf <- MCNoneOf
  Manual = {}
  Shared = {}
  Audited = {1, 2}
  MaxAttempts = 2
  MaxMishaps = 1
  None = none
  Cut = cut
CHECK_DEADLOCK FALSE
PROPERTY
  FilesReachLive

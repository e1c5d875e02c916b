SPECIFICATION Spec
CONSTANTS
  none = none
  cut = cut
  D = 2
  StaticOf <- MCStaticOf
  SemanticOf <- MCSemanticOf
  Manual = {4}
  Shared = {1, 3}
  Audited = {1, 2}
  MaxAttempts = 2
  MaxMishaps = 1
  None = none
  Cut = cut
CHECK_DEADLOCK FALSE
INVARIANTS
  LiveIsAudited
  FindingsStayHome
PROPERTIES
  ExportKeepsCandidates
  StagedAsAsked

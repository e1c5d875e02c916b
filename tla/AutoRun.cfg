SPECIFICATION Spec
CONSTANTS
  g1 = g1
  g2 = g2
  g3 = g3
  f1 = f1
  f2 = f2
  script = script
  client = client
  none = none
  Gaps <- MCGaps
  Findings <- MCFindings
  Units <- MCUnits
  UnitOf <- MCUnitOf
  Rank <- MCRank
  Editable <- MCEditable
  Fingerprints = {"timeout", "schema"}
  MaxAttempts = 3
  Limits <- MCLimits
  AuditRequired = TRUE
CHECK_DEADLOCK FALSE
INVARIANTS
  NoThirdIdenticalFailure
  BudgetsKept
  StagedGapsStayResolved
  EveryBlockerReported
  SemanticFixesAudited

SPECIFICATION FairSpec
CONSTANTS
  Sources <- MCSources
  Required = {"page"}
  Local = {"spec"}
  Versions = {"v1", "v2"}
  First = "v1"
  Domains = {"vm"}
  Scopes <- MCScopes
  InDeclared = {"covered", "excluded", "open"}
  Settled = {"covered", "excluded"}
  ClaimsOf <- MCClaims
  Drafts <- MCDrafts
  Defects = {schema}
  schema = schema
  Initial = Initial
  MaxAttempts = 2
  MaxKills = 1
  MaxChanges = 1
  None = None
  Cut = Cut
CHECK_DEADLOCK FALSE
INVARIANTS
  NoStaleEvidence
  InitialKept
PROPERTIES
  PromotedAsReviewed
  NoRefutedClaim
  RepeatQualifies

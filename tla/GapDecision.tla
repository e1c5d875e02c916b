---------------------------- MODULE GapDecision ----------------------------
(***************************************************************************)
(* From a scanned row to the decision that generation, readiness and       *)
(* publication share: the row is resolved against the solution profile     *)
(* (SolutionProfile.resolve), enriched with the responsible route          *)
(* (enrich_report_with_profile) and decided (decide_gap).                  *)
(*                                                                         *)
(* A row keeps its status, what the scanner allows, and the values its     *)
(* selectors are matched with; a profile keeps the scope of the row's      *)
(* domain.  Patterns are literal, or the wildcard "*" that stands for any  *)
(* pattern with a glob character.                                          *)
(***************************************************************************)
EXTENDS Naturals, FiniteSets

CONSTANTS
  Profiles,   \* profiles under consideration
  Rows        \* scanned rows of the profile's domain

FailureStatuses == {"fail", "not_implemented", "error"}
RowStatuses == FailureStatuses \cup {"pass", "skipped"}
Coverages == {"covered", "gap", "out_of_scope", "unknown"}
Modes == {"test", "evidence", "skip", "deferred"}
Actors == {"isv", "other"}
Actions ==
  {"implement_or_fix_adapter", "request_external_adapter", "collect_evidence",
   "record_product_gap", "skip_with_rationale", "request_scope_decision"}

Dimensions == {"steps", "categories", "classes"}

Inherit == "inherit"
Wildcard == "*"
NoValue == "none"

ASSUME InputAssumption ==
  /\ \A p \in Profiles :
       /\ p.owned \in BOOLEAN /\ p.declared \in BOOLEAN
       /\ p.coverage \in Coverages /\ p.mode \in Modes /\ p.owner \in Actors
       /\ p.owned => p.declared
       /\ IsFiniteSet(p.capabilities)
       /\ \A c \in p.capabilities :
            /\ c.coverage \in Coverages \cup {Inherit}
            /\ c.mode \in Modes \cup {Inherit}
            /\ c.owner \in Actors \cup {Inherit}
  /\ \A r \in Rows :
       /\ r.status \in RowStatuses
       /\ r.fixable \in BOOLEAN /\ r.stepMissing \in BOOLEAN /\ r.hasTarget \in BOOLEAN

VARIABLES
  phase,      \* "scanned", "resolved", "enriched", "decided"; or "refused"
  profile,
  row,
  resolved,   \* the ResolvedResponsibility of the row, or Unresolved
  enrichment, \* enrichment.solution_profile of the row
  decision    \* the GapDecision

decisionVars == <<phase, profile, row, resolved, enrichment, decision>>

-----------------------------------------------------------------------------
(* Which capability a row belongs to.                                      *)

\* _matches_dimension: no pattern matches anything, any pattern needs a value.
MatchesDimension(patterns, value) ==
  patterns = {} \/ (value # NoValue /\ patterns \cap {value, Wildcard} # {})

Matches(selector, r) ==
  \A d \in Dimensions : MatchesDimension(selector[d], r.values[d])

Constrained(selector) == Cardinality({d \in Dimensions : selector[d] # {}})

Exact(selector) == Cardinality({d \in Dimensions : selector[d] \ {Wildcard} # {}})

\* specificity, compared as a pair.
AtLeastAsSpecific(s, t) ==
  \/ Constrained(s) > Constrained(t)
  \/ Constrained(s) = Constrained(t) /\ Exact(s) >= Exact(t)

Matching(p, r) == {c \in p.capabilities : Matches(c.selector, r)}

\* Mutant: the first capability that matches decides.
BestOfAll(p, r) ==
  IF Matching(p, r) = {} THEN {} ELSE {CHOOSE c \in Matching(p, r) : TRUE}

Best(p, r) ==
  {c \in Matching(p, r) :
     \A other \in Matching(p, r) : AtLeastAsSpecific(c.selector, other.selector)}

-----------------------------------------------------------------------------
(* The route of a row.                                                     *)

Overriding(value, default) == IF value = Inherit THEN default ELSE value

\* The effective coverage, mode and adapter owner of a capability, and which.
Effective(c, p) ==
  [coverage |-> Overriding(c.coverage, p.coverage),
   mode     |-> Overriding(c.mode, p.mode),
   owner    |-> Overriding(c.owner, p.owner),
   by       |-> {c}]

OfDomain(p) == [coverage |-> p.coverage, mode |-> p.mode, owner |-> p.owner, by |-> {}]

Unresolved == [coverage |-> "unknown", mode |-> "deferred", owner |-> "other", by |-> {}]

\* _resolve_action
Route(s) ==
  IF s.coverage = "gap" THEN "record_product_gap"
  ELSE IF s.coverage = "out_of_scope" \/ s.mode = "skip" THEN "skip_with_rationale"
  ELSE IF s.coverage = "unknown" \/ s.mode = "deferred" THEN "request_scope_decision"
  ELSE IF s.mode = "evidence" THEN "collect_evidence"
  ELSE IF s.owner = "isv" THEN "implement_or_fix_adapter"
  ELSE "request_external_adapter"

Ratified(p) == p.status \in {"reviewed", "confirmed"} /\ p.stage = "validate"

SilentSkipActions == {"skip_with_rationale", "request_external_adapter"}

\* Mutant: only a skip, and no request to another party, is put back.
ReconciledSkip(action, owned, status) ==
  IF owned /\ status \in FailureStatuses /\ action = "skip_with_rationale"
  THEN "request_scope_decision" ELSE action

\* _reconcile_masked_failure: the scan outranks a route that drops the row.
Reconciled(action, owned, status) ==
  IF owned /\ status \in FailureStatuses /\ action \in SilentSkipActions
  THEN "request_scope_decision" ELSE action

-----------------------------------------------------------------------------
(* Whether the profile admits the domain to validation at all.             *)

Proven(coverage, mode) ==
  \/ coverage = "covered" /\ mode = "test"
  \/ coverage = "out_of_scope" /\ mode = "skip"

\* Mutant: only the domain's own pairing is looked at.
ReadyByDomain(p) ==
  Ratified(p) /\ p.declared /\ p.owned /\ Proven(p.coverage, p.mode)

\* validation_profile_issues is empty.
Ready(p) ==
  /\ Ratified(p)
  /\ p.declared
  /\ p.owned
  /\ Proven(p.coverage, p.mode)
  /\ \A c \in p.capabilities :
       Proven(Effective(c, p).coverage, Effective(c, p).mode)

-----------------------------------------------------------------------------
(* The enrichment and the decision of a row.                               *)

\* _enrich_row: the outcome of the scan stays, the scanner's permission to
\* edit is kept only for a ratified, owned adapter.
EnrichmentOf(p, r, s) ==
  LET route == IF p.declared THEN Route(s) ELSE "request_scope_decision"
  IN  [action   |-> Reconciled(route, p.owned, r.status),
       owned    |-> p.owned,
       ratified |-> Ratified(p),
       fixable  |-> /\ r.fixable
                    /\ p.declared
                    /\ p.owned
                    /\ Ratified(p)
                    /\ route = "implement_or_fix_adapter"]

MissingStep(r) == r.status = "skipped" /\ r.stepMissing

\* Mutant: a ratified route without an edit accepts whatever the row is.
AcceptedUnlessEdited(r, e) ==
  e.ratified /\ e.action # "implement_or_fix_adapter"

\* A skip that the ratified profile asked for, or a failure of nobody's.
Accepted(r, e) ==
  /\ e.ratified
  /\ e.action = "skip_with_rationale"
  /\ r.status = "skipped" \/ (r.status \in FailureStatuses /\ ~e.owned)

\* decide_gap
DecisionOf(r, e) ==
  LET blocking == r.status # "pass" /\ ~Accepted(r, e)
  IN  [blocking |-> blocking,
       editable |-> /\ blocking
                    /\ r.status \in FailureStatuses \/ MissingStep(r)
                    /\ e.owned
                    /\ e.ratified
                    /\ e.action = "implement_or_fix_adapter"
                    /\ e.fixable
                    /\ r.hasTarget]

-----------------------------------------------------------------------------
DecisionInit ==
  /\ phase = "scanned"
  /\ profile \in Profiles
  /\ row \in Rows
  /\ resolved = Unresolved
  /\ enrichment = [action |-> "request_scope_decision", owned |-> FALSE,
                   ratified |-> FALSE, fixable |-> FALSE]
  /\ decision = [blocking |-> TRUE, editable |-> FALSE]

\* An undeclared domain has no responsible party.
ResolveUndeclared ==
  /\ phase = "scanned"
  /\ ~profile.declared
  /\ phase' = "resolved"
  /\ UNCHANGED <<profile, row, resolved, enrichment, decision>>

\* Two capabilities that match equally well stop the scan with an error.
RefuseAmbiguous ==
  /\ phase = "scanned"
  /\ profile.declared
  /\ Cardinality(Best(profile, row)) > 1
  /\ phase' = "refused"
  /\ UNCHANGED <<profile, row, resolved, enrichment, decision>>

Resolve ==
  /\ phase = "scanned"
  /\ profile.declared
  /\ \/ Matching(profile, row) = {} /\ resolved' = OfDomain(profile)
     \/ /\ Cardinality(Best(profile, row)) = 1
        /\ \E c \in Best(profile, row) : resolved' = Effective(c, profile)
  /\ phase' = "resolved"
  /\ UNCHANGED <<profile, row, enrichment, decision>>

Enrich ==
  /\ phase = "resolved"
  /\ enrichment' = EnrichmentOf(profile, row, resolved)
  /\ phase' = "enriched"
  /\ UNCHANGED <<profile, row, resolved, decision>>

Decide ==
  /\ phase = "enriched"
  /\ decision' = DecisionOf(row, enrichment)
  /\ phase' = "decided"
  /\ UNCHANGED <<profile, row, resolved, enrichment>>

DecisionNext == ResolveUndeclared \/ RefuseAmbiguous \/ Resolve \/ Enrich \/ Decide

DecisionSpec == DecisionInit /\ [][DecisionNext]_decisionVars

-----------------------------------------------------------------------------
(* What the decision promises.                                             *)

Decided == phase = "decided"

\* The type invariant.
DecisionTypeOK ==
  /\ phase \in {"scanned", "resolved", "enriched", "decided", "refused"}
  /\ resolved \in [coverage : Coverages, mode : Modes, owner : Actors,
                   by : SUBSET profile.capabilities]
  /\ enrichment \in
       [action : Actions, owned : BOOLEAN, ratified : BOOLEAN, fixable : BOOLEAN]
  /\ decision \in [blocking : BOOLEAN, editable : BOOLEAN]

\* A generated edit is possible only for a ratified profile, an owned domain,
\* a capability whose effective scope is covered/test with the ISV as its
\* adapter owner, and a row the scanner marks as safely fixable.
EditNeedsApproval ==
  Decided /\ decision.editable =>
    /\ Ratified(profile)
    /\ profile.owned
    /\ resolved.coverage = "covered" /\ resolved.mode = "test" /\ resolved.owner = "isv"
    /\ row.fixable

\* Whatever the profile claims, a failing row of an owned domain blocks.
OwnedFailureBlocks ==
  Decided /\ profile.owned /\ row.status \in FailureStatuses => decision.blocking

\* In a domain admitted to validation, a row that neither passes nor blocks
\* is a skip whose exact capability was signed off as out_of_scope/skip.
OnlySignedSkipsAccepted ==
  Decided /\ Ready(profile) /\ row.status # "pass" /\ ~decision.blocking =>
    /\ row.status = "skipped"
    /\ resolved.coverage = "out_of_scope"
    /\ resolved.mode = "skip"

\* In a domain admitted to validation, every failing row is either edited or
\* put to a person as a scope decision: no other route is left.
FailureHasARoute ==
  Decided /\ Ready(profile) /\ row.status \in FailureStatuses =>
    enrichment.action \in {"implement_or_fix_adapter", "request_scope_decision"}

RowsOf(c) == {r \in Rows : Matches(c.selector, r)}

\* No dimension lists a glob pattern beside a literal one.
Unmixed(selector) ==
  \A d \in Dimensions : Wildcard \in selector[d] => selector[d] = {Wildcard}

\* However the selectors of a domain overlap, a row is never decided by one
\* while another that matches it stands for strictly fewer rows.  It is so
\* for selectors that do not mix globs and literals in one dimension: the
\* specificity of the code counts a mixed dimension as exact.
NarrowerSelectorDecides ==
  \A decider \in resolved.by : \A c \in Matching(profile, row) :
    Unmixed(c.selector) /\ Unmixed(decider.selector) =>
      ~(RowsOf(c) \subseteq RowsOf(decider) /\ RowsOf(c) # RowsOf(decider))
=============================================================================

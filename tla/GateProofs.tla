----------------------------- MODULE GateProofs -----------------------------
(* The two gates between a scanned row and the provider.                   *)
(*                                                                         *)
(* The decision of a row, for every profile and every row: its pipeline    *)
(* writes each of its results once, from the ones before it, so the        *)
(* inductive invariant says which.  The resolved scope comes from the      *)
(* domain or from one of its capabilities, the enrichment from the         *)
(* resolved scope, and the decision from the enrichment alone.             *)
(*                                                                         *)
(* The review of a change, for any number of domains, files, kills and     *)
(* edits: only approved changes reach the provider, an offered patch stays *)
(* in the scope of its domain, a declined one stays away, and the live run *)
(* starts on a clean provider.                                             *)
EXTENDS GapDecision, ReviewGate, FiniteSetTheorems, TLAPS

-----------------------------------------------------------------------------
(* The decision of a row.                                                  *)

FromProfile(s, p) ==
  \/ s.coverage = p.coverage /\ s.mode = p.mode /\ s.owner = p.owner
  \/ \E c \in p.capabilities :
       /\ s.coverage = Effective(c, p).coverage
       /\ s.mode = Effective(c, p).mode
       /\ s.owner = Effective(c, p).owner

InputsKept == profile \in Profiles /\ row \in Rows

ResolvedFromProfile ==
  phase \in {"resolved", "enriched", "decided"} /\ profile.declared =>
    FromProfile(resolved, profile)

EnrichedFromResolved ==
  phase \in {"enriched", "decided"} => enrichment = EnrichmentOf(profile, row, resolved)

DecidedFromEnriched ==
  phase = "decided" => decision = DecisionOf(row, enrichment)

Pipeline ==
  InputsKept /\ ResolvedFromProfile /\ EnrichedFromResolved /\ DecidedFromEnriched

-----------------------------------------------------------------------------
\* Every capability that may decide belongs to the profile.
LEMMA BestAreCapabilities ==
  ASSUME NEW p, NEW r
  PROVE  Best(p, r) \subseteq p.capabilities
  BY DEF Best, Matching

\* Whatever ran so far, each result is the function of the earlier ones
\* that resolve, _enrich_row and decide_gap compute.
THEOREM PipelineHolds == DecisionSpec => []Pipeline
<1>1. DecisionInit => Pipeline
  BY DEF DecisionInit, Pipeline, InputsKept, ResolvedFromProfile, EnrichedFromResolved,
         DecidedFromEnriched
<1>2. Pipeline /\ [DecisionNext]_decisionVars => Pipeline'
  <2> SUFFICES ASSUME Pipeline, [DecisionNext]_decisionVars
               PROVE  Pipeline'
    OBVIOUS
  <2> USE DEF Pipeline, InputsKept, ResolvedFromProfile, EnrichedFromResolved,
              DecidedFromEnriched
  <2>1. CASE ResolveUndeclared
    BY <2>1 DEF ResolveUndeclared
  <2>2. CASE RefuseAmbiguous
    BY <2>2 DEF RefuseAmbiguous
  <2>3. CASE Resolve
    <3>1. phase' = "resolved" /\ profile' = profile /\ row' = row
      BY <2>3 DEF Resolve
    <3>2. FromProfile(resolved', profile)
      <4>1. CASE resolved' = OfDomain(profile)
        BY <4>1 DEF FromProfile, OfDomain
      <4>2. CASE \E c \in Best(profile, row) : resolved' = Effective(c, profile)
        BY <4>2, BestAreCapabilities DEF FromProfile
      <4> QED
        BY <2>3, <4>1, <4>2 DEF Resolve
    <3> QED
      BY <3>1, <3>2
  <2>4. CASE Enrich
    BY <2>4 DEF Enrich
  <2>5. CASE Decide
    BY <2>5 DEF Decide
  <2>6. CASE UNCHANGED decisionVars
    BY <2>6 DEF decisionVars
  <2> QED
    BY <2>1, <2>2, <2>3, <2>4, <2>5, <2>6 DEF DecisionNext
<1> QED
  BY <1>1, <1>2, PTL DEF DecisionSpec

-----------------------------------------------------------------------------
\* A row that does not block passes or is accepted.
LEMMA NotBlocking ==
  ASSUME NEW r, NEW e
  PROVE  DecisionOf(r, e).blocking = (r.status # "pass" /\ ~Accepted(r, e))
  BY DEF DecisionOf

\* The enrichment keeps who owns the domain, and routes by reconciliation.
LEMMA EnrichmentFields ==
  ASSUME NEW p, NEW r, NEW s
  PROVE  /\ EnrichmentOf(p, r, s).owned = p.owned
         /\ p.declared =>
              EnrichmentOf(p, r, s).action = Reconciled(Route(s), p.owned, r.status)
  BY DEF EnrichmentOf

\* Only a covered scope in test mode with the ISV as its adapter owner has
\* an adapter to implement.
LEMMA OnlyOwnAdapterIsEdited ==
  ASSUME NEW s, s.coverage \in Coverages, s.mode \in Modes, s.owner \in Actors,
         Route(s) = "implement_or_fix_adapter"
  PROVE  s.coverage = "covered" /\ s.mode = "test" /\ s.owner = "isv"
  BY DEF Route, Coverages, Modes, Actors

\* The scope a declared profile resolves to is made of legal values.
LEMMA ScopeIsLegal ==
  ASSUME NEW p \in Profiles, NEW s, FromProfile(s, p)
  PROVE  s.coverage \in Coverages /\ s.mode \in Modes /\ s.owner \in Actors
  BY InputAssumption DEF FromProfile, Effective, Overriding

\* A generated edit is possible only for a ratified profile, an owned domain
\* and a covered/test adapter of the ISV's that the scanner marks fixable.
THEOREM EditsAreApproved == DecisionSpec => []EditNeedsApproval
<1>1. Pipeline => EditNeedsApproval
  <2> SUFFICES ASSUME Pipeline, Decided, decision.editable
               PROVE  /\ Ratified(profile)
                      /\ profile.owned
                      /\ resolved.coverage = "covered"
                      /\ resolved.mode = "test"
                      /\ resolved.owner = "isv"
                      /\ row.fixable
    BY DEF EditNeedsApproval
  <2>1. enrichment.fixable
    BY DEF Pipeline, DecidedFromEnriched, DecisionOf, Decided
  <2>2. /\ row.fixable /\ profile.declared /\ profile.owned /\ Ratified(profile)
        /\ Route(resolved) = "implement_or_fix_adapter"
    BY <2>1 DEF Pipeline, EnrichedFromResolved, EnrichmentOf, Decided
  <2>3. FromProfile(resolved, profile)
    BY <2>2 DEF Pipeline, ResolvedFromProfile, Decided
  <2> QED
    BY <2>2, <2>3, ScopeIsLegal, OnlyOwnAdapterIsEdited DEF Pipeline, InputsKept
<1> QED
  BY <1>1, PipelineHolds, PTL

\* Whatever the profile claims, a failing row of an owned domain blocks.
THEOREM OwnedFailuresBlock == DecisionSpec => []OwnedFailureBlocks
<1>1. Pipeline => OwnedFailureBlocks
  <2> SUFFICES ASSUME Pipeline, Decided, profile.owned, row.status \in FailureStatuses
               PROVE  decision.blocking
    BY DEF OwnedFailureBlocks
  <2>1. enrichment.owned
    BY EnrichmentFields DEF Pipeline, EnrichedFromResolved, Decided
  <2>2. ~Accepted(row, enrichment)
    BY <2>1 DEF Accepted, FailureStatuses
  <2>3. decision.blocking = (row.status # "pass" /\ ~Accepted(row, enrichment))
    BY NotBlocking DEF Pipeline, DecidedFromEnriched, Decided
  <2>4. row.status # "pass"
    BY DEF FailureStatuses
  <2> QED
    BY <2>2, <2>3, <2>4
<1> QED
  BY <1>1, PipelineHolds, PTL

-----------------------------------------------------------------------------
\* In a domain admitted to validation every scope a row can resolve to is
\* covered and tested, or signed off as out of scope and skipped.
LEMMA ReadyScopesAreProven ==
  ASSUME NEW p, NEW s, Ready(p), FromProfile(s, p)
  PROVE  Proven(s.coverage, s.mode)
  BY DEF Ready, FromProfile, Proven

\* In a domain admitted to validation, a row that neither passes nor blocks
\* is a skip whose capability was signed off as out_of_scope/skip.
THEOREM SkipsAreSigned == DecisionSpec => []OnlySignedSkipsAccepted
<1>1. Pipeline => OnlySignedSkipsAccepted
  <2> SUFFICES ASSUME Pipeline, Decided, Ready(profile), row.status # "pass",
                      ~decision.blocking
               PROVE  /\ row.status = "skipped"
                      /\ resolved.coverage = "out_of_scope" /\ resolved.mode = "skip"
    BY DEF OnlySignedSkipsAccepted
  <2>1. Accepted(row, enrichment)
    BY NotBlocking DEF Pipeline, DecidedFromEnriched, Decided
  <2>2. profile.declared /\ profile.owned
    BY DEF Ready
  <2>3. enrichment.owned /\ Proven(resolved.coverage, resolved.mode)
    BY <2>2, ReadyScopesAreProven
       DEF Pipeline, EnrichedFromResolved, EnrichmentOf, ResolvedFromProfile, Decided
  <2>4. row.status = "skipped" /\ enrichment.action = "skip_with_rationale"
    BY <2>1, <2>3 DEF Accepted
  <2>5. Route(resolved) = "skip_with_rationale"
    BY <2>2, <2>4
       DEF Pipeline, EnrichedFromResolved, EnrichmentOf, Reconciled, FailureStatuses, Decided
  <2> QED
    BY <2>3, <2>4, <2>5 DEF Proven, Route
<1> QED
  BY <1>1, PipelineHolds, PTL

\* In a domain admitted to validation a failing row is edited or put to a
\* person as a scope decision.
THEOREM FailuresAreRouted == DecisionSpec => []FailureHasARoute
<1>1. Pipeline => FailureHasARoute
  <2> SUFFICES ASSUME Pipeline, Decided, Ready(profile), row.status \in FailureStatuses
               PROVE  enrichment.action \in
                        {"implement_or_fix_adapter", "request_scope_decision"}
    BY DEF FailureHasARoute
  <2>1. profile.declared /\ profile.owned
    BY DEF Ready
  <2>2. Proven(resolved.coverage, resolved.mode)
    BY <2>1, ReadyScopesAreProven DEF Pipeline, ResolvedFromProfile, Decided
  <2>3. enrichment.action = Reconciled(Route(resolved), profile.owned, row.status)
    BY <2>1, EnrichmentFields DEF Pipeline, EnrichedFromResolved, Decided
  <2> QED
    BY <2>1, <2>2, <2>3 DEF Proven, Route, Reconciled, SilentSkipActions
<1> QED
  BY <1>1, PipelineHolds, PTL
-----------------------------------------------------------------------------
LEMMA ResolvedTyped ==
  ASSUME NEW p \in Profiles, NEW c \in p.capabilities
  PROVE  Effective(c, p) \in [coverage : Coverages, mode : Modes, owner : Actors,
                              by : SUBSET p.capabilities]
  BY InputAssumption DEF Effective, Overriding

LEMMA RouteTyped ==
  ASSUME NEW s, NEW owned, NEW status
  PROVE  Route(s) \in Actions /\ Reconciled(Route(s), owned, status) \in Actions
         /\ Reconciled("request_scope_decision", owned, status) \in Actions
  BY DEF Route, Reconciled, Actions

LEMMA EnrichmentTyped ==
  ASSUME NEW p \in Profiles, NEW r \in Rows, NEW s
  PROVE  EnrichmentOf(p, r, s) \in
           [action : Actions, owned : BOOLEAN, ratified : BOOLEAN, fixable : BOOLEAN]
<1> DEFINE route == IF p.declared THEN Route(s) ELSE "request_scope_decision"
<1> DEFINE mayEdit == /\ r.fixable /\ p.declared /\ p.owned /\ Ratified(p)
                      /\ route = "implement_or_fix_adapter"
<1>1. Reconciled(route, p.owned, r.status) \in Actions
  BY RouteTyped
<1>2. p.owned \in BOOLEAN
  BY InputAssumption
<1>3. Ratified(p) \in BOOLEAN
  BY DEF Ratified
<1>4. mayEdit \in BOOLEAN
  OBVIOUS
<1>5. EnrichmentOf(p, r, s) =
        [action |-> Reconciled(route, p.owned, r.status), owned |-> p.owned,
         ratified |-> Ratified(p), fixable |-> mayEdit]
  BY DEF EnrichmentOf
<1> HIDE DEF mayEdit, route
<1> QED
  BY <1>1, <1>2, <1>3, <1>4, <1>5

LEMMA DecisionTyped ==
  ASSUME NEW r, NEW e
  PROVE  DecisionOf(r, e) \in [blocking : BOOLEAN, editable : BOOLEAN]
  BY DEF DecisionOf

(* The type invariant, for every profile and every row.                    *)
THEOREM DecisionTypeCorrect == DecisionSpec => []DecisionTypeOK
<1>1. DecisionInit => DecisionTypeOK
  BY DEF DecisionInit, DecisionTypeOK, Unresolved, Coverages, Modes, Actors, Actions
<1>2. DecisionTypeOK /\ Pipeline /\ [DecisionNext]_decisionVars => DecisionTypeOK'
  <2> SUFFICES ASSUME DecisionTypeOK, Pipeline, [DecisionNext]_decisionVars PROVE DecisionTypeOK'
    OBVIOUS
  <2>1. CASE ResolveUndeclared
    BY <2>1 DEF ResolveUndeclared, DecisionTypeOK
  <2>2. CASE RefuseAmbiguous
    BY <2>2 DEF RefuseAmbiguous, DecisionTypeOK
  <2>3. CASE Resolve
    <3>1. resolved' \in [coverage : Coverages, mode : Modes, owner : Actors,
                         by : SUBSET profile.capabilities]
      <4>1. CASE resolved' = OfDomain(profile)
        BY <4>1, InputAssumption DEF OfDomain, Pipeline, InputsKept
      <4>2. CASE \E c \in Best(profile, row) : resolved' = Effective(c, profile)
        BY <4>2, ResolvedTyped, BestAreCapabilities DEF Pipeline, InputsKept
      <4> QED
        BY <2>3, <4>1, <4>2 DEF Resolve
    <3> QED
      BY <2>3, <3>1 DEF Resolve, DecisionTypeOK
  <2>4. CASE Enrich
    BY <2>4, EnrichmentTyped DEF Enrich, DecisionTypeOK, Pipeline, InputsKept
  <2>5. CASE Decide
    BY <2>5, DecisionTyped DEF Decide, DecisionTypeOK
  <2>6. CASE UNCHANGED decisionVars
    BY <2>6 DEF decisionVars, DecisionTypeOK
  <2> QED
    BY <2>1, <2>2, <2>3, <2>4, <2>5, <2>6 DEF DecisionNext
<1> QED
  BY <1>1, <1>2, PipelineHolds, PTL DEF DecisionSpec

-----------------------------------------------------------------------------
(* Overlapping selectors.                                                  *)

\* The rows range over all values V that a dimension can have, or none, and no
\* selector lists all the values of a dimension one by one.
AllRows(V) ==
  /\ NoValue \notin V /\ Wildcard \notin V
  /\ \A v \in [Dimensions -> V \cup {NoValue}] : \E r \in Rows : r.values = v
  /\ \A p \in Profiles : \A c \in p.capabilities :
       /\ c.selector \in [Dimensions -> SUBSET (V \cup {Wildcard})]
       /\ \A d \in Dimensions : ~(V \subseteq c.selector[d])

\* What decides is one of the best, and the only one.
DeciderInv ==
  \A c \in resolved.by :
    c \in Best(profile, row) /\ Cardinality(Best(profile, row)) = 1

LEMMA DimensionsFinite == IsFiniteSet(Dimensions)
<1>1. IsFiniteSet({"steps"})
  BY FS_Singleton
<1>2. IsFiniteSet({"steps"} \cup {"categories"})
  BY <1>1, FS_AddElement
<1>3. IsFiniteSet(({"steps"} \cup {"categories"}) \cup {"classes"})
  BY <1>2, FS_AddElement
<1>4. Dimensions = ({"steps"} \cup {"categories"}) \cup {"classes"}
  BY DEF Dimensions
<1> QED
  BY <1>3, <1>4

LEMMA CountsAreNumbers ==
  ASSUME NEW s
  PROVE  Constrained(s) \in Nat /\ Exact(s) \in Nat
<1>1. IsFiniteSet(Dimensions)
  BY DimensionsFinite
<1>2. /\ IsFiniteSet({d \in Dimensions : s[d] # {}})
      /\ IsFiniteSet({d \in Dimensions : s[d] \ {Wildcard} # {}})
  BY <1>1, FS_Subset
<1> QED
  BY <1>2, FS_CardinalityType DEF Constrained, Exact

\* A selector that constrains more dimensions, and more of them exactly.
LEMMA MoreSpecific ==
  ASSUME NEW s, NEW t,
         \A d \in Dimensions : t[d] # {} => s[d] # {},
         \A d \in Dimensions : t[d] \ {Wildcard} # {} => s[d] \ {Wildcard} # {}
  PROVE  AtLeastAsSpecific(s, t)
<1>1. IsFiniteSet(Dimensions)
  BY DimensionsFinite
<1>2. Constrained(s) >= Constrained(t)
  <2> DEFINE A == {d \in Dimensions : s[d] # {}}
             B == {d \in Dimensions : t[d] # {}}
  <2>1. IsFiniteSet(A) /\ B \subseteq A
    BY <1>1, FS_Subset
  <2>2. IsFiniteSet(B) /\ Cardinality(B) <= Cardinality(A)
    BY <2>1, FS_Subset
  <2> QED
    BY <2>2, CountsAreNumbers DEF Constrained
<1>3. Exact(s) >= Exact(t)
  <2> DEFINE A == {d \in Dimensions : s[d] \ {Wildcard} # {}}
             B == {d \in Dimensions : t[d] \ {Wildcard} # {}}
  <2>1. IsFiniteSet(A) /\ B \subseteq A
    BY <1>1, FS_Subset
  <2>2. IsFiniteSet(B) /\ Cardinality(B) <= Cardinality(A)
    BY <2>1, FS_Subset
  <2> QED
    BY <2>2, CountsAreNumbers DEF Exact
<1> QED
  BY <1>2, <1>3, CountsAreNumbers DEF AtLeastAsSpecific

\* Each dimension of a selector matches some value.
LEMMA SomethingMatches ==
  ASSUME NEW V, AllRows(V), NEW p \in Profiles, NEW c \in p.capabilities, NEW d \in Dimensions
  PROVE  \E x \in V \cup {NoValue} : MatchesDimension(c.selector[d], x)
<1>1. c.selector[d] \subseteq V \cup {Wildcard} /\ ~(V \subseteq c.selector[d])
  BY DEF AllRows
<1>2. CASE c.selector[d] = {}
  BY <1>2 DEF MatchesDimension
<1>3. CASE Wildcard \in c.selector[d]
  <2>1. PICK x \in V : x \notin c.selector[d]
    BY <1>1
  <2> QED
    BY <1>3, <2>1 DEF MatchesDimension, AllRows
<1>4. CASE c.selector[d] # {} /\ Wildcard \notin c.selector[d]
  <2>1. PICK x \in V : x \in c.selector[d]
    BY <1>1, <1>4
  <2> QED
    BY <2>1 DEF MatchesDimension, AllRows
<1> QED
  BY <1>2, <1>3, <1>4

\* Among all rows, fewer rows mean fewer values in each dimension.
LEMMA NarrowerInEach ==
  ASSUME NEW V, AllRows(V), NEW p \in Profiles,
         NEW c \in p.capabilities, NEW e \in p.capabilities, RowsOf(c) \subseteq RowsOf(e),
         NEW d \in Dimensions, NEW x \in V \cup {NoValue}, MatchesDimension(c.selector[d], x)
  PROVE  MatchesDimension(e.selector[d], x)
<1> DEFINE some(k) == CHOOSE y \in V \cup {NoValue} : MatchesDimension(c.selector[k], y)
           v == [k \in Dimensions |-> IF k = d THEN x ELSE some(k)]
<1>1. \A k \in Dimensions : some(k) \in V \cup {NoValue} /\ MatchesDimension(c.selector[k], some(k))
  BY SomethingMatches
<1>2. v \in [Dimensions -> V \cup {NoValue}]
  BY <1>1
<1>3. PICK r \in Rows : r.values = v
  BY <1>2 DEF AllRows
<1>4. \A k \in Dimensions : MatchesDimension(c.selector[k], r.values[k])
  BY <1>1, <1>3
<1>5. r \in RowsOf(e)
  BY <1>4 DEF RowsOf, Matches
<1>6. MatchesDimension(e.selector[d], r.values[d])
  BY <1>5 DEF RowsOf, Matches
<1> QED
  BY <1>3, <1>6

LEMMA NarrowerIsMoreSpecific ==
  ASSUME NEW V, AllRows(V), NEW p \in Profiles,
         NEW c \in p.capabilities, NEW e \in p.capabilities, RowsOf(c) \subseteq RowsOf(e),
         Unmixed(e.selector)
  PROVE  AtLeastAsSpecific(c.selector, e.selector)
<1>1. \A d \in Dimensions : e.selector[d] # {} => c.selector[d] # {}
  <2> SUFFICES ASSUME NEW d \in Dimensions, e.selector[d] # {}, c.selector[d] = {}
               PROVE  FALSE
    OBVIOUS
  <2>1. MatchesDimension(c.selector[d], NoValue)
    BY DEF MatchesDimension
  <2>2. MatchesDimension(e.selector[d], NoValue)
    BY <2>1, NarrowerInEach
  <2> QED
    BY <2>2 DEF MatchesDimension
<1>2. \A d \in Dimensions :
        e.selector[d] \ {Wildcard} # {} => c.selector[d] \ {Wildcard} # {}
  <2> SUFFICES ASSUME NEW d \in Dimensions, e.selector[d] \ {Wildcard} # {},
                      c.selector[d] \ {Wildcard} = {}
               PROVE  FALSE
    OBVIOUS
  <2>1. Wildcard \notin e.selector[d]
    BY DEF Unmixed
  <2>2. Wildcard \in c.selector[d]
    BY <1>1
  <2>3. \A x \in V : x \in e.selector[d]
    <3> SUFFICES ASSUME NEW x \in V PROVE x \in e.selector[d]
      OBVIOUS
    <3>1. MatchesDimension(c.selector[d], x)
      BY <2>2 DEF MatchesDimension, AllRows
    <3>2. MatchesDimension(e.selector[d], x)
      BY <3>1, NarrowerInEach
    <3> QED
      BY <2>1, <3>2 DEF MatchesDimension
  <2> QED
    BY <2>3 DEF AllRows
<1> QED
  BY <1>1, <1>2, MoreSpecific

\* One capability that is as specific as a best one is a best one.
LEMMA AsGoodAsBest ==
  ASSUME NEW p, NEW r, NEW e \in Best(p, r), NEW c \in Matching(p, r),
         AtLeastAsSpecific(c.selector, e.selector)
  PROVE  c \in Best(p, r)
<1> SUFFICES ASSUME NEW other \in Matching(p, r)
             PROVE  AtLeastAsSpecific(c.selector, other.selector)
  BY DEF Best
<1>1. AtLeastAsSpecific(e.selector, other.selector)
  BY DEF Best
<1>2. /\ Constrained(c.selector) \in Nat /\ Exact(c.selector) \in Nat
      /\ Constrained(e.selector) \in Nat /\ Exact(e.selector) \in Nat
      /\ Constrained(other.selector) \in Nat /\ Exact(other.selector) \in Nat
  BY CountsAreNumbers
<1> QED
  BY <1>1, <1>2 DEF AtLeastAsSpecific

LEMMA DeciderHolds == DecisionSpec => []DeciderInv
<1>1. DecisionInit => DeciderInv
  BY DEF DecisionInit, DeciderInv, Unresolved
<1>2. DeciderInv /\ [DecisionNext]_decisionVars => DeciderInv'
  <2> SUFFICES ASSUME DeciderInv, [DecisionNext]_decisionVars PROVE DeciderInv'
    OBVIOUS
  <2>1. CASE Resolve
    <3>1. profile' = profile /\ row' = row
      BY <2>1 DEF Resolve
    <3>2. CASE resolved' = OfDomain(profile)
      BY <3>1, <3>2 DEF DeciderInv, OfDomain
    <3>3. CASE /\ Cardinality(Best(profile, row)) = 1
               /\ \E c \in Best(profile, row) : resolved' = Effective(c, profile)
      <4>1. PICK c \in Best(profile, row) : resolved' = Effective(c, profile)
        BY <3>3
      <4>2. resolved'.by = {c}
        BY <4>1 DEF Effective
      <4> QED
        BY <3>1, <3>3, <4>2 DEF DeciderInv
    <3> QED
      BY <2>1, <3>2, <3>3 DEF Resolve
  <2>2. CASE ResolveUndeclared \/ RefuseAmbiguous \/ Enrich \/ Decide \/ UNCHANGED decisionVars
    BY <2>2 DEF ResolveUndeclared, RefuseAmbiguous, Enrich, Decide, decisionVars, DeciderInv
  <2> QED
    BY <2>1, <2>2 DEF DecisionNext
<1> QED
  BY <1>1, <1>2, PTL DEF DecisionSpec

\* For any profiles, over all rows there can be, no row is decided by a
\* capability while another one that matches it stands for strictly fewer rows.
THEOREM NarrowerDecides ==
  ASSUME NEW V, AllRows(V)
  PROVE  DecisionSpec => []NarrowerSelectorDecides
<1>1. Pipeline /\ DeciderInv => NarrowerSelectorDecides
  <2> SUFFICES ASSUME Pipeline, DeciderInv,
                      NEW e \in resolved.by, NEW c \in Matching(profile, row),
                      Unmixed(e.selector), RowsOf(c) \subseteq RowsOf(e), RowsOf(c) # RowsOf(e)
               PROVE  FALSE
    BY DEF NarrowerSelectorDecides
  <2>1. /\ profile \in Profiles
        /\ e \in Best(profile, row) /\ Cardinality(Best(profile, row)) = 1
    BY DEF Pipeline, InputsKept, DeciderInv
  <2>2. e \in profile.capabilities /\ c \in profile.capabilities
    BY <2>1, BestAreCapabilities DEF Matching
  <2>3. AtLeastAsSpecific(c.selector, e.selector)
    BY <2>1, <2>2, NarrowerIsMoreSpecific
  <2>4. c \in Best(profile, row)
    BY <2>1, <2>3, AsGoodAsBest
  <2>5. IsFiniteSet(Best(profile, row))
    BY <2>1, BestAreCapabilities, InputAssumption, FS_Subset
  <2>6. \E x : Best(profile, row) = {x}
    BY <2>1, <2>5, FS_Singleton
  <2> QED
    BY <2>1, <2>4, <2>6
<1> QED
  BY <1>1, PipelineHolds, DeciderHolds, PTL

-----------------------------------------------------------------------------
(* The review of a change.                                                 *)

\* Every next step, by what it does to the provider and to the session.
LEMMA Steps ==
  ASSUME [Next]_vars
  PROVE  \/ Validate \/ Resume \/ Mismatch
         \/ BeginAuto \/ DiscardPatch \/ CopyProvider
         \/ WriteRecord \/ WritePatch
         \/ Accept \/ Reject \/ RejectPatch
         \/ Apply \/ ApplyRefused \/ ApplyFails
         \/ StartLive \/ DeclineLive \/ LiveEnds
         \/ Generate \/ GenerateFails
         \/ \E d \in Domains : RemoveWorkDir(d)
         \/ Kill
         \/ \E f \in Files, v \in Versions : EditProvider(f, v)
         \/ UNCHANGED vars
  BY DEF Next, Session, Setback, CleanUp

\* The patch between two providers is a set of changes of their files.
LEMMA PatchType ==
  ASSUME NEW from \in Contents, NEW to \in Contents
  PROVE  Patch(from, to) \in Patches
  BY DEF Patch, Patches, Contents

\* A provider some of whose files were replaced is a provider.
LEMMA PartlyAppliedType ==
  ASSUME provider \in Contents, scratch[domain] \in Contents
  PROVE  PartlyApplied \subseteq Contents
  BY DEF PartlyApplied, Contents

-----------------------------------------------------------------------------
(* Types.                                                                  *)

\* The session holds a scratch copy from the moment it makes one.
ScratchThere ==
  pc \in {"generate", "record", "recordPatch", "ask", "reject", "apply"} =>
    scratch[domain] # None

Typed == TypeOK /\ ScratchThere

LEMMA Advances ==
  ASSUME domain \in Domains, Advance
  PROVE  /\ domain' \in Domains
         /\ left' = [left EXCEPT ![domain] = provider]
         /\ \/ pc' = "enter" /\ domain < D /\ domain' = domain + 1
            \/ pc' = "askLive" /\ domain = D /\ domain' = domain
  BY GateAssumption DEF Advance, Domains

\* How the session goes on after a review is recorded.
LEMMA Continues ==
  ASSUME TypeOK, Continue
  PROVE  /\ domain' \in Domains
         /\ pc' \in {"ask", "enter", "idle", "askLive"}
         /\ \/ /\ domain' = domain /\ left' = left /\ pc' # "askLive"
               /\ pc' = "ask" => review.status = "awaiting_review"
            \/ /\ left' = [left EXCEPT ![domain] = provider]
               /\ review.status = "no_changes" /\ ~review.parked
               /\ \/ pc' = "enter" /\ domain < D /\ domain' = domain + 1
                  \/ pc' = "askLive" /\ domain = D /\ domain' = domain
<1>1. CASE review.status = "awaiting_review"
  BY <1>1 DEF TypeOK, Continue, StayAt
<1>2. CASE review.status = "applied"
  BY <1>2 DEF TypeOK, Continue, StayAt
<1>3. CASE review.status = "no_changes" /\ review.parked
  BY <1>3 DEF TypeOK, Continue, StayAt
<1>4. CASE review.status = "no_changes" /\ ~review.parked
  BY <1>4, Advances DEF TypeOK, Continue
<1> QED
  BY <1>1, <1>2, <1>3, <1>4 DEF TypeOK, Reviews, Statuses

LEMMA TypeStep ==
  ASSUME Typed, [Next]_vars
  PROVE  Typed'
<1> USE GateAssumption DEF Typed, TypeOK, ScratchThere, Points, diskVars, peopleVars, seenVars, envVars
<1>1. CASE Validate
  <2>1. touched' \in BOOLEAN
    BY <1>1 DEF Validate
  <2> QED
    BY <1>1, <2>1 DEF Validate, Domains
<1>2. CASE Resume
  BY <1>2 DEF Resume, AwaitingOnDisk, Reviews, Statuses
<1>3. CASE Mismatch
  BY <1>3 DEF Mismatch
<1>4. CASE BeginAuto
  BY <1>4 DEF BeginAuto
<1>5. CASE DiscardPatch
  BY <1>5 DEF DiscardPatch
<1>6. CASE CopyProvider
  BY <1>6 DEF CopyProvider
<1>7. CASE WriteRecord
  BY <1>7 DEF WriteRecord
<1>8. CASE WritePatch
  <2>1. review.patch \in Patches
    BY DEF Reviews
  <2> QED
    BY <1>8, <2>1, Continues DEF WritePatch
<1>9. CASE Accept \/ Mismatch \/ ApplyRefused \/ StartLive \/ DeclineLive \/ LiveEnds
           \/ GenerateFails
  BY <1>9 DEF Accept, Mismatch, ApplyRefused, StartLive, DeclineLive, LiveEnds, GenerateFails
<1>10. CASE Reject
  BY <1>10 DEF Reject
<1>11. CASE RejectPatch
  BY <1>11 DEF RejectPatch
<1>12. CASE Apply
  <2>1. scratch[domain] \in Contents
    BY <1>12 DEF Apply
  <2>2. Patch(provider, scratch[domain]) \in Patches
    BY <2>1, PatchType
  <2> QED
    BY <1>12, <2>1, <2>2 DEF Apply, Reviews, Statuses
<1>13. CASE ApplyFails
  <2>1. scratch[domain] \in Contents
    BY <1>13 DEF ApplyFails
  <2> QED
    BY <1>13, <2>1, PartlyAppliedType DEF ApplyFails
<1>14. CASE Generate
  <2>1. PICK candidate \in Contents, parked \in BOOLEAN : GenerateInto(candidate, parked)
    BY <1>14 DEF Generate
  <2>2. Patch(provider, candidate) \in Patches
    BY PatchType
  <2>3. review' \in Reviews
    BY <2>1, <2>2 DEF GenerateInto, Reviews, Statuses
  <2> QED
    BY <2>1, <2>3 DEF GenerateInto
<1>15. CASE \E d \in Domains : RemoveWorkDir(d)
  BY <1>15 DEF RemoveWorkDir
<1>16. CASE Kill
  <2>1. /\ json' \in [Domains -> Reviews \cup {None, Partial}]
        /\ patchFile' \in [Domains -> Patches \cup {None, Partial}]
        /\ provider' \in Contents
    <3>1. CASE pc = "record"
      BY <1>16, <3>1 DEF Kill, CutShort
    <3>2. CASE pc = "recordPatch"
      BY <1>16, <3>2 DEF Kill, CutShort
    <3>3. CASE pc = "apply" /\ Approved
      BY <1>16, <3>3, PartlyAppliedType DEF Kill, CutShort
    <3>4. CASE pc \notin {"record", "recordPatch"} /\ ~(pc = "apply" /\ Approved)
      BY <1>16, <3>4 DEF Kill, CutShort
    <3> QED
      BY <3>1, <3>2, <3>3, <3>4
  <2> QED
    BY <1>16, <2>1 DEF Kill
<1>17. CASE \E f \in Files, v \in Versions : EditProvider(f, v)
  BY <1>17 DEF EditProvider, Contents
<1>18. CASE UNCHANGED vars
  BY <1>18 DEF vars
<1> QED
  BY <1>1, <1>2, <1>3, <1>4, <1>5, <1>6, <1>7, <1>8, <1>9, <1>10, <1>11, <1>12, <1>13,
     <1>14, <1>15, <1>16, <1>17, <1>18, Steps

LEMMA TypedHolds == Spec => []Typed
<1>1. Init => Typed
  <2> SUFFICES ASSUME Init PROVE Typed
    OBVIOUS
  <2>1. touched \in BOOLEAN
    BY DEF Init
  <2>2. review \in Reviews /\ pc \in Points
    BY DEF Init, NoReview, Reviews, Statuses, Patches, Points
  <2>3. domain \in Domains /\ kills \in 0 .. MaxKills /\ edits \in 0 .. MaxEdits
    BY GateAssumption DEF Init, Domains
  <2>4. /\ scratch \in [Domains -> Contents \cup {None}]
        /\ json \in [Domains -> Reviews \cup {None, Partial}]
        /\ patchFile \in [Domains -> Patches \cup {None, Partial}]
    BY DEF Init
  <2>5. provider \in Contents /\ declined \subseteq Domains /\ refused \subseteq Domains
    BY DEF Init
  <2>6. ScratchThere
    BY DEF Init, ScratchThere
  <2>7. left \in [Domains -> Contents \cup {None}]
    BY DEF Init
  <2> QED
    BY <2>1, <2>2, <2>3, <2>4, <2>5, <2>6, <2>7 DEF Typed, TypeOK
<1> QED
  BY <1>1, TypeStep, PTL DEF Spec

\* Every variable has its type, whatever is killed, edited or cut short.
THEOREM TypeCorrect == Spec => []TypeOK
  BY TypedHolds, PTL DEF Typed

-----------------------------------------------------------------------------
(* What reaches the provider.                                              *)

\* A provider of which some files were replaced differs from the one before
\* by changes of the patch between the provider and the scratch copy.
LEMMA PartOfPatch ==
  ASSUME NEW q \in PartlyApplied
  PROVE  Patch(provider, q) \subseteq Patch(provider, scratch[domain])
  BY DEF PartlyApplied, Patch

\* A provider that stays as it is has no changes.
LEMMA NoPatch ==
  ASSUME NEW p
  PROVE  Patch(p, p) = {}
  BY DEF Patch

\* Every change of the provider that is not the ISV's own is one of the patch
\* the person approved: of the whole patch, or of a call that failed half-way.
THEOREM ReviewedChangesOnly == Spec => OnlyReviewedChanges
<1>1. TypeOK /\ [Next]_vars => [edits' = edits =>
                                  Patch(provider, provider') \subseteq review.patch]_vars
  <2> SUFFICES ASSUME TypeOK, [Next]_vars, edits' = edits
               PROVE  Patch(provider, provider') \subseteq review.patch
    OBVIOUS
  <2>1. CASE provider' = provider
    BY <2>1, NoPatch
  <2>2. CASE Apply
    BY <2>2 DEF Apply, Approved
  <2>3. CASE ApplyFails
    BY <2>3, PartOfPatch DEF ApplyFails, Approved
  <2>4. CASE Kill
    <3>1. CASE pc = "apply" /\ Approved
      BY <2>4, <3>1, PartOfPatch DEF Kill, CutShort, Approved
    <3>2. CASE ~(pc = "apply" /\ Approved)
      BY <2>1, <2>4, <3>2 DEF Kill, CutShort
    <3> QED
      BY <3>1, <3>2
  <2>5. CASE \E f \in Files, v \in Versions : EditProvider(f, v)
    BY <2>5, GateAssumption DEF EditProvider, TypeOK
  <2>6. CASE Validate \/ Resume \/ Mismatch \/ BeginAuto \/ DiscardPatch \/ CopyProvider
    BY <2>1, <2>6
       DEF Validate, Resume, Mismatch, BeginAuto, DiscardPatch, CopyProvider
  <2>7. CASE WriteRecord \/ WritePatch \/ Accept \/ Reject \/ RejectPatch \/ ApplyRefused
    BY <2>1, <2>7 DEF WriteRecord, WritePatch, Accept, Reject, RejectPatch, ApplyRefused
  <2>8. CASE StartLive \/ DeclineLive \/ LiveEnds \/ Generate \/ GenerateFails
    BY <2>1, <2>8 DEF StartLive, DeclineLive, LiveEnds, Generate, GenerateInto, GenerateFails
  <2>9. CASE \E d \in Domains : RemoveWorkDir(d)
    BY <2>1, <2>9 DEF RemoveWorkDir
  <2>10. CASE UNCHANGED vars
    BY <2>1, <2>10 DEF vars
  <2> QED
    BY <2>2, <2>3, <2>4, <2>5, <2>6, <2>7, <2>8, <2>9, <2>10, Steps
<1> QED
  BY <1>1, TypeCorrect, PTL DEF Spec, OnlyReviewedChanges

-----------------------------------------------------------------------------
(* An offered patch stays in the edit scope of its domain.                 *)

InScope(patch, d) == \A change \in patch : change[1] \in Scope[d]

Recording == {"record", "recordPatch", "ask", "apply"}

\* The scratch copy a generator works on is the provider of that moment, and
\* what was recorded of a domain, now or in an earlier session, is in scope.
ScopeInv ==
  /\ pc = "generate" => scratch[domain] = provider
  /\ pc \in Recording => InScope(review.patch, domain)
  /\ \A d \in Domains : json[d] \notin {None, Partial} => InScope(json[d].patch, d)

LEMMA CandidateInScope ==
  ASSUME NEW candidate \in Contents, WithinScope(candidate), scratch[domain] = provider
  PROVE  InScope(Patch(provider, candidate), domain)
  BY DEF WithinScope, InScope, Patch

LEMMA ScopeStep ==
  ASSUME Typed, Typed', ScopeInv, [Next]_vars, "generate" \notin EditPoints
  PROVE  ScopeInv'
<1> USE DEF Typed, ScopeInv, Recording, diskVars, peopleVars, seenVars, envVars
<1> SUFFICES /\ pc' = "generate" => scratch'[domain'] = provider'
             /\ pc' \in Recording => InScope(review'.patch, domain')
             /\ \A d \in Domains :
                  json'[d] \notin {None, Partial} => InScope(json'[d].patch, d)
  BY DEF InScope
<1>1. CASE Validate \/ Mismatch \/ Accept \/ ApplyRefused \/ StartLive \/ DeclineLive
           \/ LiveEnds \/ GenerateFails
  BY <1>1 DEF Validate, Mismatch, Accept, ApplyRefused, StartLive, DeclineLive, LiveEnds,
              GenerateFails
<1>2. CASE Resume
  BY <1>2 DEF Resume, AwaitingOnDisk, TypeOK
<1>3. CASE BeginAuto
  BY <1>3 DEF BeginAuto, TypeOK
<1>4. CASE DiscardPatch \/ RejectPatch
  BY <1>4 DEF DiscardPatch, RejectPatch
<1>5. CASE CopyProvider
  BY <1>5 DEF CopyProvider, TypeOK
<1>6. CASE WriteRecord
  BY <1>6 DEF WriteRecord, TypeOK
<1>7. CASE WritePatch
  BY <1>7, Continues DEF WritePatch
<1>8. CASE Reject
  BY <1>8 DEF Reject, TypeOK
<1>9. CASE Apply
  BY <1>9 DEF Apply, Approved
<1>10. CASE ApplyFails
  BY <1>10 DEF ApplyFails
<1>11. CASE Generate
  <2>1. PICK candidate \in Contents, parked \in BOOLEAN :
          WithinScope(candidate) /\ GenerateInto(candidate, parked) /\ pc = "generate"
    BY <1>11 DEF Generate
  <2>2. InScope(Patch(provider, candidate), domain)
    BY <2>1, CandidateInScope
  <2> QED
    BY <2>1, <2>2 DEF GenerateInto
<1>12. CASE \E d \in Domains : RemoveWorkDir(d)
  BY <1>12 DEF RemoveWorkDir, TypeOK
<1>13. CASE Kill
  <2>1. \A d \in Domains : json'[d] = json[d] \/ json'[d] = Partial
    <3>1. CASE pc = "record"
      BY <1>13, <3>1 DEF Kill, CutShort, TypeOK
    <3>2. CASE pc = "recordPatch"
      BY <1>13, <3>2 DEF Kill, CutShort
    <3>3. CASE pc = "apply" /\ Approved
      BY <1>13, <3>3 DEF Kill, CutShort
    <3>4. CASE pc \notin {"record", "recordPatch"} /\ ~(pc = "apply" /\ Approved)
      BY <1>13, <3>4 DEF Kill, CutShort
    <3> QED
      BY <3>1, <3>2, <3>3, <3>4
  <2> QED
    BY <1>13, <2>1 DEF Kill
<1>14. CASE \E f \in Files, v \in Versions : EditProvider(f, v)
  BY <1>14 DEF EditProvider
<1>15. CASE UNCHANGED vars
  BY <1>15 DEF vars
<1> QED
  BY <1>1, <1>2, <1>3, <1>4, <1>5, <1>6, <1>7, <1>8, <1>9, <1>10, <1>11, <1>12, <1>13,
     <1>14, <1>15, Steps

LEMMA ScopeInvHolds == "generate" \notin EditPoints /\ Spec => []ScopeInv
<1> SUFFICES ASSUME "generate" \notin EditPoints PROVE Spec => []ScopeInv
  OBVIOUS
<1>1. Init => ScopeInv
  BY DEF Init, ScopeInv, Recording
<1>2. Typed /\ Typed' /\ ScopeInv /\ [Next]_vars => ScopeInv'
  BY ScopeStep
<1> QED
  BY <1>1, <1>2, TypedHolds, PTL DEF Spec

\* As long as the ISV does not edit while a generator works, a review only
\* ever offers changes of the files its domain may edit.
THEOREM OffersStayInScope == "generate" \notin EditPoints /\ Spec => []OfferedWithinScope
<1>1. ScopeInv => OfferedWithinScope
  BY DEF ScopeInv, Recording, InScope, OfferedWithinScope
<1> QED
  BY <1>1, ScopeInvHolds, PTL

-----------------------------------------------------------------------------
(* What the scans of a session say when the live run starts.               *)

\* The domains whose last scan of this session is over.
Passed == IF pc \in {"askLive", "live"} THEN Domains ELSE {d \in Domains : d < domain}

\* What differs from the provider of that scan is in the scope of a later domain.
ChangedLater(d) ==
  \A f \in Files : provider[f] # left[d][f] => \E e \in d + 1 .. domain : f \in Scope[e]

\* In a session that nobody disturbs every domain was clean when it was left.
CleanInv ==
  ~touched /\ pc # "idle" =>
  /\ \A d \in Passed : left[d] \in Clean[d] /\ ChangedLater(d)
  /\ pc \in {"record", "recordPatch"} /\ review.status = "no_changes" /\ ~review.parked =>
       provider \in Clean[domain]
  /\ pc \in {"askLive", "live"} => domain = D

\* Two providers without a patch between them are the same.
LEMMA EmptyPatch ==
  ASSUME NEW p \in Contents, NEW q \in Contents, Patch(p, q) = {}
  PROVE  p = q
<1>1. \A f \in Files : p[f] = q[f]
  BY DEF Patch
<1> QED
  BY <1>1 DEF Contents

\* Two providers differ in the scope of the patch between them only.
LEMMA ChangedInScope ==
  ASSUME NEW p \in Contents, NEW q \in Contents, NEW d \in Domains, InScope(Patch(p, q), d),
         NEW f \in Files, p[f] # q[f]
  PROVE  f \in Scope[d]
<1>1. <<f, p[f], q[f]>> \in Patch(p, q)
  BY DEF Patch
<1> QED
  BY <1>1 DEF InScope

LEMMA CleanStep ==
  ASSUME Typed, Typed', ScopeInv, CleanInv, [Next]_vars, "generate" \notin EditPoints
  PROVE  CleanInv'
<1> USE GateAssumption DEF Typed, TypeOK, CleanInv, Passed, ChangedLater, diskVars, peopleVars, seenVars, envVars
<1>1. CASE Validate
  BY <1>1 DEF Validate, Domains
<1>2. CASE Mismatch \/ ApplyRefused \/ DeclineLive \/ LiveEnds \/ GenerateFails
           \/ RejectPatch \/ ApplyFails \/ Kill \/ \E d \in Domains : RemoveWorkDir(d)
  BY <1>2 DEF Mismatch, ApplyRefused, DeclineLive, LiveEnds, GenerateFails, RejectPatch,
              ApplyFails, Kill, RemoveWorkDir
<1>3. CASE Resume \/ BeginAuto \/ DiscardPatch \/ CopyProvider \/ Accept \/ Reject \/ StartLive
  BY <1>3 DEF Resume, BeginAuto, DiscardPatch, CopyProvider, Accept, Reject, StartLive
<1>4. CASE Generate
  <2>1. PICK candidate \in Contents, parked \in BOOLEAN :
          /\ candidate \notin Clean[domain] => parked
          /\ GenerateInto(candidate, parked)
          /\ pc = "generate"
    BY <1>4 DEF Generate
  <2>2. review'.status = "no_changes" => candidate = provider
    BY <2>1, EmptyPatch DEF GenerateInto
  <2> QED
    BY <2>1, <2>2 DEF GenerateInto
<1>5. CASE WriteRecord
  BY <1>5 DEF WriteRecord
<1>6. CASE WritePatch
  <2>1. provider' = provider /\ Continue /\ pc = "recordPatch" /\ UNCHANGED <<touched, review>>
    BY <1>6 DEF WritePatch
  <2>2. CASE domain' = domain /\ left' = left /\ pc' \in {"ask", "enter", "idle"}
    BY <2>1, <2>2
  <2>3. CASE /\ left' = [left EXCEPT ![domain] = provider]
             /\ review.status = "no_changes" /\ ~review.parked
             /\ \/ pc' = "enter" /\ domain < D /\ domain' = domain + 1
                \/ pc' = "askLive" /\ domain = D /\ domain' = domain
    <3>1. ASSUME ~touched, NEW d \in Domains, d <= domain
          PROVE  left'[d] \in Clean[d] /\ ChangedLater(d)'
      <4>1. CASE d = domain
        <5>1. provider \in Clean[domain]
          BY <2>1, <2>3, <3>1
        <5>2. left'[d] = provider'
          BY <2>1, <2>3, <4>1
        <5>3. ChangedLater(d)'
          BY ONLY <5>2 DEF ChangedLater
        <5> QED
          BY <2>1, <4>1, <5>1, <5>2, <5>3
      <4>2. CASE d < domain
        <5>1. left'[d] = left[d]
          BY <2>1, <2>3, <4>2 DEF Domains
        <5>0. pc = "recordPatch"
          BY <2>1
        <5>2. left[d] \in Clean[d] /\ ChangedLater(d)
          <6>1. d \in Passed
            BY ONLY <5>0, <3>1, <4>2 DEF Passed
          <6>2. CleanInv
            OBVIOUS
          <6> QED
            BY ONLY <5>0, <3>1, <6>1, <6>2 DEF CleanInv
        <5>3. d + 1 .. domain \subseteq d + 1 .. domain'
          BY <2>3, <3>1 DEF Domains
        <5>4. ASSUME NEW f \in Files, provider'[f] # left'[d][f]
              PROVE  \E e \in d + 1 .. domain' : f \in Scope[e]
          <6>1. PICK e \in d + 1 .. domain : f \in Scope[e]
            BY <2>1, <5>1, <5>2, <5>4
          <6> QED
            BY <5>3, <6>1
        <5> QED
          BY <5>1, <5>2, <5>4
      <4> QED
        BY <3>1, <4>1, <4>2 DEF Domains
    <3>2. \A d \in Passed' : d \in Domains /\ d <= domain
      BY <2>1, <2>3 DEF Domains
    <3>3. pc' \notin {"record", "recordPatch"} /\ (pc' = "askLive" => domain' = D) /\ pc' # "live"
      BY <2>3
    <3>4. ~touched' => ~touched
      BY <2>1
    <3> QED
      BY ONLY <3>1, <3>2, <3>3, <3>4 DEF CleanInv
  <2> QED
    BY <2>1, <2>2, <2>3, Continues
<1>7. CASE Apply
  <2>1. /\ pc = "apply" /\ pc' = "record" /\ provider' = scratch[domain]
        /\ review'.status = "applied" /\ Patch(provider, provider') = review.patch
        /\ UNCHANGED <<domain, touched, left>>
    BY <1>7 DEF Apply, Approved
  <2>2. provider' \in Contents /\ InScope(Patch(provider, provider'), domain)
    BY <2>1 DEF ScopeInv, Recording
  <2>3. ASSUME ~touched, NEW d \in Domains, d < domain PROVE ChangedLater(d)'
    <3>1. domain \in d + 1 .. domain
      BY <2>3 DEF Domains
    <3>2. \A f \in Files : provider'[f] # provider[f] => f \in Scope[domain]
      BY <2>2, ChangedInScope
    <3>3. ChangedLater(d)
      BY <2>1, <2>3
    <3> QED
      BY <2>1, <3>1, <3>2, <3>3
  <2> QED
    BY <2>1, <2>3
<1>8. CASE \E f \in Files, v \in Versions : EditProvider(f, v)
  BY <1>8 DEF EditProvider
<1>9. CASE UNCHANGED vars
  BY <1>9 DEF vars
<1> QED
  BY <1>1, <1>2, <1>3, <1>4, <1>5, <1>6, <1>7, <1>8, <1>9, Steps

\* In a session that the ISV does not disturb the live run starts only when each
\* domain was clean at the end of its last scan, and only a later domain's edit
\* scope holds what changed since, for any number of domains and kills, and for
\* edits between sessions.
THEOREM LiveStartsClean == "generate" \notin EditPoints /\ Spec => []LiveOnlyWhenClean
<1> SUFFICES ASSUME "generate" \notin EditPoints PROVE Spec => []LiveOnlyWhenClean
  OBVIOUS
<1>1. Init => CleanInv
  BY DEF Init, CleanInv
<1>2. Typed /\ Typed' /\ ScopeInv /\ CleanInv /\ [Next]_vars => CleanInv'
  BY CleanStep
<1>3. Spec => []ScopeInv
  BY ScopeInvHolds
<1>4. CleanInv => LiveOnlyWhenClean
  BY DEF CleanInv, Passed, ChangedLater, LiveOnlyWhenClean
<1> QED
  BY <1>1, <1>2, <1>3, <1>4, TypedHolds, PTL DEF Spec
-----------------------------------------------------------------------------
(* A declined review does not come back.                                   *)

\* No record of a declined review is left from the moment it is declined, and
\* a review that is being recorded, shown or applied is not a declined one.
DeclinedInv ==
  /\ \A d \in declined : json[d] \in {None, Partial}
  /\ pc \in {"recordPatch", "ask", "apply"} => domain \notin declined

LEMMA DeclinedStep ==
  ASSUME Typed, DeclinedInv, [Next]_vars
  PROVE  DeclinedInv'
<1> USE DEF Typed, TypeOK, DeclinedInv, diskVars, peopleVars, seenVars, envVars
<1>1. CASE Validate \/ Mismatch \/ DiscardPatch \/ CopyProvider \/ Accept \/ RejectPatch
  BY <1>1 DEF Validate, Mismatch, DiscardPatch, CopyProvider, Accept, RejectPatch
<1>2. CASE Resume
  BY <1>2 DEF Resume, AwaitingOnDisk
<1>3. CASE BeginAuto
  BY <1>3 DEF BeginAuto
<1>4. CASE WriteRecord
  BY <1>4 DEF WriteRecord
<1>5. CASE WritePatch
  BY <1>5, Continues DEF WritePatch
<1>6. CASE Reject
  BY <1>6 DEF Reject
<1>7. CASE Apply \/ ApplyRefused \/ ApplyFails \/ StartLive \/ DeclineLive \/ LiveEnds
  BY <1>7 DEF Apply, ApplyRefused, ApplyFails, StartLive, DeclineLive, LiveEnds
<1>8. CASE Generate \/ GenerateFails
  BY <1>8 DEF Generate, GenerateInto, GenerateFails
<1>9. CASE \E d \in Domains : RemoveWorkDir(d)
  BY <1>9 DEF RemoveWorkDir
<1>10. CASE Kill
  <2>1. \A d \in Domains : json'[d] = json[d] \/ json'[d] = Partial
    <3>1. CASE pc = "record"
      BY <1>10, <3>1 DEF Kill, CutShort
    <3>2. CASE pc = "recordPatch"
      BY <1>10, <3>2 DEF Kill, CutShort
    <3>3. CASE pc \notin {"record", "recordPatch"}
      BY <1>10, <3>3 DEF Kill, CutShort
    <3> QED
      BY <3>1, <3>2, <3>3
  <2> QED
    BY <1>10, <2>1 DEF Kill
<1>11. CASE \E f \in Files, v \in Versions : EditProvider(f, v)
  BY <1>11 DEF EditProvider
<1>12. CASE UNCHANGED vars
  BY <1>12 DEF vars
<1> QED
  BY <1>1, <1>2, <1>3, <1>4, <1>5, <1>6, <1>7, <1>8, <1>9, <1>10, <1>11, <1>12, Steps

\* Whatever step of the session, or of declining itself, is killed: a review
\* that was declined is shown only after the domain was generated again.
THEOREM DeclinedStaysAway == Spec => []DeclinedNotShownAgain
<1>1. Init => DeclinedInv
  BY DEF Init, DeclinedInv
<1>2. Typed /\ DeclinedInv /\ [Next]_vars => DeclinedInv'
  BY DeclinedStep
<1>3. DeclinedInv => DeclinedNotShownAgain
  BY DEF DeclinedInv, DeclinedNotShownAgain
<1> QED
  BY <1>1, <1>2, <1>3, TypedHolds, PTL DEF Spec
=============================================================================

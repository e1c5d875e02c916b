------------------------------ MODULE AutoRun ------------------------------
(***************************************************************************)
(* One call of run_auto(apply=False): the generate-verify-stage loop that  *)
(* `gapctl validate` runs for one domain before it asks for a review.      *)
(*                                                                         *)
(* Each pass of the loop rescans a private scratch copy of the provider,   *)
(* selects the first row that may still be edited and asks the generator   *)
(* for a candidate; a verified candidate is written to the scratch copy, a *)
(* rejected one costs an attempt of the row's contract unit.  When no row  *)
(* is left, a completeness audit may add rows of its own.  Nothing here    *)
(* touches the provider.                                                   *)
(*                                                                         *)
(* A row is abstracted to its contract unit, its place in the scan and     *)
(* whether decide_gap lets it be edited while it blocks; a candidate to    *)
(* the statuses the rescan of the scratch copy then finds; a failure to    *)
(* its fingerprint.  One action is one pass of the loop body.              *)
(***************************************************************************)
EXTENDS Naturals, Sequences, FiniteSets

CONSTANTS
  Gaps,             \* rows the scanner emits for the domain
  Findings,         \* rows a completeness audit can add
  Units,            \* contract units: an adapter script, or a step of a config file
  UnitOf,           \* the contract unit of each row
  Rank,             \* the place of each row in the merged report
  Editable,         \* rows that are edit_eligible while they block
  Fingerprints,     \* fingerprints of normalised failures
  MaxAttempts,      \* execution.max_attempts
  Limits,           \* the other limits a call can be given, see `limits`
  AuditRequired     \* the profile approves covered/test capabilities

Rows == Gaps \cup Findings

NoLimit == 0

ASSUME RowAssumption ==
  /\ Gaps \cap Findings = {}
  /\ UnitOf \in [Rows -> Units]
  /\ IsFiniteSet(Rows) /\ IsFiniteSet(Units)
  /\ Rank \in [Rows -> Nat]
  /\ \A q, r \in Rows : Rank[q] = Rank[r] => q = r
  /\ \A g \in Gaps, f \in Findings : Rank[g] < Rank[f]
  /\ Editable \subseteq Rows

ASSUME BudgetAssumption ==
  /\ MaxAttempts \in Nat \ {0}
  /\ AuditRequired \in BOOLEAN

ASSUME LimitAssumption ==
  \A limit \in Limits :
    /\ limit.iterations \in Nat \ {0}
    /\ limit.calls \in Nat
    /\ limit.groups \in Nat \ {0}

VARIABLES
  limits,         \* max_iterations, max_generator_calls or NoLimit, and
                  \* execution.max_failure_groups
  pc,             \* "loop", then "finish", then "done"; or "aborted" by an exception
  iteration,      \* passes of the loop begun so far
  status,         \* what a rescan of the scratch copy finds for each gap
  findings,       \* active_audit_rows
  auditPhase,     \* audit_phase
  semanticStaged, \* semantic_candidate_staged
  postPending,    \* post_audit_pending_reason is set
  attempts,       \* attempts_by_unit
  history,        \* feedback_by_unit, as the fingerprints of its failures
  blocked,        \* units with an entry in blocked_by_unit
  calls,          \* generator_calls
  staged,         \* gap ids of the staged fixes
  dirty,          \* the scratch copy differs from the provider
  review          \* the AutoReview the call returns

auditVars == <<findings, auditPhase, semanticStaged, postPending>>
unitVars == <<attempts, history, blocked>>
stageVars == <<status, staged, dirty>>
vars == <<limits, pc, iteration, auditVars, unitVars, stageVars, calls, review>>

\* What a rescan says of a gap: it passes; it is a skip or an unowned failure
\* that the reviewed profile accepts; or it blocks.
RowStatus == {"pass", "accepted", "blocking"}

AuditPhases == {"not_run", "pre", "post"}

ParkReasons ==
  {"blocked", "not_attempted", "retry_remains", "exhausted", "human_route"}

NoReview ==
  [status |-> "none", parked |-> [r \in {} |-> "blocked"], postAuditPending |-> FALSE]

Reviewed == review.status # "none"

-----------------------------------------------------------------------------
(* The report of a pass and what the loop reads from it.                   *)

BlockingRows == {g \in Gaps : status[g] = "blocking"} \cup findings

Fixable == BlockingRows \cap Editable

Pending == {r \in Fixable : attempts[UnitOf[r]] < MaxAttempts}

\* pending[0]: the scanner's execution order is kept, audit rows come last.
Selected(r) == r \in Pending /\ \A q \in Pending : Rank[r] <= Rank[q]

BudgetSpent(n) == limits.calls # NoLimit /\ n >= limits.calls

InLoop == pc = "loop" /\ iteration < limits.iterations

NextPass == pc' = "loop" /\ iteration' = iteration + 1

LeaveLoop == pc' = "finish" /\ iteration' = iteration + 1

NextPassUnless(stop) == IF stop THEN LeaveLoop ELSE NextPass

-----------------------------------------------------------------------------
(* One pass with a row to fix: every outcome of generating a candidate.    *)

Generating(r) == InLoop /\ ~BudgetSpent(calls) /\ Selected(r)

\* Mutant: _record_failure does not look for the fingerprint in the ledger.
FailedWithoutRepeatCheck(u, fingerprint) ==
  LET ledger == Append(history[u], fingerprint)
      causes == {ledger[i] : i \in DOMAIN ledger}
      parks  == Cardinality(causes) >= limits.groups
  IN  /\ history' = [history EXCEPT ![u] = ledger]
      /\ attempts' = [attempts EXCEPT ![u] = IF parks THEN MaxAttempts ELSE @ + 1]
      /\ blocked' = IF parks THEN blocked \cup {u} ELSE blocked

\* _record_failure: the failure joins the unit's ledger; a repeated
\* fingerprint, or one distinct root cause too many, parks the unit.
Failed(u, fingerprint) ==
  LET ledger == Append(history[u], fingerprint)
      causes == {ledger[i] : i \in DOMAIN ledger}
      parks  == \/ \E i \in DOMAIN history[u] : history[u][i] = fingerprint
                \/ Cardinality(causes) >= limits.groups
  IN  /\ history' = [history EXCEPT ![u] = ledger]
      /\ attempts' = [attempts EXCEPT ![u] = IF parks THEN MaxAttempts ELSE @ + 1]
      /\ blocked' = IF parks THEN blocked \cup {u} ELSE blocked

Park(u) ==
  /\ attempts' = [attempts EXCEPT ![u] = MaxAttempts]
  /\ blocked' = blocked \cup {u}
  /\ UNCHANGED history

\* The generator declines: an empty change set parks the unit.
Decline(r) ==
  /\ Generating(r)
  /\ calls' = calls + 1
  /\ Park(UnitOf[r])
  /\ NextPassUnless(BudgetSpent(calls'))
  /\ UNCHANGED <<auditVars, stageVars, review>>

\* The failure evidence of earlier attempts does not fit a context pack: no
\* request is made and the unit is parked.
Unrepresentable(r) ==
  /\ Generating(r)
  /\ Park(UnitOf[r])
  /\ NextPass
  /\ UNCHANGED <<auditVars, stageVars, calls, review>>

\* A guardrail refuses the exchange or the candidate.  The call is counted
\* only when the response parsed and the proposal built from it was refused.
RejectedByGuardrail(r, fingerprint) ==
  /\ Generating(r)
  /\ calls' \in {calls, calls + 1}
  /\ Failed(UnitOf[r], fingerprint)
  /\ NextPass
  /\ UNCHANGED <<auditVars, stageVars, review>>

\* The isolated rescan finds the selected gap unresolved, or a regression.
FailsVerification(r, fingerprint) ==
  /\ Generating(r)
  /\ calls' = calls + 1
  /\ Failed(UnitOf[r], fingerprint)
  /\ NextPass
  /\ UNCHANGED <<auditVars, stageVars, review>>

\* Mutant: only the selected gap is looked at in the rescan.
VerifiedIgnoringRegressions(r, rescan) == r \in Gaps => rescan[r] = "pass"

\* verify_change_set: a selected static gap must pass and no other gap that
\* passed may stop passing; gaps that did not pass are not protected.
Verified(r, rescan) ==
  /\ r \in Gaps => rescan[r] = "pass"
  /\ \A g \in Gaps : status[g] = "pass" => rescan[g] = "pass"

\* Mutant: a success does not count as an attempt of its unit.
StageUncounted(r, rescan) ==
  /\ Generating(r)
  /\ Verified(r, rescan)
  /\ calls' = calls + 1
  /\ status' = rescan
  /\ staged' = staged \cup {r}
  /\ dirty' \in IF dirty /\ staged' \cap Gaps = {} THEN BOOLEAN ELSE {TRUE}
  /\ findings' = findings \ {r}
  /\ semanticStaged' = (semanticStaged \/ r \in Findings)
  /\ NextPassUnless(BudgetSpent(calls'))
  /\ UNCHANGED <<attempts, history, blocked, auditPhase, postPending, review>>

\* Mutant: whether an audit is due depends on the last candidate only.
StageForgettingFindings(r, rescan) ==
  /\ Generating(r)
  /\ Verified(r, rescan)
  /\ calls' = calls + 1
  /\ attempts' = [attempts EXCEPT ![UnitOf[r]] = @ + 1]
  /\ status' = rescan
  /\ staged' = staged \cup {r}
  /\ dirty' \in IF dirty /\ staged' \cap Gaps = {} THEN BOOLEAN ELSE {TRUE}
  /\ findings' = findings \ {r}
  /\ semanticStaged' = (r \in Findings)
  /\ NextPassUnless(BudgetSpent(calls'))
  /\ UNCHANGED <<history, blocked, auditPhase, postPending, review>>

\* A verified candidate is written to the scratch copy.  A later candidate
\* may restore the provider's content, unless a staged gap depends on it.
Stage(r, rescan) ==
  /\ Generating(r)
  /\ Verified(r, rescan)
  /\ calls' = calls + 1
  /\ attempts' = [attempts EXCEPT ![UnitOf[r]] = @ + 1]
  /\ status' = rescan
  /\ staged' = staged \cup {r}
  /\ dirty' \in IF dirty /\ staged' \cap Gaps = {} THEN BOOLEAN ELSE {TRUE}
  /\ findings' = findings \ {r}
  /\ semanticStaged' = (semanticStaged \/ r \in Findings)
  /\ NextPassUnless(BudgetSpent(calls'))
  /\ UNCHANGED <<history, blocked, auditPhase, postPending, review>>

\* A timeout or adapter failure of the generator ends the whole run, and so
\* does a verified candidate that the scratch copy cannot take.
GeneratorUnavailable(r) ==
  /\ Generating(r)
  /\ pc' = "aborted"
  /\ UNCHANGED <<iteration, auditVars, unitVars, stageVars, calls, review>>

OutOfBudget ==
  /\ InLoop
  /\ Pending # {}
  /\ BudgetSpent(calls)
  /\ LeaveLoop
  /\ UNCHANGED <<auditVars, unitVars, stageVars, calls, review>>

-----------------------------------------------------------------------------
(* One pass without a row to fix: the completeness audits.                 *)

NothingPending == InLoop /\ Pending = {}

\* Rows that are exhausted or not editable stay parked: an audit cannot
\* override them.
AuditAllowed == Fixable = {} /\ findings = {} /\ AuditRequired

PreAuditDue == AuditAllowed /\ auditPhase = "not_run"

PostAuditDue == AuditAllowed /\ auditPhase = "pre" /\ semanticStaged

PreAudit(rows) ==
  /\ NothingPending
  /\ PreAuditDue
  /\ ~BudgetSpent(calls)
  /\ calls' = calls + 1
  /\ findings' = rows
  /\ auditPhase' = "pre"
  /\ NextPassUnless(rows = {})
  /\ UNCHANGED <<semanticStaged, postPending, unitVars, stageVars, review>>

PostAudit(rows) ==
  /\ NothingPending
  /\ PostAuditDue
  /\ ~BudgetSpent(calls)
  /\ calls' = calls + 1
  /\ findings' = rows
  /\ auditPhase' = "post"
  /\ LeaveLoop
  /\ UNCHANGED <<semanticStaged, postPending, unitVars, stageVars, review>>

\* An audit that fails its schema, scope or infrastructure ends the run.
AuditFails ==
  /\ NothingPending
  /\ PreAuditDue \/ PostAuditDue
  /\ ~BudgetSpent(calls)
  /\ pc' = "aborted"
  /\ UNCHANGED <<iteration, auditVars, unitVars, stageVars, calls, review>>

\* Nothing left to do, or the next audit is beyond the call budget.
Stop ==
  /\ NothingPending
  /\ (PreAuditDue \/ PostAuditDue) => BudgetSpent(calls)
  /\ postPending' = (postPending \/ PostAuditDue)
  /\ LeaveLoop
  /\ UNCHANGED <<findings, auditPhase, semanticStaged, unitVars, stageVars,
                 calls, review>>

-----------------------------------------------------------------------------
(* After the loop: the final scan, the parked rows and the review.         *)

Exhausted ==
  /\ pc = "loop"
  /\ iteration = limits.iterations
  /\ pc' = "finish"
  /\ UNCHANGED <<iteration, auditVars, unitVars, stageVars, calls, review>>

ReasonParked(r) ==
  LET u == UnitOf[r] IN
  IF r \notin Editable THEN "human_route"
  ELSE IF u \in blocked THEN "blocked"
  ELSE IF attempts[u] = 0 THEN "not_attempted"
  ELSE IF attempts[u] < MaxAttempts THEN "retry_remains" ELSE "exhausted"

\* Mutant: a staged fix is taken to close every row of its unit.
ParkedByUnit == {r \in BlockingRows : ~\E q \in staged : UnitOf[q] = UnitOf[r]}

\* _park reports every blocking row of the final scan that was not staged.
Parked == BlockingRows \ staged

WriteReview ==
  /\ pc = "finish"
  /\ pc' = "done"
  /\ review' = [status |-> IF dirty THEN "awaiting_review" ELSE "no_changes",
                parked |-> [r \in Parked |-> ReasonParked(r)],
                postAuditPending |-> postPending]
  /\ UNCHANGED <<iteration, auditVars, unitVars, stageVars, calls>>

-----------------------------------------------------------------------------
\* run_auto discards the markers of an earlier review, copies the provider
\* into the scratch directory and starts from empty ledgers.
Init ==
  /\ limits \in Limits
  /\ pc = "loop"
  /\ iteration = 0
  /\ status \in [Gaps -> RowStatus]
  /\ findings = {}
  /\ auditPhase = "not_run"
  /\ semanticStaged = FALSE
  /\ postPending = FALSE
  /\ attempts = [u \in Units |-> 0]
  /\ history = [u \in Units |-> <<>>]
  /\ blocked = {}
  /\ calls = 0
  /\ staged = {}
  /\ dirty = FALSE
  /\ review = NoReview

Generate(r) ==
  \/ Decline(r)
  \/ Unrepresentable(r)
  \/ \E fingerprint \in Fingerprints :
       RejectedByGuardrail(r, fingerprint) \/ FailsVerification(r, fingerprint)
  \/ \E rescan \in [Gaps -> RowStatus] : Stage(r, rescan)
  \/ GeneratorUnavailable(r)

Audit ==
  \/ \E rows \in SUBSET Findings : PreAudit(rows) \/ PostAudit(rows)
  \/ AuditFails

Pass ==
  \/ \E r \in Rows : Generate(r)
  \/ OutOfBudget
  \/ Audit
  \/ Stop
  \/ Exhausted
  \/ WriteReview

Next == Pass /\ UNCHANGED limits

Spec == Init /\ [][Next]_vars
-----------------------------------------------------------------------------
(* What a run promises.                                                    *)

\* The type invariant.
TypeOK ==
  /\ limits \in Limits
  /\ pc \in {"loop", "finish", "done", "aborted"}
  /\ iteration \in 0 .. limits.iterations
  /\ status \in [Gaps -> RowStatus]
  /\ findings \subseteq Findings
  /\ auditPhase \in AuditPhases
  /\ semanticStaged \in BOOLEAN
  /\ postPending \in BOOLEAN
  /\ attempts \in [Units -> 0 .. MaxAttempts]
  /\ history \in [Units -> Seq(Fingerprints)]
  /\ blocked \subseteq Units
  /\ calls \in Nat
  /\ staged \subseteq Rows
  /\ dirty \in BOOLEAN
  /\ review.status \in {"none", "no_changes", "awaiting_review"}
  /\ DOMAIN review.parked \subseteq Rows
  /\ \A r \in DOMAIN review.parked : review.parked[r] \in ParkReasons
  /\ review.postAuditPending \in BOOLEAN

\* The ledger of a unit never holds the same failure three times: a repeated
\* fingerprint parks the unit "without a third identical generation".
NoThirdIdenticalFailure ==
  \A u \in Units : \A i, j, k \in DOMAIN history[u] :
    i < j /\ j < k => ~(history[u][i] = history[u][j] /\ history[u][j] = history[u][k])

\* Rows that share a contract unit share its retry budget: the failures of a
\* unit and the candidates staged for it never exceed max_attempts together.
SharedRetryBudget ==
  \A u \in Units :
    Len(history[u]) + Cardinality({r \in staged : UnitOf[r] = u}) <= MaxAttempts

\* Counted generator calls, audits included, stay within max_generator_calls.
CallBudgetKept == limits.calls # NoLimit => calls <= limits.calls

\* A gap staged as fixed still passes in the scratch copy under review, no
\* matter which candidates were staged after it.
StagedGapsStayResolved == \A g \in staged \cap Gaps : status[g] = "pass"

\* No static blocker is lost: whatever still blocks in the scratch copy when
\* the review is written is named in it, and one that could still have been
\* tried was given up only because a budget of the whole run was spent.
EveryBlockerReported ==
  Reviewed =>
    \A g \in Gaps : status[g] = "blocking" =>
      /\ g \in DOMAIN review.parked
      /\ review.parked[g] \in {"not_attempted", "retry_remains"} =>
           iteration = limits.iterations \/ BudgetSpent(calls)

SpentAttempts == {a \in Units \X (1 .. MaxAttempts) : a[2] <= attempts[a[1]]}

\* The retry budgets end the loop by themselves: every pass but the first audit
\* and the last pass has used up an attempt of some unit, so that the product
\* of units and max_attempts bounds the loop and max_iterations is a backstop.
BudgetsBoundTheLoop == iteration <= Cardinality(SpentAttempts) + 2

\* The budgets of the run and of its units hold together: the rows of a unit
\* share its attempts, audits count as calls, and what is left of the attempts
\* bounds what is left of the loop.
BudgetsKept == SharedRetryBudget /\ CallBudgetKept /\ BudgetsBoundTheLoop

\* "After a semantic candidate is staged, runs one post-change audit and parks any
\* unresolved finding" (README.md): a fix of an audit finding goes to review only
\* after that audit, or in a review that names a blocking row, or if a budget of
\* the whole run was spent.
SemanticFixesAudited ==
  Reviewed /\ staged \cap Findings # {} =>
    \/ auditPhase = "post"
    \/ DOMAIN review.parked # {}
    \/ BudgetSpent(calls) \/ iteration = limits.iterations
=============================================================================

--------------------------- MODULE AutoRunProofs ---------------------------
(***************************************************************************)
(* What AutoRun guarantees for every set of rows, every assignment of rows *)
(* to contract units and every budget.                                     *)
(***************************************************************************)
EXTENDS AutoRun, FiniteSetTheorems, TLAPS

\* The inductive invariant for the ledgers: a unit that may still be tried
\* has seen no failure twice.
LedgerInv ==
  \A u \in Units : attempts[u] < MaxAttempts =>
    \A i, j \in DOMAIN history[u] : history[u][i] = history[u][j] => i = j

\* The inductive invariant for the report: a review exists only at the end.
ReviewInv == Reviewed => pc = "done"

\* A gap that could still be tried when the loop is left.
Untried(g) ==
  status[g] = "blocking" /\ g \in Editable /\ attempts[UnitOf[g]] < MaxAttempts

GivenUpInv ==
  pc \in {"finish", "done"} =>
    \/ \A g \in Gaps : ~Untried(g)
    \/ iteration = limits.iterations \/ BudgetSpent(calls)

\* The inductive invariant for the length of the loop: the passes begun so far
\* have used up an attempt each, but for the first audit and the last pass.
PassInv ==
  LET audited == IF auditPhase = "not_run" THEN 0 ELSE 1 IN
  \/ iteration <= Cardinality(SpentAttempts) + audited
  \/ pc # "loop" /\ iteration <= Cardinality(SpentAttempts) + 2

\* The inductive invariant for the shared budget: the attempts of a unit count
\* its failures and the candidates staged for it.
StagedFor(u) == {r \in staged : UnitOf[r] = u}

AttemptInv ==
  \A u \in Units : Len(history[u]) + Cardinality(StagedFor(u)) <= attempts[u]

\* The limits of a call are numbers and never change.
LEMMA LimitsKept ==
  ASSUME TypeOK, [Next]_vars
  PROVE  limits' = limits /\ limits \in Limits /\ limits.iterations \in Nat \ {0}
  BY LimitAssumption DEF TypeOK, Next, vars

-----------------------------------------------------------------------------
(* What a pass does to the ledgers, whatever else it does.                 *)

LEMMA ParkType ==
  ASSUME TypeOK, NEW u \in Units, Park(u)
  PROVE  /\ attempts' \in [Units -> 0 .. MaxAttempts]
         /\ history' \in [Units -> Seq(Fingerprints)]
         /\ blocked' \subseteq Units
  BY BudgetAssumption DEF TypeOK, Park

LEMMA FailedType ==
  ASSUME TypeOK, NEW u \in Units, NEW f \in Fingerprints, Failed(u, f),
         attempts[u] < MaxAttempts
  PROVE  /\ attempts' \in [Units -> 0 .. MaxAttempts]
         /\ history' \in [Units -> Seq(Fingerprints)]
         /\ blocked' \subseteq Units
<1> DEFINE ledger == Append(history[u], f)
<1>1. ledger \in Seq(Fingerprints)
  BY DEF TypeOK
<1>2. history' = [history EXCEPT ![u] = ledger]
  BY DEF Failed
<1>3. \/ attempts' = [attempts EXCEPT ![u] = MaxAttempts]
      \/ attempts' = [attempts EXCEPT ![u] = @ + 1]
  BY DEF Failed
<1>4. blocked' \in {blocked, blocked \cup {u}}
  BY DEF Failed
<1> HIDE DEF ledger
<1>5. history' \in [Units -> Seq(Fingerprints)]
  BY <1>1, <1>2 DEF TypeOK
<1>6. attempts' \in [Units -> 0 .. MaxAttempts]
  <2>1. attempts[u] + 1 \in 0 .. MaxAttempts /\ MaxAttempts \in 0 .. MaxAttempts
    BY BudgetAssumption DEF TypeOK
  <2> QED
    BY <1>3, <2>1 DEF TypeOK
<1>7. QED
  BY <1>4, <1>5, <1>6 DEF TypeOK

LEMMA SelectedUnit ==
  ASSUME TypeOK, NEW r \in Rows, Generating(r)
  PROVE  /\ UnitOf[r] \in Units
         /\ attempts[UnitOf[r]] < MaxAttempts
         /\ attempts[UnitOf[r]] \in Nat
         /\ iteration + 1 \in 0 .. limits.iterations
  BY RowAssumption, LimitAssumption
  DEF TypeOK, Generating, InLoop, Selected, Pending

LEMMA PassType ==
  ASSUME TypeOK, iteration + 1 \in 0 .. limits.iterations, NEW stop \in BOOLEAN,
         NextPassUnless(stop)
  PROVE  pc' \in {"loop", "finish"} /\ iteration' \in 0 .. limits.iterations
<1>1. iteration' = iteration + 1 /\ pc' \in {"loop", "finish"}
  BY DEF NextPassUnless, NextPass, LeaveLoop
<1> QED
  BY <1>1

-----------------------------------------------------------------------------
(* Every variable keeps its type: no ledger, budget or report of a run is  *)
(* ever outside the sets that TypeOK names.                                *)
THEOREM TypeCorrect == Spec => []TypeOK
<1>1. Init => TypeOK
  <2> SUFFICES ASSUME Init PROVE TypeOK
    OBVIOUS
  <2>1. history \in [Units -> Seq(Fingerprints)]
    BY DEF Init
  <2>2. /\ review.status = "none" /\ DOMAIN review.parked = {}
        /\ review.postAuditPending = FALSE
    BY DEF Init, NoReview
  <2>3. attempts \in [Units -> 0 .. MaxAttempts] /\ iteration \in 0 .. limits.iterations
    BY BudgetAssumption, LimitAssumption DEF Init
  <2> QED
    BY <2>1, <2>2, <2>3 DEF Init, TypeOK, AuditPhases
<1>2. TypeOK /\ [Next]_vars => TypeOK'
  <2> SUFFICES ASSUME TypeOK, [Next]_vars PROVE TypeOK'
    OBVIOUS
  <2>0. limits' = limits /\ limits \in Limits /\ limits.iterations \in Nat \ {0}
    BY LimitsKept
  <2> USE <2>0 DEF TypeOK, AuditPhases
  <2>1. ASSUME NEW r \in Rows, Generate(r) PROVE TypeOK'
    <3>1. CASE Decline(r)
      <4>1. Generating(r) /\ Park(UnitOf[r])
        BY <3>1 DEF Decline
      <4>2. NextPassUnless(BudgetSpent(calls'))
        BY <3>1 DEF Decline
      <4>3. pc' \in {"loop", "finish"} /\ iteration' \in 0 .. limits.iterations
        BY <4>1, <4>2, SelectedUnit, PassType DEF BudgetSpent
      <4> QED
        BY <3>1, <4>1, <4>3, SelectedUnit, ParkType
        DEF Decline, auditVars, stageVars
    <3>2. CASE Unrepresentable(r)
      BY <3>2, SelectedUnit, ParkType
      DEF Unrepresentable, NextPass, auditVars, stageVars
    <3>3. ASSUME NEW f \in Fingerprints, RejectedByGuardrail(r, f) PROVE TypeOK'
      BY <3>3, SelectedUnit, FailedType
      DEF RejectedByGuardrail, NextPass, auditVars, stageVars
    <3>4. ASSUME NEW f \in Fingerprints, FailsVerification(r, f) PROVE TypeOK'
      BY <3>4, SelectedUnit, FailedType
      DEF FailsVerification, NextPass, auditVars, stageVars
    <3>5. ASSUME NEW rescan \in [Gaps -> RowStatus], Stage(r, rescan) PROVE TypeOK'
      <4>1. Generating(r)
        BY <3>5 DEF Stage
      <4>2. NextPassUnless(BudgetSpent(calls'))
        BY <3>5 DEF Stage
      <4>3. pc' \in {"loop", "finish"} /\ iteration' \in 0 .. limits.iterations
        BY <4>1, <4>2, SelectedUnit, PassType DEF BudgetSpent
      <4>4. attempts' \in [Units -> 0 .. MaxAttempts]
        BY <3>5, <4>1, SelectedUnit, BudgetAssumption DEF Stage
      <4>5. findings' \subseteq Findings /\ staged' \subseteq Rows /\ calls' \in Nat
        BY <3>5 DEF Stage
      <4>6. dirty' \in BOOLEAN /\ semanticStaged' \in BOOLEAN
        BY <3>5 DEF Stage
      <4> QED
        BY <3>5, <4>3, <4>4, <4>5, <4>6 DEF Stage
    <3>6. CASE GeneratorUnavailable(r)
      BY <3>6 DEF GeneratorUnavailable, auditVars, unitVars, stageVars
    <3> QED
      BY <2>1, <3>1, <3>2, <3>3, <3>4, <3>5, <3>6 DEF Generate
  <2>2. CASE OutOfBudget
    BY <2>2 DEF OutOfBudget, InLoop, LeaveLoop, auditVars, unitVars, stageVars
  <2>3. CASE Audit
    <3>1. ASSUME NEW rows \in SUBSET Findings, PreAudit(rows) PROVE TypeOK'
      BY <3>1 DEF PreAudit, NothingPending, InLoop, NextPassUnless, NextPass,
                  LeaveLoop, unitVars, stageVars
    <3>2. ASSUME NEW rows \in SUBSET Findings, PostAudit(rows) PROVE TypeOK'
      BY <3>2 DEF PostAudit, NothingPending, InLoop, LeaveLoop, unitVars, stageVars
    <3>3. CASE AuditFails
      BY <3>3 DEF AuditFails, auditVars, unitVars, stageVars
    <3> QED
      BY <2>3, <3>1, <3>2, <3>3 DEF Audit
  <2>4. CASE Stop
    <3>1. postPending' \in BOOLEAN
      BY <2>4 DEF Stop, PostAuditDue
    <3> QED
      BY <2>4, <3>1 DEF Stop, NothingPending, InLoop, LeaveLoop, unitVars, stageVars
  <2>5. CASE Exhausted
    BY <2>5 DEF Exhausted, auditVars, unitVars, stageVars
  <2>6. CASE WriteReview
    <3>1. Parked \subseteq Rows
      BY DEF Parked, BlockingRows, Rows
    <3>2. \A r : ReasonParked(r) \in ParkReasons
      BY DEF ReasonParked, ParkReasons
    <3> QED
      BY <2>6, <3>1, <3>2 DEF WriteReview, auditVars, unitVars, stageVars
  <2>7. CASE UNCHANGED vars
    BY <2>7 DEF vars, auditVars, unitVars, stageVars
  <2> QED
    BY <2>1, <2>2, <2>3, <2>4, <2>5, <2>6, <2>7 DEF Next, Pass
<1> QED
  BY <1>1, <1>2, PTL DEF Spec

-----------------------------------------------------------------------------
(* Each pass spends at most one call, and only while the limit is not yet   *)
(* reached: the calls counted never exceed max_generator_calls.             *)
THEOREM CallBudget == Spec => []CallBudgetKept
<1> DEFINE IInv == limits \in Limits /\ calls \in Nat /\ CallBudgetKept
<1>1. Init => IInv
  BY LimitAssumption DEF Init, CallBudgetKept
<1>2. IInv /\ [Next]_vars => IInv'
  <2> SUFFICES ASSUME IInv, [Next]_vars PROVE IInv'
    OBVIOUS
  <2>0. limits' = limits /\ limits.calls \in Nat
    BY LimitAssumption DEF Next, vars
  <2>1. ASSUME ~BudgetSpent(calls), calls' \in {calls, calls + 1} PROVE IInv'
    BY <2>0, <2>1 DEF BudgetSpent, CallBudgetKept, NoLimit
  <2>2. ASSUME UNCHANGED calls PROVE IInv'
    BY <2>0, <2>2 DEF CallBudgetKept
  <2>3. ASSUME NEW r \in Rows, Generate(r) PROVE IInv'
    BY <2>3, <2>1, <2>2
    DEF Generate, Decline, Unrepresentable, RejectedByGuardrail, FailsVerification,
        Stage, GeneratorUnavailable, Generating
  <2>4. CASE Audit
    BY <2>4, <2>1, <2>2 DEF Audit, PreAudit, PostAudit, AuditFails
  <2>5. CASE OutOfBudget \/ Stop \/ Exhausted \/ WriteReview
    BY <2>5, <2>2 DEF OutOfBudget, Stop, Exhausted, WriteReview
  <2>6. CASE UNCHANGED vars
    BY <2>6, <2>2 DEF vars
  <2> QED
    BY <2>3, <2>4, <2>5, <2>6 DEF Next, Pass
<1> QED
  BY <1>1, <1>2, PTL DEF Spec

-----------------------------------------------------------------------------
(* A failure appended to the ledger of a unit that may still be tried keeps *)
(* both facts about ledgers.                                                *)
LEMMA FailedLedger ==
  ASSUME TypeOK, LedgerInv, NoThirdIdenticalFailure,
         NEW u \in Units, NEW f \in Fingerprints, Failed(u, f),
         attempts[u] < MaxAttempts
  PROVE  LedgerInv' /\ NoThirdIdenticalFailure'
<1> DEFINE old == history[u]
<1> DEFINE new == Append(old, f)
<1>1. old \in Seq(Fingerprints)
  BY DEF TypeOK
<1>2. /\ new \in Seq(Fingerprints)
      /\ Len(new) = Len(old) + 1
      /\ DOMAIN old = 1 .. Len(old) /\ DOMAIN new = 1 .. Len(old) + 1
      /\ \A i \in DOMAIN old : new[i] = old[i]
      /\ new[Len(old) + 1] = f
      /\ Len(old) \in Nat
  BY <1>1
<1>3. history' = [history EXCEPT ![u] = new]
  BY DEF Failed
<1>4. history'[u] = new /\ \A v \in Units \ {u} : history'[v] = history[v]
  BY <1>3 DEF TypeOK
<1>5. \A v \in Units \ {u} : attempts'[v] = attempts[v]
  BY DEF TypeOK, Failed
<1>6. attempts'[u] < MaxAttempts => \A i \in DOMAIN old : old[i] # f
  <2>1. CASE \E i \in DOMAIN old : old[i] = f
    <3>1. attempts' = [attempts EXCEPT ![u] = MaxAttempts]
      BY <2>1 DEF Failed
    <3> QED
      BY <3>1, BudgetAssumption DEF TypeOK
  <2> QED
    BY <2>1
<1>7. \A i, j \in DOMAIN old : old[i] = old[j] => i = j
  BY DEF LedgerInv
<1> HIDE DEF old, new
<1>8. LedgerInv'
  <2>1. attempts'[u] < MaxAttempts =>
          \A i, j \in DOMAIN new : new[i] = new[j] => i = j
    BY <1>2, <1>6, <1>7
  <2> QED
    BY <2>1, <1>4, <1>5 DEF LedgerInv
<1>9. NoThirdIdenticalFailure'
  <2>1. \A i, j, k \in DOMAIN new :
          i < j /\ j < k => ~(new[i] = new[j] /\ new[j] = new[k])
    BY <1>2, <1>7
  <2> QED
    BY <2>1, <1>4 DEF NoThirdIdenticalFailure
<1> QED
  BY <1>8, <1>9

(* A repeated failure is regenerated once at most: no ledger ever holds the *)
(* same fingerprint three times, for every budget of attempts and groups.   *)
THEOREM RepeatedFailureParks == Spec => []NoThirdIdenticalFailure
<1> DEFINE IInv == LedgerInv /\ NoThirdIdenticalFailure
<1>1. Init => IInv
  BY DEF Init, LedgerInv, NoThirdIdenticalFailure
<1>2. TypeOK /\ IInv /\ [Next]_vars => IInv'
  <2> SUFFICES ASSUME TypeOK, IInv, [Next]_vars PROVE IInv'
    OBVIOUS
  <2>1. ASSUME UNCHANGED history,
               \A u \in Units : attempts'[u] < MaxAttempts => attempts[u] < MaxAttempts
        PROVE  IInv'
    BY <2>1 DEF LedgerInv, NoThirdIdenticalFailure
  <2>2. ASSUME UNCHANGED <<attempts, history>> PROVE IInv'
    BY <2>2 DEF LedgerInv, NoThirdIdenticalFailure
  <2>3. ASSUME NEW r \in Rows, Generating(r), Park(UnitOf[r]) PROVE IInv'
    BY <2>3, <2>1, SelectedUnit DEF Park, TypeOK
  <2>4. ASSUME NEW r \in Rows, NEW f \in Fingerprints,
               Generating(r), Failed(UnitOf[r], f)
        PROVE  IInv'
    BY <2>4, SelectedUnit, FailedLedger
  <2>5. ASSUME NEW r \in Rows, NEW rescan \in [Gaps -> RowStatus], Stage(r, rescan)
        PROVE  IInv'
    <3>1. attempts' = [attempts EXCEPT ![UnitOf[r]] = @ + 1] /\ UNCHANGED history
      BY <2>5 DEF Stage
    <3>2. attempts \in [Units -> Nat]
      BY DEF TypeOK
    <3>3. \A u \in Units : attempts'[u] < MaxAttempts => attempts[u] < MaxAttempts
      BY <3>1, <3>2, BudgetAssumption
    <3> QED
      BY <3>1, <3>3, <2>1
  <2>6. ASSUME NEW r \in Rows, Generate(r) PROVE IInv'
    BY <2>6, <2>2, <2>3, <2>4, <2>5
    DEF Generate, Decline, Unrepresentable, RejectedByGuardrail, FailsVerification,
        GeneratorUnavailable, unitVars
  <2>7. CASE Audit
    BY <2>7, <2>2 DEF Audit, PreAudit, PostAudit, AuditFails, unitVars
  <2>8. CASE OutOfBudget \/ Stop \/ Exhausted \/ WriteReview
    BY <2>8, <2>2 DEF OutOfBudget, Stop, Exhausted, WriteReview, unitVars
  <2>9. CASE UNCHANGED vars
    BY <2>9, <2>2 DEF vars, unitVars
  <2> QED
    BY <2>6, <2>7, <2>8, <2>9 DEF Next, Pass
<1> QED
  BY <1>1, <1>2, TypeCorrect, PTL DEF Spec

-----------------------------------------------------------------------------
(* A staged gap passes for as long as the run stages further candidates:    *)
(* the regression check of each of them protects what passed before it.     *)
THEOREM StagedGapsProtected == Spec => []StagedGapsStayResolved
<1>1. Init => StagedGapsStayResolved
  BY DEF Init, StagedGapsStayResolved
<1>2. StagedGapsStayResolved /\ [Next]_vars => StagedGapsStayResolved'
  <2> SUFFICES ASSUME StagedGapsStayResolved, [Next]_vars
               PROVE  StagedGapsStayResolved'
    OBVIOUS
  <2>1. ASSUME UNCHANGED stageVars PROVE StagedGapsStayResolved'
    BY <2>1 DEF stageVars, StagedGapsStayResolved
  <2>2. ASSUME NEW r \in Rows, NEW rescan \in [Gaps -> RowStatus], Stage(r, rescan)
        PROVE  StagedGapsStayResolved'
    BY <2>2 DEF Stage, Verified, StagedGapsStayResolved
  <2>3. ASSUME NEW r \in Rows, Generate(r) PROVE StagedGapsStayResolved'
    BY <2>3, <2>1, <2>2
    DEF Generate, Decline, Unrepresentable, RejectedByGuardrail, FailsVerification,
        GeneratorUnavailable
  <2>4. CASE Audit
    BY <2>4, <2>1 DEF Audit, PreAudit, PostAudit, AuditFails
  <2>5. CASE OutOfBudget \/ Stop \/ Exhausted \/ WriteReview
    BY <2>5, <2>1 DEF OutOfBudget, Stop, Exhausted, WriteReview, stageVars
  <2>6. CASE UNCHANGED vars
    BY <2>6, <2>1 DEF vars, stageVars
  <2> QED
    BY <2>3, <2>4, <2>5, <2>6 DEF Next, Pass
<1> QED
  BY <1>1, <1>2, PTL DEF Spec

(* Whichever step leaves the loop, it leaves no gap to try behind, or a     *)
(* budget of the whole run is spent.  Audits change findings, not gaps.     *)
LEMMA GivenUp == Spec => []GivenUpInv
<1>1. Init => GivenUpInv
  BY DEF Init, GivenUpInv
<1>2. GivenUpInv /\ [Next]_vars => GivenUpInv'
  <2> SUFFICES ASSUME GivenUpInv, [Next]_vars PROVE GivenUpInv'
    OBVIOUS
  <2>1. ASSUME pc' = "loop" \/ pc' = "aborted" PROVE GivenUpInv'
    BY <2>1 DEF GivenUpInv
  <2>2. limits' = limits
    BY DEF Next, vars
  <2>3. ASSUME LeaveLoop, BudgetSpent(calls') PROVE GivenUpInv'
    BY <2>3, <2>2 DEF GivenUpInv, BudgetSpent, NoLimit
  <2>4. ASSUME UNCHANGED <<status, attempts>>, Pending = {} PROVE GivenUpInv'
    <3>1. \A g \in Gaps : ~Untried(g)
      BY <2>4 DEF Untried, Pending, Fixable, BlockingRows
    <3> QED
      BY <3>1, <2>4 DEF GivenUpInv, Untried
  <2>5. ASSUME NEW r \in Rows, Generate(r) PROVE GivenUpInv'
    BY <2>5, <2>1, <2>3
    DEF Generate, Decline, Unrepresentable, RejectedByGuardrail, FailsVerification,
        Stage, GeneratorUnavailable, NextPassUnless, NextPass
  <2>6. CASE Audit \/ Stop
    BY <2>6, <2>4, <2>1
    DEF Audit, PreAudit, PostAudit, AuditFails, Stop, NothingPending, unitVars, stageVars
  <2>7. CASE OutOfBudget
    BY <2>7, <2>3 DEF OutOfBudget
  <2>8. CASE Exhausted
    BY <2>8, <2>2 DEF Exhausted, GivenUpInv
  <2>9. CASE WriteReview \/ UNCHANGED vars
    BY <2>9, <2>2
    DEF WriteReview, vars, unitVars, stageVars, GivenUpInv, Untried, BudgetSpent, NoLimit
  <2> QED
    BY <2>5, <2>6, <2>7, <2>8, <2>9 DEF Next, Pass
<1> QED
  BY <1>1, <1>2, PTL DEF Spec

(* The review names every gap that still blocks, and gives none up before   *)
(* its time.  Staged gaps are left out of it, so the proof rests on their   *)
(* still passing; the reason in the review is that of the last pass.        *)
THEOREM BlockersReported == Spec => []EveryBlockerReported
<1> DEFINE IInv == ReviewInv /\ EveryBlockerReported
<1>1. Init => IInv
  BY DEF Init, ReviewInv, EveryBlockerReported, Reviewed, NoReview
<1>2. TypeOK /\ StagedGapsStayResolved /\ GivenUpInv /\ IInv /\ [Next]_vars => IInv'
  <2> SUFFICES ASSUME TypeOK, StagedGapsStayResolved, GivenUpInv, IInv, [Next]_vars
               PROVE  IInv'
    OBVIOUS
  <2>1. ASSUME UNCHANGED review, pc # "done" PROVE IInv'
    BY <2>1 DEF ReviewInv, EveryBlockerReported, Reviewed
  <2>2. ASSUME NEW r \in Rows, Generate(r) PROVE IInv'
    BY <2>2, <2>1
    DEF Generate, Decline, Unrepresentable, RejectedByGuardrail, FailsVerification,
        Stage, GeneratorUnavailable, Generating, InLoop
  <2>3. CASE Audit
    BY <2>3, <2>1 DEF Audit, PreAudit, PostAudit, AuditFails, NothingPending, InLoop
  <2>4. CASE OutOfBudget \/ Stop \/ Exhausted
    BY <2>4, <2>1 DEF OutOfBudget, Stop, Exhausted, NothingPending, InLoop
  <2>5. CASE WriteReview
    <3>0. limits' = limits
      BY DEF Next, vars
    <3>1. /\ review'.parked = [r \in Parked |-> ReasonParked(r)]
          /\ pc' = "done" /\ pc = "finish"
          /\ UNCHANGED <<status, iteration, calls, limits>>
      BY <2>5, <3>0 DEF WriteReview, stageVars
    <3>2. ASSUME NEW g \in Gaps, status[g] = "blocking"
          PROVE  /\ g \in Parked
                 /\ ReasonParked(g) \in {"not_attempted", "retry_remains"} =>
                      iteration = limits.iterations \/ BudgetSpent(calls)
      <4>1. g \in Parked
        BY <3>2 DEF Parked, BlockingRows, StagedGapsStayResolved
      <4>2. ASSUME ReasonParked(g) \in {"not_attempted", "retry_remains"} PROVE Untried(g)
        <5>1. UnitOf[g] \in Units
          BY RowAssumption DEF Rows
        <5>2. attempts[UnitOf[g]] \in 0 .. MaxAttempts /\ MaxAttempts \in Nat \ {0}
          BY <5>1, BudgetAssumption DEF TypeOK
        <5>3. g \in Editable /\ attempts[UnitOf[g]] < MaxAttempts
          BY <4>2, <5>2 DEF ReasonParked
        <5> QED
          BY <5>3, <3>2 DEF Untried
      <4> QED
        BY <4>1, <4>2, <3>1 DEF GivenUpInv
    <3>3. BudgetSpent(calls)' = BudgetSpent(calls)
      BY <3>1 DEF BudgetSpent, NoLimit
    <3> QED
      BY <3>1, <3>2, <3>3 DEF ReviewInv, EveryBlockerReported
  <2>6. CASE UNCHANGED vars
    BY <2>6
    DEF vars, stageVars, ReviewInv, EveryBlockerReported, Reviewed, BudgetSpent, NoLimit
  <2> QED
    BY <2>2, <2>3, <2>4, <2>5, <2>6 DEF Next, Pass
<1> QED
  BY <1>1, <1>2, TypeCorrect, StagedGapsProtected, GivenUp, PTL DEF Spec

-----------------------------------------------------------------------------
(* Fixes of audit findings.                                                *)

\* A finding comes from an audit and leaves the rows when it is staged; only
\* the post-change audit can bring it back.
AuditInv ==
  /\ auditPhase = "not_run" => findings = {} /\ staged \cap Findings = {}
  /\ auditPhase # "post" => findings \cap staged = {}
  /\ auditPhase # "not_run" => AuditRequired
  /\ staged \cap Findings # {} => semanticStaged

\* Why the loop was left after a finding was staged.
LeftInv ==
  pc \in {"finish", "done"} /\ staged \cap Findings # {} /\ auditPhase # "post" =>
    BlockingRows # {} \/ BudgetSpent(calls) \/ iteration = limits.iterations

LEMMA AuditInvHolds == Spec => []AuditInv
<1>1. Init => AuditInv
  BY DEF Init, AuditInv
<1>2. AuditInv /\ [Next]_vars => AuditInv'
  <2> SUFFICES ASSUME AuditInv, [Next]_vars PROVE AuditInv'
    OBVIOUS
  <2>1. ASSUME UNCHANGED <<auditPhase, findings, staged, semanticStaged>> PROVE AuditInv'
    BY <2>1 DEF AuditInv
  <2>2. ASSUME NEW r \in Rows, NEW rescan \in [Gaps -> RowStatus], Stage(r, rescan)
        PROVE  AuditInv'
    <3>1. r \in Gaps \/ r \in findings
      BY <2>2 DEF Stage, Generating, Selected, Pending, Fixable, BlockingRows
    <3>2. r \in findings => auditPhase # "not_run"
      BY DEF AuditInv
    <3>3. /\ staged' = staged \cup {r} /\ findings' = findings \ {r}
          /\ semanticStaged' = (semanticStaged \/ r \in Findings)
          /\ auditPhase' = auditPhase
      BY <2>2 DEF Stage
    <3>4. r \in Gaps => r \notin Findings
      BY RowAssumption
    <3> QED
      BY <3>1, <3>2, <3>3, <3>4 DEF AuditInv
  <2>3. ASSUME NEW r \in Rows, Generate(r) PROVE AuditInv'
    BY <2>3, <2>1, <2>2
    DEF Generate, Decline, Unrepresentable, RejectedByGuardrail, FailsVerification,
        GeneratorUnavailable, auditVars, stageVars
  <2>4. ASSUME NEW rows \in SUBSET Findings, PreAudit(rows) PROVE AuditInv'
    <3>1. /\ auditPhase = "not_run" /\ auditPhase' = "pre" /\ AuditRequired
          /\ findings' = rows /\ UNCHANGED <<staged, semanticStaged>>
      BY <2>4 DEF PreAudit, PreAuditDue, AuditAllowed, stageVars
    <3> QED
      BY <3>1, <2>4 DEF AuditInv
  <2>5. ASSUME NEW rows \in SUBSET Findings, PostAudit(rows) PROVE AuditInv'
    BY <2>5 DEF PostAudit, PostAuditDue, AuditAllowed, stageVars, AuditInv
  <2>6. CASE AuditFails \/ OutOfBudget \/ Stop \/ Exhausted \/ WriteReview
    BY <2>6, <2>1
    DEF AuditFails, OutOfBudget, Stop, Exhausted, WriteReview, auditVars, stageVars
  <2>7. CASE UNCHANGED vars
    BY <2>7, <2>1 DEF vars, auditVars, stageVars
  <2> QED
    BY <2>3, <2>4, <2>5, <2>6, <2>7 DEF Next, Pass, Audit
<1> QED
  BY <1>1, <1>2, PTL DEF Spec

LEMMA LeftInvHolds == Spec => []LeftInv
<1>1. Init => LeftInv
  BY DEF Init, LeftInv
<1>2. TypeOK /\ AuditInv /\ LeftInv /\ [Next]_vars => LeftInv'
  <2> SUFFICES ASSUME TypeOK, AuditInv, LeftInv, [Next]_vars PROVE LeftInv'
    OBVIOUS
  <2>1. ASSUME pc' = "loop" \/ pc' = "aborted" PROVE LeftInv'
    BY <2>1 DEF LeftInv
  <2>2. limits' = limits
    BY DEF Next, vars
  <2>3. ASSUME BudgetSpent(calls') PROVE LeftInv'
    BY <2>2, <2>3 DEF LeftInv, BudgetSpent, NoLimit
  <2>4. ASSUME NEW r \in Rows, Generate(r) PROVE LeftInv'
    BY <2>4, <2>1, <2>3
    DEF Generate, Decline, Unrepresentable, RejectedByGuardrail, FailsVerification,
        Stage, GeneratorUnavailable, NextPassUnless, NextPass
  <2>5. ASSUME NEW rows \in SUBSET Findings, PreAudit(rows) PROVE LeftInv'
    <3>1. auditPhase = "not_run" /\ staged' = staged
      BY <2>5 DEF PreAudit, PreAuditDue, stageVars
    <3> QED
      BY <3>1 DEF AuditInv, LeftInv
  <2>6. ASSUME NEW rows \in SUBSET Findings, PostAudit(rows) PROVE LeftInv'
    BY <2>6 DEF PostAudit, LeftInv
  <2>7. CASE Stop
    <3>1. UNCHANGED <<staged, auditPhase, calls, findings, status>>
      BY <2>7 DEF Stop, stageVars
    <3>2. CASE BlockingRows # {}
      BY <3>1, <3>2 DEF LeftInv, BlockingRows
    <3>3. CASE BlockingRows = {} /\ staged \cap Findings # {} /\ auditPhase # "post"
      <4>1. auditPhase \in {"not_run", "pre"}
        BY <3>3 DEF TypeOK, AuditPhases
      <4>2. auditPhase # "not_run" /\ AuditRequired /\ semanticStaged
        BY <3>3 DEF AuditInv
      <4>3. Fixable = {} /\ findings = {}
        BY <3>3 DEF Fixable, BlockingRows
      <4>4. auditPhase = "pre" => BudgetSpent(calls)
        BY <2>7, <4>2, <4>3 DEF Stop, PostAuditDue, AuditAllowed
      <4> QED
        BY <2>3, <3>1, <4>1, <4>2, <4>4
    <3> QED
      BY <3>1, <3>2, <3>3 DEF LeftInv
  <2>8. CASE AuditFails \/ OutOfBudget
    BY <2>8, <2>1, <2>3 DEF AuditFails, OutOfBudget
  <2>9. CASE Exhausted
    BY <2>9, <2>2 DEF Exhausted, LeftInv
  <2>10. CASE WriteReview \/ UNCHANGED vars
    BY <2>10, <2>2
    DEF WriteReview, vars, auditVars, stageVars, LeftInv, BlockingRows, BudgetSpent, NoLimit
  <2> QED
    BY <2>4, <2>5, <2>6, <2>7, <2>8, <2>9, <2>10 DEF Next, Pass, Audit
<1> QED
  BY <1>1, <1>2, AuditInvHolds, TypeCorrect, PTL DEF Spec

(* However the loop is left, a fix of a finding goes to review only after   *)
(* the post-change audit, beside a row that blocks, or for want of budget.  *)
THEOREM SemanticFixesAreAudited == Spec => []SemanticFixesAudited
<1> DEFINE IInv == ReviewInv /\ SemanticFixesAudited
<1>1. Init => IInv
  BY DEF Init, ReviewInv, SemanticFixesAudited, Reviewed, NoReview
<1>2. StagedGapsStayResolved /\ AuditInv /\ LeftInv /\ IInv /\ [Next]_vars => IInv'
  <2> SUFFICES ASSUME StagedGapsStayResolved, AuditInv, LeftInv, IInv, [Next]_vars
               PROVE  IInv'
    OBVIOUS
  <2>1. ASSUME UNCHANGED review, pc # "done" PROVE IInv'
    BY <2>1 DEF ReviewInv, SemanticFixesAudited, Reviewed
  <2>2. ASSUME NEW r \in Rows, Generate(r) PROVE IInv'
    BY <2>2, <2>1
    DEF Generate, Decline, Unrepresentable, RejectedByGuardrail, FailsVerification,
        Stage, GeneratorUnavailable, Generating, InLoop
  <2>3. CASE Audit
    BY <2>3, <2>1 DEF Audit, PreAudit, PostAudit, AuditFails, NothingPending, InLoop
  <2>4. CASE OutOfBudget \/ Stop \/ Exhausted
    BY <2>4, <2>1 DEF OutOfBudget, Stop, Exhausted, NothingPending, InLoop
  <2>5. limits' = limits
    BY DEF Next, vars
  <2>6. CASE WriteReview
    <3>1. /\ DOMAIN review'.parked = Parked
          /\ pc = "finish" /\ pc' = "done"
          /\ UNCHANGED <<staged, auditPhase, calls, iteration>>
      BY <2>6 DEF WriteReview, auditVars, stageVars
    <3>2. auditPhase # "post" /\ BlockingRows # {} => Parked # {}
      BY DEF Parked, BlockingRows, StagedGapsStayResolved, AuditInv
    <3> QED
      BY <2>5, <3>1, <3>2
      DEF ReviewInv, SemanticFixesAudited, LeftInv, BudgetSpent, NoLimit
  <2>7. CASE UNCHANGED vars
    BY <2>7
    DEF vars, auditVars, stageVars, ReviewInv, SemanticFixesAudited, Reviewed, BudgetSpent,
        NoLimit
  <2> QED
    BY <2>2, <2>3, <2>4, <2>6, <2>7 DEF Next, Pass
<1> QED
  BY <1>1, <1>2, StagedGapsProtected, AuditInvHolds, LeftInvHolds, PTL DEF Spec

-----------------------------------------------------------------------------
(* The attempts of all units are a finite set.                              *)
LEMMA AttemptsFinite == IsFiniteSet(Units \X (1 .. MaxAttempts))
<1>1. IsFiniteSet(1 .. MaxAttempts)
  BY BudgetAssumption, FS_Interval
<1> QED
  BY <1>1, RowAssumption, FS_Product

(* Using up one more attempt of a unit makes the set of used ones larger.   *)
LEMMA MoreSpent ==
  ASSUME TypeOK, TypeOK', NEW u \in Units, attempts[u] < attempts'[u],
         \A v \in Units : attempts[v] <= attempts'[v]
  PROVE  /\ Cardinality(SpentAttempts) \in Nat /\ Cardinality(SpentAttempts') \in Nat
         /\ Cardinality(SpentAttempts) + 1 <= Cardinality(SpentAttempts')
<1>1. IsFiniteSet(Units \X (1 .. MaxAttempts))
  BY AttemptsFinite
<1>2. SpentAttempts' \in SUBSET (Units \X (1 .. MaxAttempts))
  BY DEF SpentAttempts
<1>3. IsFiniteSet(SpentAttempts') /\ SpentAttempts \in SUBSET SpentAttempts'
  BY <1>1, <1>2, FS_Subset DEF SpentAttempts, TypeOK
<1>4. IsFiniteSet(SpentAttempts)
  BY <1>3, FS_Subset
<1> DEFINE a == <<u, attempts'[u]>>
<1>5. a \in SpentAttempts' /\ a \notin SpentAttempts
  <2>1. attempts[u] \in Nat /\ attempts'[u] \in 0 .. MaxAttempts
    BY DEF TypeOK
  <2> QED
    BY <2>1 DEF SpentAttempts
<1>6. Cardinality(SpentAttempts \cup {a}) = Cardinality(SpentAttempts) + 1
  BY <1>4, <1>5, FS_AddElement
<1>7. SpentAttempts \cup {a} \in SUBSET SpentAttempts'
  BY <1>3, <1>5
<1>8. Cardinality(SpentAttempts \cup {a}) <= Cardinality(SpentAttempts')
  BY <1>3, <1>7, FS_Subset
<1> QED
  BY <1>3, <1>4, <1>6, <1>8, FS_CardinalityType

LEMMA SpentIsNumber ==
  ASSUME TypeOK
  PROVE  Cardinality(SpentAttempts) \in Nat
<1>1. SpentAttempts \in SUBSET (Units \X (1 .. MaxAttempts))
  BY DEF SpentAttempts
<1> QED
  BY <1>1, AttemptsFinite, FS_Subset, FS_CardinalityType

(* What a pass with a selected row does to the attempts of its unit.        *)
LEMMA AttemptUsed ==
  ASSUME TypeOK, NEW r \in Rows, Generating(r),
         \/ Park(UnitOf[r])
         \/ \E f \in Fingerprints : Failed(UnitOf[r], f)
         \/ \E rescan \in [Gaps -> RowStatus] : Stage(r, rescan)
  PROVE  /\ attempts[UnitOf[r]] < attempts'[UnitOf[r]]
         /\ \A v \in Units : attempts[v] <= attempts'[v]
<1> DEFINE u == UnitOf[r]
<1>1. u \in Units /\ attempts[u] < MaxAttempts /\ MaxAttempts \in Nat
  BY SelectedUnit, BudgetAssumption
<1>2. attempts \in [Units -> Nat]
  BY DEF TypeOK
<1>3. \/ attempts' = [attempts EXCEPT ![u] = MaxAttempts]
      \/ attempts' = [attempts EXCEPT ![u] = @ + 1]
  BY DEF Park, Failed, Stage
<1> HIDE DEF u
<1>4. attempts[u] < attempts'[u] /\ \A v \in Units : attempts[v] <= attempts'[v]
  BY <1>1, <1>2, <1>3
<1> QED
  BY <1>4 DEF u

(* The retry budgets bound the loop, whatever max_iterations says.          *)
THEOREM BudgetsBound == Spec => []BudgetsBoundTheLoop
<1>1. Init => PassInv
  <2> SUFFICES ASSUME Init PROVE PassInv
    OBVIOUS
  <2>1. SpentAttempts = {}
    BY BudgetAssumption DEF SpentAttempts, Init
  <2> QED
    BY <2>1, FS_EmptySet DEF Init, PassInv
<1>2. TypeOK /\ TypeOK' /\ PassInv /\ [Next]_vars => PassInv'
  <2> SUFFICES ASSUME TypeOK, TypeOK', PassInv, [Next]_vars PROVE PassInv'
    OBVIOUS
  <2> DEFINE n == Cardinality(SpentAttempts)
  <2>1. n \in Nat /\ iteration \in Nat
    BY SpentIsNumber, LimitsKept DEF TypeOK
  <2>2. ASSUME UNCHANGED <<attempts, iteration, auditPhase>>, pc' = pc \/ pc' # "loop"
        PROVE  PassInv'
    BY <2>2 DEF PassInv, SpentAttempts
  <2>3. ASSUME UNCHANGED <<attempts, auditPhase>>, pc = "loop",
               pc' = "finish", iteration' = iteration + 1
        PROVE  PassInv'
    <3>1. n' = n
      BY <2>3 DEF SpentAttempts
    <3> HIDE DEF n
    <3>2. iteration <= n + 1
      BY <2>1, <2>3 DEF PassInv, n
    <3>3. iteration' <= n' + 2
      BY <2>1, <2>3, <3>1, <3>2
    <3> QED
      BY <2>3, <3>3 DEF PassInv, n
  <2>4. ASSUME NEW r \in Rows, Generate(r) PROVE PassInv'
    <3>1. CASE GeneratorUnavailable(r)
      BY <3>1, <2>2 DEF GeneratorUnavailable, unitVars, auditVars
    <3>2. CASE ~GeneratorUnavailable(r)
      <4>1. /\ Generating(r) /\ pc = "loop"
            /\ \/ Park(UnitOf[r])
               \/ \E f \in Fingerprints : Failed(UnitOf[r], f)
               \/ \E rescan \in [Gaps -> RowStatus] : Stage(r, rescan)
        BY <2>4, <3>2
        DEF Generate, Decline, Unrepresentable, RejectedByGuardrail, FailsVerification,
            Stage, Generating, InLoop
      <4>2. iteration' = iteration + 1 /\ auditPhase' = auditPhase
        BY <2>4, <3>2
        DEF Generate, Decline, Unrepresentable, RejectedByGuardrail, FailsVerification,
            Stage, auditVars, NextPassUnless, NextPass, LeaveLoop
      <4>3. n' \in Nat /\ n + 1 <= n'
        BY <4>1, SelectedUnit, AttemptUsed, MoreSpent
      <4> HIDE DEF n
      <4>4. iteration <= n + (IF auditPhase = "not_run" THEN 0 ELSE 1)
        BY <4>1 DEF PassInv, n
      <4>5. ASSUME NEW m \in Nat, n + 1 <= m
            PROVE  iteration + 1 <= m + (IF auditPhase = "not_run" THEN 0 ELSE 1)
        BY <2>1, <4>4, <4>5
      <4>6. iteration + 1 <= n' + (IF auditPhase = "not_run" THEN 0 ELSE 1)
        BY <4>3, <4>5
      <4> QED
        BY <4>2, <4>6 DEF PassInv, n
    <3> QED
      BY <3>1, <3>2
  <2>5. ASSUME NEW rows \in SUBSET Findings, PreAudit(rows) PROVE PassInv'
    <3>1. /\ pc = "loop" /\ auditPhase = "not_run" /\ auditPhase' = "pre"
          /\ iteration' = iteration + 1 /\ UNCHANGED attempts
      BY <2>5
      DEF PreAudit, NothingPending, InLoop, PreAuditDue, NextPassUnless, NextPass,
          LeaveLoop, unitVars
    <3>2. n' = n
      BY <3>1 DEF SpentAttempts
    <3> HIDE DEF n
    <3>3. iteration <= n
      BY <2>1, <3>1 DEF PassInv, n
    <3>4. iteration' <= n' + (IF auditPhase' = "not_run" THEN 0 ELSE 1)
      BY <2>1, <3>1, <3>2, <3>3
    <3> QED
      BY <3>4 DEF PassInv, n
  <2>6. ASSUME NEW rows \in SUBSET Findings, PostAudit(rows) PROVE PassInv'
    <3>1. /\ pc = "loop" /\ auditPhase = "pre" /\ pc' = "finish"
          /\ iteration' = iteration + 1 /\ UNCHANGED attempts
      BY <2>6
      DEF PostAudit, NothingPending, InLoop, PostAuditDue, LeaveLoop, unitVars
    <3>2. n' = n
      BY <3>1 DEF SpentAttempts
    <3> HIDE DEF n
    <3>3. iteration <= n + 1
      BY <2>1, <3>1 DEF PassInv, n
    <3>4. iteration' <= n' + 2
      BY <2>1, <3>1, <3>2, <3>3
    <3> QED
      BY <3>1, <3>4 DEF PassInv, n
  <2>7. CASE AuditFails
    BY <2>7, <2>2 DEF AuditFails, auditVars, unitVars
  <2>8. CASE OutOfBudget \/ Stop
    BY <2>8, <2>3 DEF OutOfBudget, Stop, LeaveLoop, NothingPending, InLoop, auditVars, unitVars
  <2>9. CASE Exhausted \/ WriteReview
    BY <2>9, <2>2 DEF Exhausted, WriteReview, auditVars, unitVars
  <2>10. CASE UNCHANGED vars
    BY <2>10, <2>2 DEF vars, auditVars, unitVars
  <2> QED
    BY <2>4, <2>5, <2>6, <2>7, <2>8, <2>9, <2>10 DEF Next, Pass, Audit
<1>3. TypeOK /\ PassInv => BudgetsBoundTheLoop
  <2> SUFFICES ASSUME TypeOK, PassInv PROVE BudgetsBoundTheLoop
    OBVIOUS
  <2>1. Cardinality(SpentAttempts) \in Nat /\ iteration \in Nat
    BY SpentIsNumber, LimitAssumption DEF TypeOK
  <2> QED
    BY <2>1 DEF PassInv, BudgetsBoundTheLoop
<1> QED
  BY <1>1, <1>2, <1>3, TypeCorrect, PTL DEF Spec

-----------------------------------------------------------------------------
(* However many rows share a unit, their failures and their staged          *)
(* candidates stay within max_attempts together.                            *)
THEOREM SharedBudget == Spec => []SharedRetryBudget
<1>1. Init => AttemptInv
  <2> SUFFICES ASSUME Init, NEW u \in Units
               PROVE  Len(history[u]) + Cardinality(StagedFor(u)) <= attempts[u]
    BY DEF AttemptInv
  <2>1. StagedFor(u) = {} /\ history[u] = <<>> /\ attempts[u] = 0
    BY DEF Init, StagedFor
  <2> QED
    BY <2>1, FS_EmptySet
<1>2. TypeOK /\ TypeOK' /\ AttemptInv /\ [Next]_vars => AttemptInv'
  <2> SUFFICES ASSUME TypeOK, TypeOK', AttemptInv, [Next]_vars, NEW u \in Units
               PROVE  Len(history'[u]) + Cardinality(StagedFor(u)') <= attempts'[u]
    BY DEF AttemptInv
  <2>1. /\ Len(history[u]) + Cardinality(StagedFor(u)) <= attempts[u]
        /\ Len(history[u]) \in Nat /\ attempts[u] \in Nat /\ attempts'[u] \in Nat
    BY DEF AttemptInv, TypeOK
  <2>2. IsFiniteSet(StagedFor(u)) /\ Cardinality(StagedFor(u)) \in Nat
    <3>1. StagedFor(u) \in SUBSET Rows
      BY DEF StagedFor, TypeOK
    <3> QED
      BY <3>1, RowAssumption, FS_Subset, FS_CardinalityType
  <2>3. ASSUME history'[u] = history[u], UNCHANGED staged, attempts[u] <= attempts'[u]
        PROVE  Len(history'[u]) + Cardinality(StagedFor(u)') <= attempts'[u]
    <3>1. StagedFor(u)' = StagedFor(u)
      BY <2>3 DEF StagedFor
    <3> QED
      BY <3>1, <2>1, <2>2, <2>3
  <2>4. ASSUME UNCHANGED <<attempts, history, staged>>
        PROVE  Len(history'[u]) + Cardinality(StagedFor(u)') <= attempts'[u]
    BY <2>4, <2>1, <2>3
  <2>5. ASSUME NEW r \in Rows, Generating(r), Park(UnitOf[r]), UNCHANGED staged
        PROVE  Len(history'[u]) + Cardinality(StagedFor(u)') <= attempts'[u]
    BY <2>5, <2>3, AttemptUsed DEF Park
  <2>6. ASSUME NEW r \in Rows, NEW f \in Fingerprints,
               Generating(r), Failed(UnitOf[r], f), UNCHANGED staged
        PROVE  Len(history'[u]) + Cardinality(StagedFor(u)') <= attempts'[u]
    <3>1. /\ attempts[UnitOf[r]] < attempts'[UnitOf[r]]
          /\ \A v \in Units : attempts[v] <= attempts'[v]
      BY <2>6, AttemptUsed
    <3>2. history' = [history EXCEPT ![UnitOf[r]] = Append(@, f)]
      BY <2>6 DEF Failed
    <3>3. CASE u # UnitOf[r]
      <4>1. history'[u] = history[u]
        BY <3>2, <3>3 DEF TypeOK
      <4> QED
        BY <4>1, <3>1, <2>6, <2>3
    <3>4. CASE u = UnitOf[r]
      <4>1. Len(history'[u]) = Len(history[u]) + 1
        BY <3>2, <3>4 DEF TypeOK
      <4>2. StagedFor(u)' = StagedFor(u)
        BY <2>6 DEF StagedFor
      <4> QED
        BY <4>1, <4>2, <3>1, <3>4, <2>1, <2>2
    <3> QED
      BY <3>3, <3>4
  <2>7. ASSUME NEW r \in Rows, NEW rescan \in [Gaps -> RowStatus], Stage(r, rescan)
        PROVE  Len(history'[u]) + Cardinality(StagedFor(u)') <= attempts'[u]
    <3>1. /\ attempts[UnitOf[r]] < attempts'[UnitOf[r]]
          /\ \A v \in Units : attempts[v] <= attempts'[v]
      BY <2>7, AttemptUsed DEF Stage
    <3>2. history' = history /\ staged' = staged \cup {r}
      BY <2>7 DEF Stage
    <3>3. CASE u # UnitOf[r]
      <4>1. StagedFor(u)' = StagedFor(u)
        BY <3>2, <3>3 DEF StagedFor
      <4> QED
        BY <4>1, <3>1, <3>2, <2>1, <2>2
    <3>4. CASE u = UnitOf[r]
      <4>1. StagedFor(u)' = StagedFor(u) \cup {r}
        BY <3>2, <3>4 DEF StagedFor
      <4>2. /\ Cardinality(StagedFor(u)') \in Nat
            /\ Cardinality(StagedFor(u)') <= Cardinality(StagedFor(u)) + 1
        BY <4>1, <2>2, FS_AddElement
      <4> QED
        BY <4>2, <3>1, <3>2, <3>4, <2>1, <2>2
    <3> QED
      BY <3>3, <3>4
  <2>8. ASSUME NEW r \in Rows, Generate(r)
        PROVE  Len(history'[u]) + Cardinality(StagedFor(u)') <= attempts'[u]
    BY <2>8, <2>4, <2>5, <2>6, <2>7
    DEF Generate, Decline, Unrepresentable, RejectedByGuardrail, FailsVerification,
        GeneratorUnavailable, unitVars, stageVars
  <2>9. CASE Audit
    BY <2>9, <2>4 DEF Audit, PreAudit, PostAudit, AuditFails, unitVars, stageVars
  <2>10. CASE OutOfBudget \/ Stop \/ Exhausted \/ WriteReview
    BY <2>10, <2>4 DEF OutOfBudget, Stop, Exhausted, WriteReview, unitVars, stageVars
  <2>11. CASE UNCHANGED vars
    BY <2>11, <2>4 DEF vars, unitVars, stageVars
  <2> QED
    BY <2>8, <2>9, <2>10, <2>11 DEF Next, Pass
<1>3. TypeOK /\ AttemptInv => SharedRetryBudget
  <2> SUFFICES ASSUME TypeOK, AttemptInv, NEW u \in Units
               PROVE  Len(history[u]) + Cardinality(StagedFor(u)) <= MaxAttempts
    BY DEF SharedRetryBudget, StagedFor
  <2>1. /\ Len(history[u]) + Cardinality(StagedFor(u)) <= attempts[u]
        /\ Len(history[u]) \in Nat /\ attempts[u] \in 0 .. MaxAttempts
    BY DEF AttemptInv, TypeOK
  <2>2. Cardinality(StagedFor(u)) \in Nat
    <3>1. StagedFor(u) \in SUBSET Rows
      BY DEF StagedFor, TypeOK
    <3> QED
      BY <3>1, RowAssumption, FS_Subset, FS_CardinalityType
  <2> QED
    BY <2>1, <2>2, BudgetAssumption
<1> QED
  BY <1>1, <1>2, <1>3, TypeCorrect, PTL DEF Spec

(* The retry budgets, the limit on calls and the end of the loop together.  *)
THEOREM BudgetsAreKept == Spec => []BudgetsKept
<1>1. SharedRetryBudget /\ CallBudgetKept /\ BudgetsBoundTheLoop => BudgetsKept
  BY DEF BudgetsKept
<1> QED
  BY <1>1, SharedBudget, CallBudget, BudgetsBound, PTL
=============================================================================

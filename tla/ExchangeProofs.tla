--------------------------- MODULE ExchangeProofs ---------------------------
(***************************************************************************)
(* What holds of validation by exported and imported files for every       *)
(* number of domains and gaps, whatever is exported, answered, imported or *)
(* killed, and in which order.                                             *)
(***************************************************************************)
EXTENDS Exchange, FiniteSetTheorems, WellFoundedInduction, TLAPS

\* What a process has in memory, and when it can have it.
MemoryInv ==
  /\ staged # {} => calls >= 1 /\ route # "export"
  /\ phase # "not_run" => calls >= 1 /\ route # "export"
  /\ semantic => route # "import" /\ phase # "not_run"
  /\ findings # {} => phase # "not_run"

\* The scratch copy differs from the provider in the gaps of the domain, in
\* shared scripts, and in what the ISV has edited meanwhile.  The scan sees when
\* a candidate opens a static gap of the domain.  Unless something is staged or
\* still open, a call is an audit; unless a finding was staged since, the latest
\* audit is about the content as it is.
LoopInv ==
  pc = "loop" =>
    /\ provider \ scratch \subseteq Of(dom) \cup Shared \cup during
    /\ scratch \ provider \subseteq Of(dom) \cup Shared \cup during
    /\ findings \subseteq SemanticOf[dom]
    /\ staged \cap StaticOf[dom] \subseteq scratch
    /\ phase = "not_run" /\ calls >= 1 => staged # {} \/ Open # {}
    /\ phase # "not_run" => Open \subseteq Manual
    /\ phase = "post" \/ (phase = "pre" /\ ~semantic) =>
         audits[dom] = [shows |-> scratch \cap Of(dom), found |-> findings]

\* A stored review changes the gaps of its domain, shared scripts, and what the
\* ISV edited while it was generated.
InScope(review, d) ==
  /\ review.before \ review.after \subseteq Of(d) \cup Shared \cup review.edits
  /\ review.after \ review.before \subseteq Of(d) \cup Shared \cup review.edits

StoredInv ==
  /\ \A d \in Domains : stored[d] # None => InScope(stored[d], d)
  /\ pc = "review" => stored[dom] # None /\ scratch = stored[dom].after

\* An audit in the response file reports findings of the domain it is about; a
\* candidate opens what the scan of its domain does not see.
ResponseInv ==
  response # None =>
    /\ response.to.about = Lifecycle => response.reported \subseteq SemanticOf[response.to.domain]
    /\ response.to.about # Lifecycle =>
         response.opens \subseteq Exposed(response.to.domain, response.to.about)

\* The process has left the domain without an open gap and, if it is audited and
\* no candidate was staged, after an audit that found nothing.  What is different
\* since, the ISV has edited, or it is in a shared script.
Done(d) ==
  /\ left[d] # None /\ StaticOf[d] \subseteq left[d].closed
  /\ d \in Audited => left[d].staged \/ audits[d] = [shows |-> left[d].closed, found |-> {}]
  /\ \A g \in Of(d) : (g \in provider) # (g \in left[d].closed) =>
       g \in edited \/ (g \in Shared /\ d < D)

\* The domains that the process has passed are done.
PassedInv ==
  /\ pc \in {"loop", "review"} => \A d \in Domains : d < dom => Done(d)
  /\ pc = "live" => \A d \in Domains : Done(d)

IInv ==
  TypeOK /\ MemoryInv /\ LoopInv /\ StoredInv /\ ResponseInv /\ PassedInv /\ FindingsStayHome

-----------------------------------------------------------------------------
(* The constants.                                                          *)

LEMMA DomainGaps ==
  /\ 1 \in Domains
  /\ Gaps \subseteq Nat \ {0}
  /\ \A d \in Domains : StaticOf[d] \subseteq Gaps /\ SemanticOf[d] \subseteq Gaps
                        /\ Of(d) \subseteq Gaps
  /\ Hidden \subseteq Gaps /\ Semantic \subseteq Gaps
  BY ExchangeAssumption DEF Domains, Gaps, Of, Hidden, Semantic

(* What a scan finds is not what an audit finds, in no domain.             *)
LEMMA StaticIsNotSemantic ==
  ASSUME NEW d \in Domains
  PROVE  StaticOf[d] \cap Semantic = {}
<1> SUFFICES ASSUME NEW e \in Domains PROVE StaticOf[d] \cap SemanticOf[e] = {}
  BY DEF Semantic
<1>1. CASE d = e
  BY <1>1, ExchangeAssumption
<1>2. CASE d # e
  BY <1>2, ExchangeAssumption DEF Of
<1> QED
  BY <1>1, <1>2

LEMMA NoneIsNothing == {None, Cut} \cap (Requests \cup Reviews \cup Views) = {}
  BY ExchangeAssumption

-----------------------------------------------------------------------------
(* What is asked for.                                                      *)

(* A set of numbers that is not empty has a least element.                 *)
LEMMA LeastElement ==
  ASSUME NEW T, T \subseteq Nat, T # {}
  PROVE  \E g \in T : \A h \in T : g <= h
<1>1. PICK g \in T : \A h \in T : <<h, g>> \notin OpToRel(<, Nat)
  BY WFMin, NatLessThanWellFounded, Zenon
<1>2. \A h \in T : ~(h < g)
  BY <1>1, Zenon DEF OpToRel
<1> QED
  BY <1>2

LEMMA FixableGaps == TypeOK => Fixable \subseteq Gaps /\ Pending \subseteq Gaps
  BY DomainGaps DEF TypeOK, Fixable, Pending, Open

LEMMA SelectedIsPending ==
  ASSUME TypeOK, Pending # {}
  PROVE  Selected \in Pending
  BY FixableGaps, DomainGaps, LeastElement DEF Selected

(* A request is about a gap that has attempts left, or about an audit that *)
(* is due, and shows the domain as it is.                                  *)
LEMMA WantedIs ==
  ASSUME TypeOK, Wanted # None
  PROVE  /\ ~Spent /\ phase # "post"
         /\ Wanted \in Requests
         /\ Wanted.domain = dom /\ Wanted.shows = scratch \cap Of(dom)
         /\ \/ Wanted.about = Lifecycle /\ AuditDue
            \/ Wanted.about \in Pending /\ Wanted.about # Lifecycle
<1>1. ~Spent /\ phase # "post"
  BY DEF Wanted
<1>2. scratch \cap Of(dom) \in SUBSET Gaps
  BY DEF TypeOK
<1>3. CASE Pending # {}
  <2>1. Wanted = Ask(Selected, tries[Selected])
    BY <1>1, <1>3 DEF Wanted
  <2>2. Selected \in Pending /\ Selected \in Gaps /\ Selected # Lifecycle
    BY <1>3, SelectedIsPending, FixableGaps, DomainGaps DEF Lifecycle
  <2>3. tries[Selected] \in 0 .. MaxAttempts
    BY <2>2 DEF TypeOK
  <2> QED
    BY <1>1, <1>2, <2>1, <2>2, <2>3 DEF Ask, Requests, TypeOK
<1>4. CASE Pending = {}
  <2>1. AuditDue /\ Wanted = Ask(Lifecycle, 0)
    BY <1>1, <1>4 DEF Wanted
  <2> QED
    BY <1>1, <1>2, <2>1, ExchangeAssumption DEF Ask, Requests, TypeOK
<1> QED
  BY <1>3, <1>4

-----------------------------------------------------------------------------
(* The kinds of steps.                                                     *)

Ends ==
  /\ mishaps' \in 0 .. MaxMishaps
  /\ EndProcess /\ UNCHANGED <<provider, response>>
  /\ stored' = stored \/ stored' = [stored EXCEPT ![dom] = None]
  /\ \/ UNCHANGED request
     \/ request' = Cut /\ pc = "loop" /\ Exporting /\ Wanted # None
     \/ request' = Wanted /\ pc = "loop" /\ Exporting /\ Wanted # None

Changes ==
  /\ pc = "loop" /\ route # "export" /\ Wanted # None /\ Wanted.about # Lifecycle
  /\ \E outcome \in Outcomes, opens \in SUBSET Exposed(dom, Wanted.about) :
       Take(Wanted.about, outcome, opens)
  /\ UNCHANGED <<provider, files>>
  /\ consumed' \in BOOLEAN /\ mishaps' \in 0 .. MaxMishaps

Audits ==
  /\ pc = "loop" /\ route # "export" /\ Wanted # None /\ Wanted.about = Lifecycle
  /\ \E reported \in SUBSET SemanticOf[dom] : TakeAudit(reported)
  /\ UNCHANGED <<provider, files, mishaps>>
  /\ consumed' \in BOOLEAN

Asks ==
  /\ UNCHANGED <<provider, stored, request, pc, process>>
  /\ mishaps' \in 0 .. MaxMishaps
  /\ \/ UNCHANGED response
     \/ \E outcome \in Outcomes, reported \in SUBSET Semantic, opens \in SUBSET Hidden :
          Answer(outcome, reported, opens)

Edits == mishaps' \in 0 .. MaxMishaps /\ \E g \in Gaps : Change(g)

LEMMA StepKinds ==
  ASSUME TypeOK, ResponseInv, [Next]_vars
  PROVE  \/ \E way \in {"adapter", "export", "import"} : Start(way)
         \/ Ends \/ Changes \/ Audits \/ Unrepresentable
         \/ Review \/ NextDomain \/ Approve
         \/ Asks \/ Edits
<1>0. MaxMishaps \in Nat /\ mishaps \in 0 .. MaxMishaps
  BY ExchangeAssumption DEF TypeOK
<1>1. ASSUME NEW outcome \in Outcomes, NEW opens \in SUBSET Hidden,
             AdapterChanges(outcome, opens)
      PROVE  Changes
  <2>1. mishaps' \in 0 .. MaxMishaps /\ opens \in SUBSET Exposed(dom, Wanted.about)
    BY <1>0, <1>1 DEF AdapterChanges, Opens
  <2>2. consumed' \in BOOLEAN
    BY <1>1 DEF AdapterChanges, TypeOK
  <2> QED
    BY <1>1, <2>1, <2>2 DEF AdapterChanges, Changes
<1>2. ASSUME NEW reported \in SUBSET Semantic, AdapterAudits(reported) PROVE Audits
  BY <1>2 DEF AdapterAudits, Audits, TypeOK
<1>3. CASE Import
  <2>1. response \in Responses
    BY <1>3 DEF Import, TypeOK
  <2>2. CASE Wanted.about # Lifecycle
    <3>1. "rejected" \in Outcomes /\ response.outcome \in Outcomes
      BY <2>1 DEF Outcomes, Responses
    <3>2. /\ pc = "loop" /\ route # "export" /\ Wanted # None /\ consumed' \in BOOLEAN
          /\ UNCHANGED <<provider, files>> /\ mishaps' \in 0 .. MaxMishaps
      BY <1>0, <1>3 DEF Import, Importable
    <3>3. CASE Fits(response)
      <4>1. response.opens \in SUBSET Exposed(dom, Wanted.about)
        BY <1>3, <2>2, <3>2, <3>3, WantedIs DEF Import, Fits, ResponseInv
      <4> QED
        BY <1>3, <2>2, <3>1, <3>2, <3>3, <4>1 DEF Import, Changes
    <3>4. CASE ~Fits(response)
      <4>1. Take(Wanted.about, "rejected", {}) /\ {} \in SUBSET Exposed(dom, Wanted.about)
        BY <1>3, <2>2, <3>4 DEF Import
      <4> QED
        BY <2>2, <3>1, <3>2, <4>1 DEF Changes
    <3> QED
      BY <3>3, <3>4
  <2>3. CASE Wanted.about = Lifecycle
    <3>1. response.to = Wanted /\ TakeAudit(response.reported)
      BY <1>3, <2>3 DEF Import, HoldsAudit, Fits
    <3>2. response.reported \subseteq SemanticOf[dom]
      BY <1>3, <2>3, <3>1, WantedIs DEF Import, Importable, ResponseInv
    <3> QED
      BY <1>3, <2>3, <3>1, <3>2 DEF Import, Importable, Audits
  <2> QED
    BY <2>2, <2>3
<1>4. CASE AdapterFails \/ Export \/ ImportFails \/ Parked \/ ApproveRefused \/ Decline \/ AskLive
  BY <1>0, <1>4 DEF AdapterFails, Export, ImportFails, Parked, ApproveRefused, Decline, AskLive,
              Ends, files
<1>5. CASE Kill
  BY <1>0, <1>5 DEF Kill, Ends
<1>6. ASSUME NEW outcome \in Outcomes, NEW reported \in SUBSET Semantic,
             NEW opens \in SUBSET Hidden, Answer(outcome, reported, opens)
      PROVE  Asks
  <2>1. mishaps' \in 0 .. MaxMishaps
    BY <1>0, <1>6 DEF Answer, Opens
  <2> QED
    BY <1>6, <2>1 DEF Answer, Asks
<1>7. CASE UNCHANGED vars
  BY <1>0, <1>7 DEF vars, files, Asks
<1>8. ASSUME NEW g \in Gaps, CloseByHand(g) \/ Edit(g) PROVE Edits
  BY <1>0, <1>8 DEF CloseByHand, Edit, Edits
<1> QED
  BY <1>1, <1>2, <1>3, <1>4, <1>5, <1>6, <1>7, <1>8 DEF Next, Proceed, Adapt


-----------------------------------------------------------------------------
(* Types.                                                                  *)

(* A loop begins with whatever is closed in the copy, and with nothing else *)
(* in memory.                                                              *)
LEMMA BeginTyped ==
  ASSUME NEW content \in SUBSET Gaps, BeginLoop(content)
  PROVE  /\ scratch' = content /\ staged' = {} /\ tries' \in [Gaps -> 0 .. MaxAttempts]
         /\ calls' = 0 /\ calls' \in Nat /\ phase' = "not_run" /\ findings' = {}
         /\ semantic' = FALSE /\ during' = {}
  BY ExchangeAssumption DEF BeginLoop, NoTries

LEMMA EndTyped ==
  ASSUME EndProcess
  PROVE  /\ pc' = "idle" /\ route' = "adapter" /\ dom' = 1 /\ consumed' = FALSE
         /\ scratch' = {} /\ staged' = {} /\ tries' \in [Gaps -> 0 .. MaxAttempts]
         /\ calls' = 0 /\ calls' \in Nat /\ phase' = "not_run" /\ findings' = {}
         /\ semantic' = FALSE /\ during' = {}
         /\ audits' = [d \in Domains |-> None] /\ left' = [d \in Domains |-> None]
         /\ edited' = {}
  BY BeginTyped DEF EndProcess

LEMMA EnterTyped ==
  ASSUME TypeOK, NEW d \in Domains, Enter(d)
  PROVE  /\ pc' \in {"loop", "review"} /\ dom' = d
         /\ scratch' \in SUBSET Gaps /\ staged' = {} /\ tries' \in [Gaps -> 0 .. MaxAttempts]
         /\ calls' = 0 /\ calls' \in Nat /\ phase' = "not_run" /\ findings' = {}
         /\ semantic' = FALSE /\ during' = {}
         /\ pc' = "loop" => scratch' = provider
         /\ pc' = "review" => stored[d] # None /\ scratch' = stored[d].after
<1>1. CASE stored[d] = None
  <2>1. BeginLoop(provider) /\ pc' = "loop" /\ dom' = d
    BY <1>1 DEF Enter
  <2>2. provider \in SUBSET Gaps
    BY DEF TypeOK
  <2> QED
    BY <2>1, <2>2, BeginTyped
<1>2. CASE stored[d] # None
  <2>1. stored[d] \in Reviews
    BY <1>2 DEF TypeOK
  <2>2. stored[d].after \in SUBSET Gaps
    BY <2>1 DEF Reviews
  <2> QED
    BY <1>2, <2>2, BeginTyped DEF Enter
<1> QED
  BY <1>1, <1>2

\* What an answer about gap g changes: it is staged, or it is counted at most.
Staged(g) ==
  /\ g \in scratch' /\ scratch' \subseteq scratch \cup {g}
  /\ scratch \ scratch' \subseteq Exposed(dom, g)
  /\ staged' = staged \cup {g} /\ calls' = calls + 1
  /\ findings' = findings \ {g} /\ semantic' = (semantic \/ g \in findings)

Counted == UNCHANGED <<scratch, staged, findings, semantic>> /\ calls' \in {calls, calls + 1}

LEMMA TakeTyped ==
  ASSUME TypeOK, Changes
  PROVE  /\ pc = "loop" /\ pc' = "loop" /\ UNCHANGED <<route, dom, phase, during, seen>>
         /\ ~Spent /\ Wanted.about \in Pending
         /\ Staged(Wanted.about) \/ Counted
         /\ tries' \in [Gaps -> 0 .. MaxAttempts]
         /\ calls' \in Nat /\ semantic' \in BOOLEAN
<1>1. Wanted.about \in Pending /\ ~Spent
  BY WantedIs DEF Changes
<1>2. PICK outcome \in Outcomes, opens \in SUBSET Exposed(dom, Wanted.about) :
        Take(Wanted.about, outcome, opens)
  BY DEF Changes
<1>3. Wanted.about \in Gaps /\ tries[Wanted.about] \in 0 .. MaxAttempts
      /\ tries[Wanted.about] < MaxAttempts
  BY <1>1, FixableGaps DEF Pending, TypeOK
<1>4. MaxAttempts \in Nat
  BY ExchangeAssumption
<1>5. tries' \in [Gaps -> 0 .. MaxAttempts]
  BY <1>2, <1>3, <1>4 DEF Take, Attempt, TypeOK
<1>6. Staged(Wanted.about) \/ Counted
  BY <1>2 DEF Take, Staged, Counted, Exposed
<1>7. pc = "loop" /\ pc' = "loop" /\ UNCHANGED <<route, dom, phase, during, seen>>
  BY <1>2 DEF Take, Changes
<1>8. calls' \in Nat
  BY <1>2 DEF Take, TypeOK
<1>9. semantic' \in BOOLEAN
  BY <1>2 DEF Take, TypeOK
<1> QED
  BY <1>1, <1>5, <1>6, <1>7, <1>8, <1>9

LEMMA LeftGaps == Left \subseteq Gaps
  BY DomainGaps DEF Left

LEMMA TypeStep ==
  ASSUME TypeOK, ResponseInv, [Next]_vars
  PROVE  TypeOK'
<1> DEFINE Outside ==
      /\ provider \subseteq Gaps
      /\ request \in Requests \cup {None, Cut}
      /\ response \in Responses \cup {None}
      /\ stored \in [Domains -> Reviews \cup {None}]
      /\ audits \in [Domains -> [shows : SUBSET Gaps, found : SUBSET Gaps] \cup {None}]
      /\ left \in [Domains -> Views \cup {None}]
      /\ edited \subseteq Gaps /\ mishaps \in 0 .. MaxMishaps
<1> DEFINE Inside ==
      /\ pc \in {"idle", "loop", "review", "live"}
      /\ route \in {"adapter", "export", "import"}
      /\ dom \in Domains /\ consumed \in BOOLEAN
      /\ scratch \subseteq Gaps /\ staged \subseteq Gaps
      /\ tries \in [Gaps -> 0 .. MaxAttempts] /\ calls \in Nat
      /\ phase \in {"not_run", "pre", "post"}
      /\ findings \subseteq Gaps /\ semantic \in BOOLEAN /\ during \subseteq Gaps
<1> SUFFICES Outside' /\ Inside'
  BY DEF TypeOK
<1>0. Outside /\ Inside
  BY DEF TypeOK
<1>1. ASSUME NEW way \in {"adapter", "export", "import"}, Start(way) PROVE Outside' /\ Inside'
  <2>1. 1 \in Domains /\ Enter(1) /\ route' = way
        /\ UNCHANGED <<provider, request, response, stored, consumed, seen, mishaps>>
    BY <1>1, DomainGaps DEF Start, files
  <2>2. Outside'
    BY <1>0, <2>1 DEF seen
  <2> QED
    BY <1>0, <2>1, <2>2, EnterTyped
<1>2. CASE Ends
  <2>1. stored' \in [Domains -> Reviews \cup {None}]
    BY <1>0, <1>2 DEF Ends
  <2>2. request' \in Requests \cup {None, Cut}
    BY <1>0, <1>2, WantedIs DEF Ends
  <2>3. /\ audits' \in [Domains -> [shows : SUBSET Gaps, found : SUBSET Gaps] \cup {None}]
        /\ left' \in [Domains -> Views \cup {None}]
        /\ edited' = {}
    BY <1>2, EndTyped DEF Ends
  <2> QED
    BY <1>0, <1>2, <2>1, <2>2, <2>3, EndTyped, DomainGaps DEF Ends
<1>3. CASE Changes
  <2>1. Outside'
    BY <1>0, <1>3, TakeTyped DEF Changes, files, seen
  <2>2. consumed' \in BOOLEAN
    BY <1>3 DEF Changes
  <2>3. Wanted.about \in Gaps
    BY <1>3, TakeTyped, FixableGaps
  <2>4. scratch' \subseteq Gaps /\ staged' \subseteq Gaps /\ findings' \subseteq Gaps
    BY <1>0, <1>3, <2>3, TakeTyped DEF Staged, Counted
  <2> QED
    BY <1>0, <1>3, <2>1, <2>2, <2>4, TakeTyped
<1>4. CASE Audits
  <2>1. PICK reported \in SUBSET SemanticOf[dom] : TakeAudit(reported)
    BY <1>4 DEF Audits
  <2>2. reported \in SUBSET Gaps /\ scratch \cap Of(dom) \in SUBSET Gaps
    BY <1>0, <2>1, DomainGaps
  <2>3. audits' \in [Domains -> [shows : SUBSET Gaps, found : SUBSET Gaps] \cup {None}]
    BY <1>0, <2>1, <2>2 DEF TakeAudit
  <2>4. Outside'
    BY <1>0, <1>4, <2>1, <2>3 DEF Audits, files, TakeAudit
  <2>5. consumed' \in BOOLEAN
    BY <1>4 DEF Audits
  <2>6. calls' \in Nat /\ phase' \in {"not_run", "pre", "post"}
    BY <1>0, <2>1 DEF TakeAudit
  <2>7. pc' = "loop" /\ findings' = reported
        /\ UNCHANGED <<route, dom, scratch, staged, tries, semantic, during>>
    BY <2>1 DEF TakeAudit
  <2> QED
    BY <1>0, <2>2, <2>4, <2>5, <2>6, <2>7
<1>5. CASE Unrepresentable
  <2>1. MaxAttempts \in 0 .. MaxAttempts
    BY ExchangeAssumption
  <2>2. tries' = [tries EXCEPT ![Wanted.about] = MaxAttempts]
    BY <1>5 DEF Unrepresentable
  <2>3. tries' \in [Gaps -> 0 .. MaxAttempts]
    BY <1>0, <2>1, <2>2
  <2> QED
    BY <1>0, <1>5, <2>3 DEF Unrepresentable, files, seen
<1>6. CASE Review
  <2>1. [before |-> provider, after |-> scratch, edits |-> during] \in Reviews
    BY <1>0 DEF Reviews
  <2> QED
    BY <1>0, <1>6, <2>1 DEF Review, process, loop, seen
<1>7. CASE NextDomain
  <2>1. [closed |-> provider \cap Of(dom), staged |-> staged # {}]
          \in Views
    BY <1>0 DEF Views
  <2>2. /\ left' \in [Domains -> Views \cup {None}]
        /\ UNCHANGED <<provider, request, response, stored, route, consumed, audits, edited,
                       mishaps>>
    BY <1>0, <1>7, <2>1 DEF NextDomain, files
  <2>3. CASE dom = D
    BY <1>0, <1>7, <2>2, <2>3 DEF NextDomain, loop
  <2>4. CASE dom # D
    <3>1. dom + 1 \in Domains /\ Enter(dom + 1)
      BY <1>0, <1>7, <2>4, ExchangeAssumption DEF NextDomain, Domains
    <3> QED
      BY <1>0, <2>2, <3>1, EnterTyped
  <2> QED
    BY <2>3, <2>4
<1>8. CASE Approve
  <2>1. BeginLoop(scratch) /\ pc' = "loop" /\ provider' = scratch
        /\ stored' = [stored EXCEPT ![dom] = None]
        /\ UNCHANGED <<request, response, route, dom, consumed, audits, left, mishaps>>
    BY <1>8 DEF Approve
  <2>2. edited' \subseteq Gaps
    BY <1>0, <1>8, LeftGaps DEF Approve
  <2>3. Outside'
    BY <1>0, <2>1, <2>2
  <2> QED
    BY <1>0, <2>1, <2>3, BeginTyped
<1>9. CASE Asks
  <2>1. Inside'
    BY <1>0, <1>9 DEF Asks, process, loop
  <2>2. response' \in Responses \cup {None}
    BY <1>0, <1>9, DomainGaps DEF Asks, Answer, Responses
  <2> QED
    BY <1>0, <1>9, <2>1, <2>2 DEF Asks, process, seen
<1>10. CASE Edits
  <2>1. PICK g \in Gaps : Change(g)
    BY <1>10 DEF Edits
  <2>2. provider' \subseteq Gaps /\ during' \subseteq Gaps /\ edited' \subseteq Gaps
    BY <1>0, <2>1 DEF Change
  <2> QED
    BY <1>0, <1>10, <2>1, <2>2 DEF Edits, Change, files
<1> QED
  BY <1>1, <1>2, <1>3, <1>4, <1>5, <1>6, <1>7, <1>8, <1>9, <1>10, StepKinds

LEMMA ResponseStep ==
  ASSUME TypeOK, ResponseInv, [Next]_vars
  PROVE  ResponseInv'
<1>1. CASE UNCHANGED response
  BY <1>1 DEF ResponseInv
<1>2. ASSUME NEW outcome \in Outcomes, NEW reported \in SUBSET Semantic,
             NEW opens \in SUBSET Hidden, Answer(outcome, reported, opens)
      PROVE  ResponseInv'
  BY <1>2 DEF Answer, Opens, ResponseInv, Exposed
<1> QED
  BY <1>1, <1>2, StepKinds
  DEF Start, Ends, Changes, Audits, Unrepresentable, Review, NextDomain, Approve, Asks, Edits,
      Change, files

-----------------------------------------------------------------------------
(* The memory of a process.                                                *)

LEMMA MemoryStep ==
  ASSUME TypeOK, MemoryInv, ResponseInv, [Next]_vars
  PROVE  MemoryInv'
<1> DEFINE Empty == staged' = {} /\ phase' = "not_run" /\ semantic' = FALSE /\ findings' = {}
<1>1. Empty => MemoryInv'
  BY DEF MemoryInv
<1>2. ASSUME NEW way \in {"adapter", "export", "import"}, Start(way) PROVE MemoryInv'
  BY <1>1, <1>2, EnterTyped, DomainGaps DEF Start
<1>3. CASE Ends
  BY <1>1, <1>3, EndTyped DEF Ends
<1>4. CASE Changes
  <2>1. route' = route /\ phase' = phase /\ ~Spent /\ route # "export"
        /\ (Staged(Wanted.about) \/ Counted)
    BY <1>4, TakeTyped DEF Changes
  <2>2. calls \in Nat
    BY DEF TypeOK
  <2>3. route = "import" => calls = 0 /\ phase = "not_run" /\ findings = {}
    BY <2>1, <2>2 DEF Spent, MemoryInv
  <2>4. CASE Counted
    BY <2>1, <2>2, <2>4 DEF MemoryInv, Counted
  <2>5. CASE Staged(Wanted.about)
    <3>1. calls' >= 1 /\ (findings' # {} => findings # {})
      BY <2>2, <2>5 DEF Staged
    <3>2. semantic' => semantic \/ findings # {}
      BY <2>5 DEF Staged
    <3> QED
      BY <2>1, <2>3, <3>1, <3>2 DEF MemoryInv
  <2> QED
    BY <2>1, <2>4, <2>5
<1>5. CASE Audits
  BY <1>5, WantedIs DEF Audits, TakeAudit, MemoryInv, Spent, TypeOK
<1>6. CASE Unrepresentable \/ Review \/ Asks \/ Edits
  BY <1>6 DEF Unrepresentable, Review, Asks, Edits, Change, process, loop, MemoryInv
<1>7. CASE NextDomain
  <2>1. CASE dom = D
    BY <1>7, <2>1 DEF NextDomain, loop, MemoryInv
  <2>2. CASE dom # D
    <3>1. dom + 1 \in Domains /\ Enter(dom + 1)
      BY <1>7, <2>2, ExchangeAssumption DEF NextDomain, Domains, TypeOK
    <3> QED
      BY <1>1, <3>1, EnterTyped
  <2> QED
    BY <2>1, <2>2
<1>8. CASE Approve
  BY <1>1, <1>8, BeginTyped DEF Approve, TypeOK
<1> QED
  BY <1>2, <1>3, <1>4, <1>5, <1>6, <1>7, <1>8, StepKinds

-----------------------------------------------------------------------------
(* The loop of a domain.                                                   *)

(* A loop that has just begun.                                             *)
LEMMA FreshLoop ==
  ASSUME phase' = "not_run", calls' = 0, findings' = {}, staged' = {},
         pc' = "loop" => scratch' = provider'
  PROVE  LoopInv'
<1>1. ~(calls' >= 1)
  OBVIOUS
<1> QED
  BY <1>1 DEF LoopInv

(* Once an audit was made, what is staged is one of its findings.          *)
LEMMA TakenFrom ==
  ASSUME TypeOK, LoopInv, Changes
  PROVE  /\ Wanted.about \in Of(dom)
         /\ Wanted.about \notin findings => Wanted.about \in Open \ Manual
         /\ phase # "not_run" => Wanted.about \in findings
<1>1. Wanted.about \in (Open \ Manual) \cup findings
  BY TakeTyped DEF Pending, Fixable
<1>2. findings \subseteq SemanticOf[dom] /\ (phase # "not_run" => Open \subseteq Manual)
  BY DEF LoopInv, Changes
<1> QED
  BY <1>1, <1>2 DEF Of, Open

LEMMA LoopStep ==
  ASSUME TypeOK, MemoryInv, LoopInv, ResponseInv, [Next]_vars
  PROVE  LoopInv'
<1>1. ASSUME NEW way \in {"adapter", "export", "import"}, Start(way) PROVE LoopInv'
  <2>1. UNCHANGED provider
    BY <1>1 DEF Start
  <2> QED
    BY <1>1, <2>1, EnterTyped, DomainGaps, FreshLoop DEF Start
<1>2. CASE Ends
  BY <1>2, EndTyped DEF Ends, LoopInv
<1>3. CASE Changes
  <2> DEFINE g == Wanted.about
  <2>1. /\ pc = "loop" /\ UNCHANGED <<provider, dom, phase, during, audits>>
        /\ Staged(g) \/ Counted
        /\ calls \in Nat
    BY <1>3, TakeTyped DEF Changes, TypeOK, seen
  <2>2. CASE Staged(g)
    <3>1. Exposed(dom, g) \cap StaticOf[dom] = {}
      BY ExchangeAssumption DEF Exposed, Of, TypeOK
    <3>2. Open' \subseteq Open
      BY <2>1, <2>2, <3>1 DEF Open, Staged
    <3>3. Exposed(dom, g) \subseteq Of(dom) \cup Shared /\ g \in Of(dom)
      BY <1>3, TakenFrom DEF Exposed, Of
    <3>4. /\ provider' \ scratch' \subseteq Of(dom') \cup Shared \cup during'
          /\ scratch' \ provider' \subseteq Of(dom') \cup Shared \cup during'
      BY <2>1, <2>2, <3>3 DEF Staged, LoopInv
    <3>5. staged' \cap StaticOf[dom'] \subseteq scratch' /\ staged' # {}
      BY <2>1, <2>2, <3>1 DEF Staged, LoopInv
    <3>6. phase' # "not_run" => semantic' /\ Open' \subseteq Manual
      BY <1>3, <2>1, <2>2, <3>2, TakenFrom DEF LoopInv, Staged
    <3>7. phase' # "post"
      BY <1>3, <2>1, WantedIs DEF Changes
    <3>8. findings' \subseteq SemanticOf[dom']
      BY <2>1, <2>2 DEF Staged, LoopInv
    <3> QED
      BY <3>4, <3>5, <3>6, <3>7, <3>8 DEF LoopInv
  <2>3. CASE Counted
    <3>1. Open' = Open
      BY <2>1, <2>3 DEF Open, Counted
    <3>2. phase = "not_run" => Open # {}
      BY <1>3, TakenFrom DEF MemoryInv
    <3> QED
      BY <2>1, <2>3, <3>1, <3>2 DEF LoopInv, Counted
  <2> QED
    BY <2>1, <2>2, <2>3
<1>4. CASE Audits
  <2>1. PICK reported \in SUBSET SemanticOf[dom] : TakeAudit(reported)
    BY <1>4 DEF Audits
  <2>2. pc = "loop" /\ AuditDue /\ UNCHANGED <<provider, dom, scratch, staged, during>>
    BY <1>4, <2>1, WantedIs DEF Audits, TakeAudit
  <2>3. Open' \subseteq Manual
    BY <2>2 DEF AuditDue, Fixable, Open
  <2>4. phase' # "not_run" /\ findings' = reported
    BY <2>1 DEF TakeAudit
  <2>5. audits' = [audits EXCEPT ![dom] = [shows |-> scratch \cap Of(dom), found |-> reported]]
    BY <2>1 DEF TakeAudit
  <2>6. audits'[dom'] = [shows |-> scratch' \cap Of(dom'), found |-> findings']
    BY <2>2, <2>4, <2>5 DEF TypeOK
  <2> QED
    BY <2>2, <2>3, <2>4, <2>6 DEF LoopInv
<1>5. CASE Unrepresentable \/ Asks
  BY <1>5 DEF Unrepresentable, Asks, process, loop, seen, LoopInv, Open
<1>6. CASE Review
  BY <1>6 DEF Review, LoopInv
<1>9. CASE Edits
  <2>1. PICK g \in Gaps : Change(g)
    BY <1>9 DEF Edits
  <2>2. pc = "loop" => during' = during \cup {g}
    BY <2>1 DEF Change
  <2>3. provider' \subseteq provider \cup {g} /\ provider \subseteq provider' \cup {g}
    BY <2>1 DEF Change
  <2>4. UNCHANGED <<pc, dom, scratch, staged, calls, phase, findings, semantic, audits>>
    BY <2>1 DEF Change
  <2> QED
    BY <2>2, <2>3, <2>4 DEF LoopInv, Open
<1>7. CASE NextDomain
  <2>1. CASE dom = D
    BY <1>7, <2>1 DEF NextDomain, LoopInv
  <2>2. CASE dom # D
    <3>1. dom + 1 \in Domains /\ Enter(dom + 1) /\ UNCHANGED provider
      BY <1>7, <2>2, ExchangeAssumption DEF NextDomain, Domains, TypeOK
    <3> QED
      BY <3>1, EnterTyped, FreshLoop
  <2> QED
    BY <2>1, <2>2
<1>8. CASE Approve
  BY <1>8, BeginTyped, FreshLoop DEF Approve, TypeOK
<1> QED
  BY <1>1, <1>2, <1>3, <1>4, <1>5, <1>6, <1>7, <1>8, <1>9, StepKinds

-----------------------------------------------------------------------------
(* The stored reviews, and the domains that are done.                      *)

LEMMA StoredStep ==
  ASSUME TypeOK, LoopInv, StoredInv, ResponseInv, [Next]_vars
  PROVE  StoredInv'
<1> DEFINE AllInScope(s) == \A d \in Domains : s[d] # None => InScope(s[d], d)
<1>1. AllInScope(stored)
  BY DEF StoredInv
<1>2. stored' = stored \/ stored' = [stored EXCEPT ![dom] = None] => AllInScope(stored')
  BY <1>1 DEF TypeOK
<1>3. ASSUME NEW way \in {"adapter", "export", "import"}, Start(way) PROVE StoredInv'
  <2>1. stored' = stored
    BY <1>3 DEF Start, files
  <2> QED
    BY <1>2, <1>3, <2>1, EnterTyped, DomainGaps DEF Start, StoredInv
<1>4. CASE Ends
  BY <1>2, <1>4, EndTyped DEF Ends, StoredInv
<1>5. CASE Changes \/ Audits \/ Unrepresentable
  <2>1. stored' = stored /\ pc' = "loop"
    BY <1>5 DEF Changes, Audits, Unrepresentable, Take, TakeAudit, files
  <2> QED
    BY <1>2, <2>1 DEF StoredInv
<1>6. CASE Review
  <2> DEFINE review == [before |-> provider, after |-> scratch, edits |-> during]
  <2>1. stored' = [stored EXCEPT ![dom] = review] /\ UNCHANGED <<dom, scratch>>
    BY <1>6 DEF Review, process, loop
  <2>2. InScope(review, dom)
    BY <1>6 DEF Review, LoopInv, InScope
  <2>3. review \in Reviews
    BY DEF TypeOK, Reviews
  <2>4. review # None
    BY <2>3, NoneIsNothing
  <2>5. AllInScope(stored')
    BY <1>1, <2>1, <2>2 DEF TypeOK
  <2>6. stored'[dom'] = review
    BY <2>1 DEF TypeOK
  <2> QED
    BY <2>1, <2>4, <2>5, <2>6 DEF StoredInv
<1>7. CASE NextDomain
  <2>1. stored' = stored
    BY <1>7 DEF NextDomain, files
  <2>2. CASE dom = D
    BY <1>2, <1>7, <2>1, <2>2 DEF NextDomain, StoredInv
  <2>3. CASE dom # D
    <3>1. dom + 1 \in Domains /\ Enter(dom + 1)
      BY <1>7, <2>3, ExchangeAssumption DEF NextDomain, Domains, TypeOK
    <3> QED
      BY <1>2, <2>1, <3>1, EnterTyped DEF StoredInv
  <2> QED
    BY <2>2, <2>3
<1>8. CASE Approve
  BY <1>2, <1>8 DEF Approve, StoredInv
<1>9. CASE Asks
  BY <1>9 DEF Asks, process, loop, StoredInv
<1>10. CASE Edits
  <2>1. UNCHANGED <<stored, pc, dom, scratch>>
    BY <1>10 DEF Edits, Change, files
  <2> QED
    BY <1>2, <2>1 DEF StoredInv
<1> QED
  BY <1>3, <1>4, <1>5, <1>6, <1>7, <1>8, <1>9, <1>10, StepKinds

(* A process leaves a domain only when nothing in it is open; unless it has *)
(* staged something there, the audit found nothing and is about the         *)
(* provider as it is.                                                       *)
LEMMA LeavesClean ==
  ASSUME TypeOK, MemoryInv, LoopInv, NextDomain
  PROVE  /\ StaticOf[dom] \subseteq provider
         /\ dom \in Audited /\ staged = {} =>
              audits[dom] = [shows |-> provider \cap Of(dom), found |-> {}]
<1>1. pc = "loop" /\ Wanted = None /\ scratch = provider /\ (Open \cup findings) \ staged = {}
  BY DEF NextDomain, Blocking
<1>2. Open = {}
  BY <1>1 DEF LoopInv, Open
<1> SUFFICES ASSUME dom \in Audited, staged = {}
             PROVE  audits[dom] = [shows |-> provider \cap Of(dom), found |-> {}]
  BY <1>1, <1>2 DEF Open
<1>3. findings = {} /\ Pending = {} /\ Fixable = {}
  BY <1>1, <1>2 DEF Pending, Fixable
<1>4. phase = "post" \/ (phase = "pre" /\ ~semantic)
  <2>1. CASE Spent
    <3>1. calls >= 1 /\ route = "import"
      BY <2>1 DEF Spent
    <3>2. phase # "not_run" /\ ~semantic
      BY <1>1, <1>2, <3>1 DEF LoopInv, MemoryInv
    <3> QED
      BY <3>2 DEF TypeOK
  <2>2. CASE ~Spent /\ phase # "post"
    <3>1. ~AuditDue
      <4> SUFFICES ASSUME AuditDue PROVE FALSE
        OBVIOUS
      <4>1. Wanted = Ask(Lifecycle, 0)
        BY <1>3, <2>2 DEF Wanted
      <4>2. scratch \cap Of(dom) \in SUBSET Gaps /\ 0 \in 0 .. MaxAttempts
        BY ExchangeAssumption DEF TypeOK
      <4>3. Wanted \in Requests
        BY <4>1, <4>2 DEF Ask, Requests, TypeOK
      <4> QED
        BY <1>1, <4>3, NoneIsNothing
    <3> QED
      BY <1>3, <2>2, <3>1 DEF AuditDue, AuditRequired, TypeOK
  <2> QED
    BY <2>1, <2>2
<1> QED
  BY <1>1, <1>3, <1>4 DEF LoopInv

(* A domain stays done while the provider differs by edits that count and   *)
(* by shared scripts.                                                       *)
LEMMA StaysDone ==
  ASSUME NEW d \in Domains, Done(d), left'[d] = left[d], audits'[d] = audits[d],
         edited \subseteq edited',
         \A g \in Of(d) : (g \in provider') # (g \in provider) =>
           g \in edited' \/ (g \in Shared /\ d < D)
  PROVE  Done(d)'
  BY DEF Done

LEMMA PassedStep ==
  ASSUME TypeOK, MemoryInv, LoopInv, StoredInv, PassedInv, ResponseInv, [Next]_vars
  PROVE  PassedInv'
<1>0. D \in Nat /\ dom \in Domains /\ \A d \in Domains : d \in Nat /\ d >= 1 /\ d <= D
  BY ExchangeAssumption DEF TypeOK, Domains
<1>1. ASSUME NEW way \in {"adapter", "export", "import"}, Start(way) PROVE PassedInv'
  <2>1. dom' = 1 /\ pc' \in {"loop", "review"}
    BY <1>1, EnterTyped, DomainGaps DEF Start
  <2> QED
    BY <1>0, <2>1 DEF PassedInv
<1>2. CASE Ends
  BY <1>2, EndTyped DEF Ends, PassedInv
<1>3. CASE Changes
  BY <1>3, TakeTyped DEF Changes, PassedInv, Done, seen
<1>4. CASE Audits
  <2>1. PICK reported : TakeAudit(reported)
    BY <1>4 DEF Audits
  <2>2. pc = "loop" /\ pc' = "loop" /\ UNCHANGED <<provider, dom, left, edited>>
        /\ \A d \in Domains : d # dom => audits'[d] = audits[d]
    BY <1>4, <2>1 DEF Audits, TakeAudit, TypeOK
  <2> QED
    BY <1>0, <2>2 DEF PassedInv, Done
<1>5. CASE Unrepresentable \/ Asks
  BY <1>5 DEF Unrepresentable, Asks, process, seen, PassedInv, Done
<1>6. CASE Review
  BY <1>6 DEF Review, process, seen, PassedInv, Done
<1>7. CASE NextDomain
  <2> DEFINE view == [closed |-> provider \cap Of(dom), staged |-> staged # {}]
  <2>1. /\ pc = "loop" /\ UNCHANGED <<provider, audits, edited>>
        /\ left' = [left EXCEPT ![dom] = view]
    BY <1>7 DEF NextDomain
  <2>2. ASSUME NEW d \in Domains, d < dom PROVE Done(d)'
    <3>1. Done(d) /\ left'[d] = left[d]
      BY <1>0, <2>1, <2>2 DEF PassedInv, TypeOK
    <3> QED
      BY <2>1, <3>1, StaysDone
  <2>3. ASSUME NEW d \in Domains, d = dom PROVE Done(d)'
    <3>1. left'[d] = view
      BY <1>0, <2>1, <2>3 DEF TypeOK
    <3>2. view \in Views
      BY <2>3 DEF TypeOK, Views
    <3>3. view # None
      BY <3>2, NoneIsNothing
    <3>4. StaticOf[d] \subseteq view.closed
      BY <1>7, <2>3, LeavesClean DEF Of
    <3>5. d \in Audited =>
            view.staged \/ audits'[d] = [shows |-> view.closed, found |-> {}]
      BY <1>7, <2>1, <2>3, LeavesClean
    <3>6. \A g \in Of(d) : (g \in provider') = (g \in view.closed)
      BY <2>1, <2>3
    <3> QED
      BY <3>1, <3>3, <3>4, <3>5, <3>6 DEF Done
  <2>4. \A d \in Domains : d <= dom => Done(d)'
    BY <1>0, <2>2, <2>3
  <2>5. CASE dom = D
    BY <1>0, <1>7, <2>4, <2>5 DEF NextDomain, PassedInv
  <2>6. CASE dom # D
    <3>1. dom + 1 \in Domains /\ Enter(dom + 1)
      BY <1>7, <2>6, ExchangeAssumption DEF NextDomain, Domains, TypeOK
    <3>2. dom' = dom + 1 /\ pc' \in {"loop", "review"}
      BY <3>1, EnterTyped
    <3> QED
      BY <1>0, <2>4, <3>2 DEF PassedInv
  <2> QED
    BY <2>5, <2>6
<1>8. CASE Approve
  <2>1. /\ pc = "review" /\ pc' = "loop" /\ UNCHANGED <<dom, audits, left>>
        /\ provider = stored[dom].before /\ provider' = stored[dom].after
        /\ stored[dom] # None
        /\ edited' = edited \cup (stored[dom].edits \cap Left)
    BY <1>8 DEF Approve, AsShown, StoredInv
  <2>2. InScope(stored[dom], dom)
    BY <1>0, <2>1 DEF StoredInv
  <2>3. ASSUME NEW d \in Domains, d < dom PROVE Done(d)'
    <3>1. Of(d) \cap Of(dom) = {} /\ d < D
      BY <1>0, <2>3, ExchangeAssumption
    <3>2. Done(d) /\ Of(d) \subseteq Left
      BY <2>1, <2>3 DEF PassedInv, Done, Left
    <3>3. ASSUME NEW g \in Of(d), (g \in provider') # (g \in provider)
          PROVE  g \in edited' \/ (g \in Shared /\ d < D)
      <4>1. g \in Shared \cup stored[dom].edits
        BY <2>1, <2>2, <3>1, <3>3 DEF InScope
      <4> QED
        BY <2>1, <3>1, <3>2, <4>1
    <3> QED
      BY <2>1, <3>2, <3>3, StaysDone
  <2> QED
    BY <2>1, <2>3 DEF PassedInv
<1>9. CASE Edits
  <2>1. PICK g \in Gaps : Change(g)
    BY <1>9 DEF Edits
  <2>2. UNCHANGED <<pc, dom, audits, left>> /\ edited' = edited \cup ({g} \cap Left)
    BY <2>1 DEF Change
  <2>3. \A h : (h \in provider') # (h \in provider) => h = g
    BY <2>1 DEF Change
  <2>4. ASSUME NEW d \in Domains, Done(d) PROVE Done(d)'
    <3>1. Of(d) \subseteq Left
      BY <2>4 DEF Done, Left
    <3> QED
      BY <2>2, <2>3, <2>4, <3>1, StaysDone
  <2> QED
    BY <2>2, <2>4 DEF PassedInv
<1> QED
  BY <1>1, <1>2, <1>3, <1>4, <1>5, <1>6, <1>7, <1>8, <1>9, StepKinds

(* A request is exported before an audit of its domain is imported, and by  *)
(* a process that has no adapter.                                           *)
LEMMA HomeStep ==
  ASSUME TypeOK, MemoryInv, ResponseInv, FindingsStayHome, [Next]_vars
  PROVE  FindingsStayHome'
<1>1. CASE UNCHANGED request \/ request' = Cut
  BY <1>1 DEF FindingsStayHome
<1>2. CASE request' = Wanted /\ pc = "loop" /\ Exporting /\ Wanted # None
  <2>1. ~Spent /\ (Wanted.about = Lifecycle \/ Wanted.about \in Pending)
    BY <1>2, WantedIs
  <2>2. route = "export" \/ calls = 0
    BY <1>2, <2>1 DEF Exporting, Spent, TypeOK
  <2>3. findings = {}
    BY <2>2 DEF MemoryInv
  <2>4. Wanted.about = Lifecycle \/ Wanted.about \in StaticOf[dom]
    BY <2>1, <2>3 DEF Pending, Fixable, Open
  <2>5. Wanted.about \notin Semantic
    BY <2>4, DomainGaps, StaticIsNotSemantic DEF Lifecycle, TypeOK
  <2> QED
    BY <1>2, <2>5 DEF FindingsStayHome
<1> QED
  BY <1>1, <1>2, StepKinds
  DEF Start, Ends, Changes, Audits, Unrepresentable, Review, NextDomain, Approve, Asks, Edits,
      Change, files

-----------------------------------------------------------------------------
(* The theorems.                                                           *)

LEMMA InitInv == Init => IInv
<1> SUFFICES ASSUME Init PROVE IInv
  OBVIOUS
<1>0. MaxAttempts \in Nat /\ MaxMishaps \in Nat /\ 1 \in Domains
  BY ExchangeAssumption, DomainGaps
<1>1. TypeOK
  <2>1. tries \in [Gaps -> 0 .. MaxAttempts] /\ mishaps \in 0 .. MaxMishaps
    BY <1>0 DEF Init, NoTries
  <2>2. stored \in [Domains -> Reviews \cup {None}]
    BY DEF Init
  <2>3. audits \in [Domains -> [shows : SUBSET Gaps, found : SUBSET Gaps] \cup {None}]
    BY DEF Init
  <2>4. calls \in Nat
    BY DEF Init
  <2>5. left \in [Domains -> Views \cup {None}]
    BY DEF Init
  <2> QED
    BY <1>0, <2>1, <2>2, <2>3, <2>4, <2>5 DEF Init, TypeOK
<1> QED
  BY <1>1 DEF Init, IInv, MemoryInv, LoopInv, StoredInv, ResponseInv, PassedInv,
              FindingsStayHome

LEMMA InvStep == IInv /\ [Next]_vars => IInv'
  BY TypeStep, ResponseStep, MemoryStep, LoopStep, StoredStep, PassedStep, HomeStep DEF IInv

LEMMA InvHolds == Spec => []IInv
  BY InitInv, InvStep, PTL DEF Spec

(* The type invariant, for every number of domains and gaps.               *)
THEOREM TypeCorrect == Spec => []TypeOK
<1>1. IInv => TypeOK
  BY DEF IInv
<1> QED
  BY <1>1, InvHolds, PTL

(* The live run is asked for only by a process that has left every domain  *)
(* without an open gap, and every audited one after an audit without        *)
(* findings of what it left, unless it had staged something there; what has *)
(* changed since, the ISV has edited, or it is in a script that later       *)
(* domains may change (auto.py, journey.py, changes.py).                    *)
THEOREM LiveRunIsAudited == Spec => []LiveIsAudited
<1>1. IInv => LiveIsAudited
  BY DEF IInv, PassedInv, Done, LiveIsAudited
<1> QED
  BY <1>1, InvHolds, PTL

(* What an audit finds is never asked for in a file (auto.py, journey.py,   *)
(* generators.py).                                                         *)
THEOREM FindingsAreNotExported == Spec => []FindingsStayHome
<1>1. IInv => FindingsStayHome
  BY DEF IInv
<1> QED
  BY <1>1, InvHolds, PTL

(* No request is written over candidates that nobody has reviewed          *)
(* (generators.py, auto.py).                                               *)
THEOREM ExportsKeepCandidates == Spec => ExportKeepsCandidates
<1>1. ASSUME IInv, [Next]_vars PROVE request' # request => staged = {}
  <2>1. CASE pc = "loop" /\ Exporting /\ Wanted # None
    <3>1. staged # {} => calls >= 1 /\ route = "import"
      BY <1>1, <2>1 DEF IInv, MemoryInv, Exporting
    <3> QED
      BY <1>1, <2>1, <3>1, WantedIs DEF IInv, Spent
  <2>2. CASE UNCHANGED request
    BY <2>2
  <2> QED
    BY <1>1, <2>1, <2>2, StepKinds
    DEF IInv, Start, Ends, Changes, Audits, Unrepresentable, Review, NextDomain, Approve,
        Asks, Edits, Change, files
<1>2. IInv /\ [Next]_vars => [request' # request => staged = {}]_vars
  BY <1>1
<1> QED
  BY <1>2, InvHolds, PTL DEF Spec, ExportKeepsCandidates

(* What is staged from a response was written for this gap, over this      *)
(* content of the domain (generators.py, generation.py).                   *)
THEOREM StagedWasAsked == Spec => StagedAsAsked
<1> DEFINE A ==
      route = "import" /\ staged' # staged /\ staged' # {} =>
        \E g \in Gaps :
          /\ staged' = staged \cup {g} /\ response.outcome = "good"
          /\ response.to.domain = dom /\ response.to.about = g
          /\ response.to.shows = scratch \cap Of(dom)
<1>1. ASSUME IInv, [Next]_vars PROVE A
  <2>1. CASE Import
    <3>1. CASE Wanted.about = Lifecycle
      BY <2>1, <3>1 DEF Import, TakeAudit
    <3>2. CASE Wanted.about # Lifecycle /\ Fits(response)
      <4>1. /\ Wanted # None /\ Take(Wanted.about, response.outcome, response.opens) /\ response.to = Wanted
        BY <2>1, <3>2 DEF Import, Importable, Fits
      <4>2. /\ Wanted.about \in Gaps /\ Wanted.domain = dom
            /\ Wanted.shows = scratch \cap Of(dom)
        BY <1>1, <3>2, <4>1, WantedIs, FixableGaps DEF IInv
      <4> QED
        BY <4>1, <4>2 DEF Take
    <3>3. CASE Wanted.about # Lifecycle /\ ~Fits(response)
      <4>1. Take(Wanted.about, "rejected", {})
        BY <2>1, <3>3 DEF Import
      <4> QED
        BY <4>1 DEF Take
    <3> QED
      BY <3>1, <3>2, <3>3
  <2>2. CASE staged' = staged \/ staged' = {}
    BY <2>2
  <2>3. CASE route = "adapter"
    BY <2>3
  <2>4. ASSUME NEW way \in {"adapter", "export", "import"}, Start(way) PROVE staged' = {}
    BY <1>1, <2>4, EnterTyped, DomainGaps DEF Start, IInv
  <2>5. NextDomain => staged' = {} \/ staged' = staged
    <3> SUFFICES ASSUME NextDomain, dom # D PROVE staged' = {}
      BY DEF NextDomain, loop
    <3>1. dom + 1 \in Domains /\ Enter(dom + 1)
      BY <1>1, ExchangeAssumption DEF NextDomain, Domains, TypeOK, IInv
    <3> QED
      BY <1>1, <3>1, EnterTyped DEF IInv
  <2>6. CASE AdapterFails \/ Export \/ ImportFails \/ Parked \/ ApproveRefused \/ Decline
             \/ AskLive \/ Kill
    <3>1. EndProcess
      BY <2>6 DEF AdapterFails, Export, ImportFails, Parked, ApproveRefused, Decline, AskLive,
                  Kill
    <3> QED
      BY <3>1, EndTyped
  <2>7. CASE Unrepresentable \/ Review \/ Approve \/ UNCHANGED vars
    BY <2>7 DEF Unrepresentable, Review, Approve, BeginLoop, process, loop, vars
  <2>8. ASSUME NEW outcome \in Outcomes, NEW opens \in SUBSET Hidden,
               AdapterChanges(outcome, opens)
        PROVE  A
    BY <2>8 DEF AdapterChanges
  <2>9. ASSUME NEW reported \in SUBSET Semantic, AdapterAudits(reported) PROVE A
    BY <2>9 DEF AdapterAudits
  <2>10. ASSUME NEW outcome \in Outcomes, NEW reported \in SUBSET Semantic,
                NEW opens \in SUBSET Hidden, Answer(outcome, reported, opens)
         PROVE  A
    BY <2>10 DEF Answer, process, loop
  <2>11. ASSUME NEW g \in Gaps, CloseByHand(g) \/ Edit(g) PROVE A
    BY <2>11 DEF CloseByHand, Edit, Change
  <2> QED
    BY <1>1, <2>1, <2>2, <2>4, <2>5, <2>6, <2>7, <2>8, <2>9, <2>10, <2>11
    DEF Next, Proceed, Adapt
<1>2. IInv /\ [Next]_vars => [A]_vars
  BY <1>1
<1> QED
  BY <1>2, InvHolds, PTL DEF Spec, StagedAsAsked

=============================================================================

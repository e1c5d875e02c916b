------------------------------ MODULE Exchange ------------------------------
(***************************************************************************)
(* `gapctl validate` with a generator that cannot be called: one process   *)
(* exports the next request to a file and ends, some agent answers it, and *)
(* a later process imports the answer.  The same command with an adapter   *)
(* may run in between.                                                     *)
(*                                                                         *)
(* Every process goes through the domains from the first one, and through  *)
(* the loop of each domain from a fresh copy of the provider: what one     *)
(* process knows, the next has to find in the provider, in the stored      *)
(* review of a domain, or in the files of the exchange.                    *)
(*                                                                         *)
(* A provider is abstracted to the gaps that are closed in it.  The audit  *)
(* of a domain is a request about no gap; the gaps it may report are the   *)
(* semantic ones.  A candidate closes the gap it is for, and may open what *)
(* the scan of its domain does not see.  The ISV opens and closes gaps at  *)
(* any time.  The failure ledger of the loop is in AutoRun, the files of a *)
(* review and the steps that apply it are in ReviewGate.                   *)
(***************************************************************************)
EXTENDS Naturals, FiniteSets

CONSTANTS
  D,            \* number of owned domains
  StaticOf,     \* the gaps the scanner finds in each domain
  SemanticOf,   \* the gaps only an audit finds
  Manual,       \* static gaps that may not be generated
  Shared,       \* gaps in scripts that the candidates of every domain may change
  Audited,      \* domains with an approved covered/test capability
  MaxAttempts,  \* execution.max_attempts
  MaxMishaps,   \* bound on kills, edits and candidates that open a gap
  None, Cut     \* no file; a file cut short by a kill

Domains == 1 .. D

Of(d) == StaticOf[d] \cup SemanticOf[d]

Gaps == UNION {Of(d) : d \in Domains}

\* What a scan of one domain does not see when the gap of another is closed.
Semantic == UNION {SemanticOf[d] : d \in Domains}
Hidden == Semantic \cup Shared

\* The audit is about no gap.
Lifecycle == 0

\* What a request is about, what it shows of the domain, and how many failures
\* it holds.
Requests ==
  [domain : Domains, about : Gaps \cup {Lifecycle}, shows : SUBSET Gaps,
   failures : 0 .. MaxAttempts]

\* The patch of a review, by what it leads from and to, and the gaps the ISV
\* edited while it was generated.
Reviews == [before : SUBSET Gaps, after : SUBSET Gaps, edits : SUBSET Gaps]

\* What a process has seen of a domain when it left it.
Views == [closed : SUBSET Gaps, staged : BOOLEAN]

ASSUME ExchangeAssumption ==
  /\ D \in Nat \ {0}
  /\ StaticOf \in [Domains -> SUBSET (Nat \ {0})]
  /\ SemanticOf \in [Domains -> SUBSET (Nat \ {0})]
  /\ \A d, e \in Domains : d # e => Of(d) \cap Of(e) = {}
  /\ \A d \in Domains : StaticOf[d] \cap SemanticOf[d] = {}
  /\ IsFiniteSet(Gaps)
  /\ Manual \subseteq Gaps /\ Shared \subseteq Gaps /\ Audited \subseteq Domains
  /\ MaxAttempts \in Nat \ {0} /\ MaxMishaps \in Nat
  /\ {None, Cut} \cap (Requests \cup Reviews \cup Views) = {}

VARIABLES
  provider,  \* the gaps closed in the provider
  request,   \* generator-request.json
  response,  \* the response file, with the request it was written for
  stored,    \* the review stored for each domain
  pc,        \* where the process is; "idle" between two processes
  route,     \* "adapter", "export" or "import"
  dom,       \* the domain the process is at
  consumed,  \* the response has been imported
  scratch,   \* the gaps closed in the scratch copy
  staged,    \* candidates staged in this call of run_auto
  tries,     \* attempts_by_unit
  calls,     \* generator_calls
  phase,     \* audit_phase
  findings,  \* active_audit_rows
  semantic,  \* semantic_candidate_staged
  audits,    \* history: the latest audit of each domain in this process
  during,    \* history: gaps the ISV has edited in this call of run_auto
  left,      \* history: what this process saw when it left each domain
  edited,    \* history: gaps of these domains the ISV has edited since
  mishaps

files == <<request, response, stored>>
loop == <<scratch, staged, tries, calls, phase, findings, semantic, during>>
seen == <<audits, left, edited>>
process == <<route, dom, consumed, loop, seen>>
vars == <<provider, files, pc, process, mishaps>>

NoTries == [g \in Gaps |-> 0]

-----------------------------------------------------------------------------
(* The life of a process.                                                  *)

\* run_auto begins with a copy of the provider and forgets everything else.
BeginLoop(content) ==
  /\ scratch' = content /\ staged' = {} /\ tries' = NoTries /\ calls' = 0
  /\ phase' = "not_run" /\ findings' = {} /\ semantic' = FALSE /\ during' = {}

EndProcess ==
  /\ pc' = "idle" /\ route' = "adapter" /\ dom' = 1 /\ consumed' = FALSE
  /\ BeginLoop({})
  /\ audits' = [d \in Domains |-> None] /\ left' = [d \in Domains |-> None]
  /\ edited' = {}

\* A stored review is shown again instead of generating another one.
Enter(d) ==
  /\ dom' = d
  /\ IF stored[d] = None
     THEN pc' = "loop" /\ BeginLoop(provider)
     ELSE pc' = "review" /\ BeginLoop(stored[d].after)

Start(way) ==
  /\ pc = "idle"
  /\ route' = way /\ Enter(1)
  /\ UNCHANGED <<provider, files, consumed, seen, mishaps>>

-----------------------------------------------------------------------------
(* What the loop of a domain asks for.                                     *)

Open == StaticOf[dom] \ scratch

Fixable == (Open \ Manual) \cup findings

Pending == {g \in Fixable : tries[g] < MaxAttempts}

\* Rows come in the order of the scan.
Selected == CHOOSE g \in Pending : \A h \in Pending : g <= h

\* Mutant: the limit on imports is not passed to the loop.
NeverSpent == FALSE

\* An imported response is the only call of its process, for each domain.
Spent == route = "import" /\ calls >= 1

\* A domain without an approved covered/test capability is not audited.
AuditRequired == dom \in Audited

\* Mutant: the audit is left out when it could not be answered.
AuditDueIfAnswerable ==
  /\ Fixable = {} /\ findings = {} /\ AuditRequired
  /\ phase = "not_run" \/ (phase = "pre" /\ semantic)
  /\ ~(route = "import" /\ consumed)

AuditDue ==
  /\ Fixable = {} /\ findings = {} /\ AuditRequired
  /\ phase = "not_run" \/ (phase = "pre" /\ semantic)

\* The request for a gap holds the failures of earlier attempts at it.
Ask(about, failures) ==
  [domain |-> dom, about |-> about, shows |-> scratch \cap Of(dom), failures |-> failures]

\* What the generator is asked for next; None leaves the loop.
Wanted ==
  IF Spent \/ phase = "post" THEN None
  ELSE IF Pending # {} THEN Ask(Selected, tries[Selected])
  ELSE IF AuditDue THEN Ask(Lifecycle, 0)
  ELSE None

-----------------------------------------------------------------------------
(* Answers.                                                                *)

\* A change set is verified and staged, rejected by a guardrail, not verified,
\* or empty.
Outcomes == {"good", "rejected", "unverified", "empty"}

Attempt(g) == tries' = [tries EXCEPT ![g] = @ + 1]

\* What a candidate for g may open: the regression check covers the scan of
\* its own domain, and _authorize_provider_path the files of its scope and
\* every script.
Exposed(d, g) == (SemanticOf[d] \cup (Shared \ Of(d))) \ {g}

\* A rejected answer does not count as a call.
Take(g, outcome, opens) ==
  /\ pc' = "loop"
  /\ UNCHANGED <<route, dom, phase, during, seen>>
  /\ \/ /\ outcome = "good"
        /\ scratch' = (scratch \cup {g}) \ opens /\ staged' = staged \cup {g}
        /\ Attempt(g) /\ calls' = calls + 1
        /\ findings' = findings \ {g} /\ semantic' = (semantic \/ g \in findings)
     \/ /\ outcome = "rejected"
        /\ Attempt(g)
        /\ UNCHANGED <<scratch, staged, calls, findings, semantic>>
     \/ /\ outcome = "unverified"
        /\ Attempt(g) /\ calls' = calls + 1
        /\ UNCHANGED <<scratch, staged, findings, semantic>>
     \/ /\ outcome = "empty"
        /\ tries' = [tries EXCEPT ![g] = MaxAttempts] /\ calls' = calls + 1
        /\ UNCHANGED <<scratch, staged, findings, semantic>>

\* _parse_domain_audit and audit_gap_rows: an audit accounts for every approved
\* capability; those that are not implemented become findings.
TakeAudit(reported) ==
  /\ pc' = "loop"
  /\ findings' = reported /\ calls' = calls + 1
  /\ phase' = IF phase = "not_run" THEN "pre" ELSE "post"
  /\ audits' = [audits EXCEPT ![dom] = [shows |-> scratch \cap Of(dom), found |-> reported]]
  /\ UNCHANGED <<route, dom, scratch, staged, tries, semantic, during, left, edited>>

\* A candidate that opens gaps is a mishap.
Opens(g, d, opens) ==
  /\ opens \subseteq Exposed(d, g)
  /\ mishaps' = IF opens = {} THEN mishaps ELSE mishaps + 1
  /\ mishaps' <= MaxMishaps

AdapterChanges(outcome, opens) ==
  /\ pc = "loop" /\ route = "adapter" /\ Wanted # None /\ Wanted.about # Lifecycle
  /\ Opens(Wanted.about, dom, opens)
  /\ Take(Wanted.about, outcome, opens)
  /\ UNCHANGED <<provider, files, consumed>>

AdapterAudits(reported) ==
  /\ pc = "loop" /\ route = "adapter" /\ Wanted # None /\ Wanted.about = Lifecycle
  /\ reported \subseteq SemanticOf[dom]
  /\ TakeAudit(reported)
  /\ UNCHANGED <<provider, files, consumed, mishaps>>

\* The adapter is out of order, or an audit does not hold what it must.
AdapterFails ==
  /\ pc = "loop" /\ route = "adapter" /\ Wanted # None
  /\ EndProcess
  /\ UNCHANGED <<provider, files, mishaps>>

\* The pack does not fit into a request: the gap is parked without a call.
Unrepresentable ==
  /\ pc = "loop" /\ Wanted # None /\ Wanted.about # Lifecycle
  /\ tries' = [tries EXCEPT ![Wanted.about] = MaxAttempts]
  /\ UNCHANGED <<provider, files, pc, route, dom, consumed, scratch, staged, calls, phase,
                 findings, semantic, during, seen, mishaps>>

Exporting == route = "export" \/ (route = "import" /\ consumed)

Export ==
  /\ pc = "loop" /\ Exporting /\ Wanted # None
  /\ request' = Wanted
  /\ EndProcess
  /\ UNCHANGED <<provider, response, stored, mishaps>>

Importable ==
  pc = "loop" /\ route = "import" /\ ~consumed /\ Wanted # None /\ request = Wanted

\* Mutant: the hash in an answer is not compared.
FitsAny(answer) == TRUE

\* An answer names the hash of the context it was made for.
Fits(answer) == answer.to = Wanted

HoldsAudit(answer) == Fits(answer) /\ answer.outcome = "good"

Import ==
  /\ Importable /\ response # None
  /\ consumed' = TRUE
  /\ IF Wanted.about # Lifecycle
     THEN IF Fits(response) THEN Take(Wanted.about, response.outcome, response.opens)
          ELSE Take(Wanted.about, "rejected", {})
     ELSE HoldsAudit(response) /\ TakeAudit(response.reported)
  /\ UNCHANGED <<provider, files, mishaps>>

\* Another request was exported, there is no response, it is no JSON object, or
\* an audit does not fit.
ImportFails ==
  /\ pc = "loop" /\ route = "import" /\ ~consumed /\ Wanted # None
  /\ \/ request # Wanted \/ response = None
     \/ response # None /\ Wanted.about = Lifecycle /\ ~HoldsAudit(response)
  /\ EndProcess
  /\ UNCHANGED <<provider, files, mishaps>>

-----------------------------------------------------------------------------
(* The review, and the next domain.                                        *)

\* _park names every row that blocks but those of staged candidates.
Blocking == (Open \cup findings) \ staged

Review ==
  /\ pc = "loop" /\ Wanted = None /\ scratch # provider
  /\ stored' = [stored EXCEPT
       ![dom] = [before |-> provider, after |-> scratch, edits |-> during]]
  /\ pc' = "review"
  /\ UNCHANGED <<provider, request, response, process, mishaps>>

Parked ==
  /\ pc = "loop" /\ Wanted = None /\ scratch = provider /\ Blocking # {}
  /\ EndProcess
  /\ UNCHANGED <<provider, files, mishaps>>

NextDomain ==
  /\ pc = "loop" /\ Wanted = None /\ scratch = provider /\ Blocking = {}
  /\ IF dom = D THEN pc' = "live" /\ UNCHANGED <<dom, loop>> ELSE Enter(dom + 1)
  /\ left' = [left EXCEPT ![dom] = [closed |-> provider \cap Of(dom), staged |-> staged # {}]]
  /\ UNCHANGED <<provider, files, route, consumed, audits, edited, mishaps>>

\* The gaps of the domains that this process has left.
Left == UNION {Of(d) : d \in {e \in Domains : left[e] # None}}

\* The patch of the scratch copy against the provider is still the one shown.
AsShown == provider = stored[dom].before

\* The patch is applied and the domain is gone through again.  What the ISV
\* edited while it was generated is taken back.
Approve ==
  /\ pc = "review" /\ AsShown
  /\ provider' = scratch
  /\ stored' = [stored EXCEPT ![dom] = None]
  /\ pc' = "loop" /\ BeginLoop(scratch)
  /\ edited' = edited \cup (stored[dom].edits \cap Left)
  /\ UNCHANGED <<request, response, route, dom, consumed, audits, left, mishaps>>

ApproveRefused ==
  /\ pc = "review" /\ ~AsShown
  /\ EndProcess
  /\ UNCHANGED <<provider, files, mishaps>>

Decline ==
  /\ pc = "review"
  /\ stored' = [stored EXCEPT ![dom] = None]
  /\ EndProcess
  /\ UNCHANGED <<provider, request, response, mishaps>>

\* The live run is asked for, and the process ends.
AskLive ==
  /\ pc = "live"
  /\ EndProcess
  /\ UNCHANGED <<provider, files, mishaps>>

Kill ==
  /\ pc # "idle" /\ mishaps < MaxMishaps
  /\ mishaps' = mishaps + 1
  /\ EndProcess
  /\ \/ UNCHANGED request
     \/ pc = "loop" /\ Exporting /\ Wanted # None /\ request' = Cut
  /\ UNCHANGED <<provider, response, stored>>

-----------------------------------------------------------------------------
(* Around the processes.                                                   *)

\* The agent's answer to the exported request is saved: a change set of any
\* outcome, or an audit, which is "good" when it holds what it must.
Answer(outcome, reported, opens) ==
  /\ pc = "idle" /\ request \notin {None, Cut}
  /\ IF request.about = Lifecycle
     THEN /\ outcome \in {"good", "rejected"} /\ reported \subseteq SemanticOf[request.domain]
          /\ opens = {} /\ UNCHANGED mishaps
     ELSE reported = {} /\ Opens(request.about, request.domain, opens)
  /\ response' = [to |-> request, outcome |-> outcome, reported |-> reported, opens |-> opens]
  /\ UNCHANGED <<provider, request, stored, pc, process>>

\* The ISV changes the provider, between two processes, in the middle of one, or
\* while one asks: a gap is closed, or opened.
Change(g) ==
  /\ provider' = IF g \in provider THEN provider \ {g} ELSE provider \cup {g}
  /\ during' = IF pc = "loop" THEN during \cup {g} ELSE during
  /\ edited' = edited \cup ({g} \cap Left)
  /\ UNCHANGED <<files, pc, route, dom, consumed, scratch, staged, tries, calls, phase,
                 findings, semantic, audits, left>>

CloseByHand(g) ==
  /\ pc = "idle" /\ g \notin provider
  /\ Change(g)
  /\ UNCHANGED mishaps

Edit(g) ==
  /\ mishaps < MaxMishaps
  /\ mishaps' = mishaps + 1
  /\ Change(g)

-----------------------------------------------------------------------------

Init ==
  /\ provider = {} /\ request = None /\ response = None
  /\ stored = [d \in Domains |-> None]
  /\ pc = "idle" /\ route = "adapter" /\ dom = 1 /\ consumed = FALSE
  /\ scratch = {} /\ staged = {} /\ tries = NoTries /\ calls = 0
  /\ phase = "not_run" /\ findings = {} /\ semantic = FALSE
  /\ audits = [d \in Domains |-> None]
  /\ during = {} /\ left = [d \in Domains |-> None] /\ edited = {}
  /\ mishaps = 0

Adapt ==
  \/ \E outcome \in Outcomes, opens \in SUBSET Hidden : AdapterChanges(outcome, opens)
  \/ \E reported \in SUBSET Semantic : AdapterAudits(reported)
  \/ AdapterFails

Proceed ==
  \/ Adapt \/ Unrepresentable \/ Export \/ Import \/ ImportFails
  \/ Review \/ Parked \/ NextDomain \/ Approve \/ ApproveRefused \/ Decline \/ AskLive

Next ==
  \/ \E way \in {"adapter", "export", "import"} : Start(way)
  \/ Proceed
  \/ Kill
  \/ \E outcome \in Outcomes, reported \in SUBSET Semantic, opens \in SUBSET Hidden :
       Answer(outcome, reported, opens)
  \/ \E g \in Gaps : CloseByHand(g) \/ Edit(g)

Spec == Init /\ [][Next]_vars

\* An answer that holds: a change set that is verified and opens nothing, an
\* audit that reports what is not implemented.
Sound(answer) ==
  /\ answer.outcome = "good" /\ answer.opens = {}
  /\ answer.to.about = Lifecycle =>
       answer.reported = SemanticOf[answer.to.domain] \ answer.to.shows

\* A process goes on to its end.  A person exports again and again, and in the
\* end the request can be represented.  The person in the end saves a sound
\* answer to a first request, imports it while that request is the one exported,
\* approves, and declines what was refused.
FairSpec ==
  /\ Spec
  /\ WF_vars(Proceed)
  /\ SF_vars(Start("export")) /\ SF_vars(Export)
  /\ SF_vars(/\ \E reported \in SUBSET Semantic : Answer("good", reported, {})
             /\ Sound(response') /\ request.failures = 0)
  /\ SF_vars(/\ Start("import") /\ response # None /\ Sound(response)
             /\ response.to = request /\ request.failures = 0)
  /\ SF_vars(Import /\ Sound(response) /\ Fits(response))
  /\ SF_vars(Approve)
  /\ SF_vars(Decline /\ ~AsShown)

-----------------------------------------------------------------------------

Responses ==
  [to : Requests, outcome : Outcomes, reported : SUBSET Gaps, opens : SUBSET Gaps]

\* The type invariant.
TypeOK ==
  /\ provider \subseteq Gaps
  /\ request \in Requests \cup {None, Cut}
  /\ response \in Responses \cup {None}
  /\ stored \in [Domains -> Reviews \cup {None}]
  /\ pc \in {"idle", "loop", "review", "live"}
  /\ route \in {"adapter", "export", "import"}
  /\ dom \in Domains /\ consumed \in BOOLEAN
  /\ scratch \subseteq Gaps /\ staged \subseteq Gaps
  /\ tries \in [Gaps -> 0 .. MaxAttempts] /\ calls \in Nat
  /\ phase \in {"not_run", "pre", "post"}
  /\ findings \subseteq Gaps /\ semantic \in BOOLEAN
  /\ audits \in [Domains -> [shows : SUBSET Gaps, found : SUBSET Gaps] \cup {None}]
  /\ during \subseteq Gaps /\ edited \subseteq Gaps
  /\ left \in [Domains -> Views \cup {None}]
  /\ mishaps \in 0 .. MaxMishaps

\* "so a pause between external-agent turns cannot discard staged work"
\* (architecture.md): a request is written only when no candidate is staged that
\* has not been reviewed.
ExportKeepsCandidates == [][request' # request => staged = {}]_vars

\* "Validation change sets also remain bound to their gap and context-pack
\* hashes" (README.md): what is staged from a response was written for this gap
\* and for the content that it is staged over, whatever was exported and
\* answered before.
StagedAsAsked ==
  [][route = "import" /\ staged' # staged /\ staged' # {} =>
       \E g \in Gaps :
         /\ staged' = staged \cup {g} /\ response.outcome = "good"
         /\ response.to.domain = dom /\ response.to.about = g
         /\ response.to.shows = scratch \cap Of(dom)]_vars

\* The live run is asked for only by a process that has itself left every domain
\* without an open scanned gap and, if the domain is audited, after an audit
\* without findings of what it left.  Only a call of run_auto that staged a
\* candidate and found the same change in the provider leaves without one.
\* What is different by then comes from the ISV, or from a later domain, which
\* may change scripts only.
LiveIsAudited ==
  pc = "live" =>
    \A d \in Domains :
      /\ left[d] # None /\ StaticOf[d] \subseteq left[d].closed
      /\ d \in Audited =>
           left[d].staged \/ audits[d] = [shows |-> left[d].closed, found |-> {}]
      /\ \A g \in Of(d) : (g \in provider) # (g \in left[d].closed) =>
           g \in edited \/ (g \in Shared /\ d < D)

\* No finding of an audit is ever exported.  An audit that is imported spends the
\* one call of its process, and the next process audits again: what an audit
\* finds is generated with an adapter or closed by hand, although "the same
\* built-in, registered, executable, and file-exchange routes apply to
\* validation" (README.md).
FindingsStayHome == request \notin {None, Cut} => request.about \notin Semantic

\* The same sentence, for a person who exports and imports: the live run is
\* asked for in the end, if nothing but audits is to be exchanged.
FilesReachLive == <>(pc = "live")

=============================================================================

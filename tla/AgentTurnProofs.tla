--------------------------- MODULE AgentTurnProofs --------------------------
(* The one-gap workflow for any number of checks, contents, fingerprints,  *)
(* stops and edits: what a turn may do to the provider, what outlives a    *)
(* failed change, what `complete` means and what a retry costs.            *)
EXTENDS AgentTurn, FiniteSetTheorems, TLAPS

-----------------------------------------------------------------------------
(* The operators on states.                                                *)

\* _transition keeps attempts and feedback, and drops patch and artifacts.
LEMMA MovedFields ==
  ASSUME NEW s \in States, NEW status \in Statuses, NEW gap \in Gaps \cup {None}
  PROVE  /\ Moved(s, status, gap) \in States
         /\ Moved(s, status, gap).status = status
         /\ Moved(s, status, gap).gap = gap
         /\ Moved(s, status, gap).patch = None
         /\ Moved(s, status, gap).manifest = None
         /\ Moved(s, status, gap).attempts = s.attempts
         /\ Moved(s, status, gap).prints = s.prints
         /\ Moved(s, status, gap).application = None
         /\ Moved(s, status, gap).selection = None
  BY DEF Moved, States

\* A recorded failure counts one attempt and adds its fingerprints.
LEMMA RecordedFields ==
  ASSUME NEW s \in States, NEW prints \in SUBSET Prints, NEW retryable \in BOOLEAN,
         NEW retryGap \in Gaps \cup {None}
  PROVE  LET r == Recorded(s, prints, retryable, retryGap)
         IN  /\ r \in States
             /\ r.status = (IF Parks(s, prints, retryable) THEN "blocked" ELSE "ready")
             /\ r.patch = None /\ r.manifest = None
             /\ r.attempts = s.attempts + 1
             /\ r.prints = s.prints \cup prints
             /\ r.application = None /\ r.selection = None
<1> DEFINE parked == Parks(s, prints, retryable)
           status == IF parked THEN "blocked" ELSE "ready"
           gap == IF parked THEN s.gap ELSE retryGap
           m == Moved(s, status, gap)
<1>1. s.gap \in Gaps \cup {None} /\ s.attempts \in Nat /\ s.prints \in SUBSET Prints
  BY DEF States
<1>2. status \in Statuses /\ gap \in Gaps \cup {None}
  BY <1>1 DEF Statuses
<1>3. Recorded(s, prints, retryable, retryGap)
        = [m EXCEPT !.attempts = m.attempts + 1, !.prints = m.prints \cup prints]
  BY DEF Recorded
<1> HIDE DEF status, gap
<1>4. /\ m \in States
      /\ m.status = status
      /\ m.patch = None /\ m.manifest = None
      /\ m.attempts = s.attempts /\ m.prints = s.prints
      /\ m.application = None /\ m.selection = None
  BY <1>2, MovedFields
<1> HIDE DEF m
<1>5. /\ Recorded(s, prints, retryable, retryGap) \in States
      /\ Recorded(s, prints, retryable, retryGap).status = status
      /\ Recorded(s, prints, retryable, retryGap).patch = None
      /\ Recorded(s, prints, retryable, retryGap).manifest = None
      /\ Recorded(s, prints, retryable, retryGap).attempts = s.attempts + 1
      /\ Recorded(s, prints, retryable, retryGap).prints = s.prints \cup prints
      /\ Recorded(s, prints, retryable, retryGap).application = None
      /\ Recorded(s, prints, retryable, retryGap).selection = None
  <2> DEFINE n == m.attempts + 1
             all == m.prints \cup prints
             r == Recorded(s, prints, retryable, retryGap)
  <2>1. /\ n \in Nat /\ n = s.attempts + 1
        /\ all \in SUBSET Prints /\ all = s.prints \cup prints
    BY <1>1, <1>4
  <2>2. r = [m EXCEPT !.attempts = n, !.prints = all]
    BY <1>3
  <2> HIDE DEF n, all, r
  <2>3. /\ r \in States
        /\ r.status = m.status /\ r.gap = m.gap
        /\ r.patch = m.patch /\ r.manifest = m.manifest
        /\ r.attempts = n /\ r.prints = all
        /\ r.application = m.application /\ r.selection = m.selection
    BY <1>4, <2>1, <2>2 DEF States
  <2> QED
    BY <1>4, <2>1, <2>3 DEF r
<1> QED
  BY <1>5 DEF status

\* Whatever a turn does is one of these steps.
LEMMA Steps ==
  ASSUME [Next]_vars
  PROVE  \/ \E approval \in {saved.patch, None}, live, generator \in BOOLEAN :
              Turn(approval, live, generator)
         \/ Apply \/ ApplyRefused \/ ApplyFails \/ SaveApplied
         \/ DomainPasses \/ TargetPasses \/ LiveFailure \/ Rollback \/ RollbackRefused
         \/ AllGreen
         \/ \E gap \in Gaps : NotEditable(gap) \/ ContextRefused(gap) \/ NoGenerator(gap)
         \/ \E gap \in Gaps : Request(gap)
         \/ Refuses
         \/ \E content \in Candidates : Propose(content)
         \/ Verified
         \/ \E print \in StaticPrints : NotVerified(print)
         \/ Identical
         \/ Save
         \/ Stop \/ Cut \/ RemoveState
         \/ \E c \in Checks, content \in Edits : IsvEdits(c, content)
         \/ UNCHANGED vars
  BY DEF Next, Prepare

-----------------------------------------------------------------------------
(* Types.                                                                  *)

\* A state that awaits review has what a later turn applies, and it is the
\* change that is shown, whatever the file held when it was verified.
Reviewable(s) ==
  s.status = "awaiting_review" =>
    /\ s.gap \in Gaps /\ s.patch \in Patches /\ s.manifest \in Patches
    /\ s.patch.check = s.gap.check /\ s.manifest.check = s.gap.check
    /\ s.patch.after = s.manifest.after

\* What the turn carries in each of its phases.
Carried ==
  /\ phase = "idle" => mem = saved
  /\ phase = "apply" =>
       saved.status = "awaiting_review" /\ args.approval = saved.patch
  /\ phase = "saveApplied" =>
       saved.status = "awaiting_review" /\ mem.status = "awaiting_live"
  /\ phase = "live" => mem.status = "awaiting_live"
  /\ phase = "rollback" =>
       /\ mem.status \in {"ready", "blocked"} /\ mem.application \in Patches
       /\ report \in Reports
  /\ phase \in {"prepare", "generate", "verify"} =>
       mem.status \in {"ready", "awaiting_generator"}
  /\ phase \in {"generate", "verify"} => mem.gap \in Gaps /\ report \in Reports
  /\ phase = "verify" => mem.patch \in Patches /\ mem.patch.check = mem.gap.check

Typed == TypeOK /\ Reviewable(saved) /\ Reviewable(mem) /\ Carried

LEMMA TypedInit == Init => Typed
<1> SUFFICES ASSUME Init PROVE Typed
  OBVIOUS
<1>1. InitialState \in States /\ InitialState.status = "ready"
  BY DEF InitialState, States, Statuses
<1>2. TypeOK
  <2>1. provider \in [Checks -> Contents] /\ MaxStops \in Nat /\ MaxEdits \in Nat
    BY TurnAssumption DEF Init
  <2>2. args \in [approval : Patches \cup {None}, live : BOOLEAN, generator : BOOLEAN]
    BY DEF Init, NoArgs
  <2>3. stops \in 0 .. MaxStops /\ edits \in 0 .. MaxEdits
    BY <2>1 DEF Init
  <2> QED
    BY <1>1, <2>1, <2>2, <2>3 DEF Init, TypeOK, Phases
<1>3. Carried
  BY <1>1 DEF Init, Carried
<1> QED
  BY <1>1, <1>2, <1>3 DEF Init, Typed, Reviewable

\* A turn that forgets its state is idle with the saved one.
LEMMA Forgotten ==
  ASSUME Typed, Forget, provider' \in [Checks -> Contents],
         backups' \subseteq [gap : Gaps, patch : Patches],
         UNCHANGED <<saved, cut, historyVars, edits>>,
         stops' \in 0 .. MaxStops
  PROVE  Typed'
  BY DEF Typed, TypeOK, Reviewable, Carried, Forget, Ended, NoArgs, historyVars, Phases

LEMMA TypedTurn ==
  ASSUME Typed, NEW approval \in {saved.patch, None}, NEW live \in BOOLEAN,
         NEW generator \in BOOLEAN, Turn(approval, live, generator)
  PROVE  Typed'
<1>1. approval \in Patches \cup {None}
  BY DEF Typed, TypeOK, States
<1>2. args' \in [approval : Patches \cup {None}, live : BOOLEAN, generator : BOOLEAN]
  BY <1>1 DEF Turn
<1>3. Carried'
  BY DEF Typed, TypeOK, Carried, Turn, Resumes
<1> QED
  BY <1>2, <1>3 DEF Typed, TypeOK, Reviewable, Turn, Resumes, diskVars, historyVars,
     countVars, Phases

LEMMA TypedApply ==
  ASSUME Typed, Apply
  PROVE  Typed'
<1> DEFINE m == Moved(saved, "awaiting_live", saved.gap)
<1>1. saved.gap \in Gaps /\ saved.manifest \in Patches /\ saved.manifest.check \in Checks
      /\ saved.manifest.after \in Contents /\ saved.gap.check \in Checks
      /\ saved \in States
  BY DEF Typed, TypeOK, Carried, Reviewable, Apply, Patches, Gaps
<1>2. m \in States /\ m.status = "awaiting_live"
  BY <1>1 DEF Moved, States, Statuses
<1> HIDE DEF m
<1>3. mem' = [m EXCEPT !.application = saved.manifest, !.selection = saved.gap.check]
  BY DEF Apply, m
<1>4. mem' \in States /\ mem'.status = "awaiting_live"
  BY <1>1, <1>2, <1>3 DEF States
<1>5. BackedUp \subseteq [gap : Gaps, patch : Patches]
  BY <1>1 DEF BackedUp, Transaction
<1>6. TypeOK'
  BY <1>1, <1>4, <1>5 DEF Typed, TypeOK, Apply, Wrote, countVars, Phases
<1> QED
  BY <1>4, <1>6 DEF Typed, Reviewable, Carried, Apply, countVars

LEMMA TypedSaveApplied ==
  ASSUME Typed, SaveApplied
  PROVE  Typed'
<1>1. /\ saved' = mem /\ mem' = mem /\ mem.status = "awaiting_live"
      /\ UNCHANGED <<provider, backups, cut, unproven, orphans, edited, fullPass, stops, edits>>
  BY DEF Typed, Carried, SaveApplied, diskVars, historyVars, countVars
<1>2. /\ phase' \in {"live", "idle"}
      /\ report' \in {report, None} /\ args' \in {args, NoArgs}
  BY DEF SaveApplied, Ended
<1>3. NoArgs \in [approval : Patches \cup {None}, live : BOOLEAN, generator : BOOLEAN]
  BY DEF NoArgs
<1>4. TypeOK'
  BY <1>1, <1>2, <1>3 DEF Typed, TypeOK, Phases
<1> QED
  BY <1>1, <1>2, <1>4 DEF Typed, Reviewable, Carried

LEMMA TypedPasses ==
  ASSUME Typed, DomainPasses \/ TargetPasses
  PROVE  Typed'
<1> DEFINE status == IF mem.selection = None THEN "complete" ELSE "ready"
           m == Moved(mem, status, None)
<1>1. mem \in States /\ status \in {"complete", "ready"}
  BY DEF Typed, TypeOK
<1>2. mem' = [m EXCEPT !.attempts = 0, !.prints = {}]
  BY DEF DomainPasses, TargetPasses
<1> HIDE DEF status
<1>3. m \in States /\ m.status = status
  BY <1>1 DEF Moved, States, Statuses
<1> HIDE DEF m
<1>4. mem' \in States /\ mem'.status = status
  BY <1>2, <1>3 DEF States
<1>5. args' \in [approval : Patches \cup {None}, live : BOOLEAN, generator : BOOLEAN]
  BY DEF Typed, TypeOK, DomainPasses, TargetPasses
<1>6. /\ phase' \in Phases /\ report' \in Reports \cup {None} /\ fullPass' \in BOOLEAN
      /\ unproven' \subseteq Checks /\ orphans' \subseteq Checks
      /\ UNCHANGED <<provider, backups, saved, cut, edited, stops, edits>>
  BY DEF Typed, TypeOK, DomainPasses, TargetPasses, Phases, diskVars, countVars
<1>7. TypeOK'
  BY <1>4, <1>5, <1>6 DEF Typed, TypeOK
<1>8. phase' = "save" \/ (phase' = "prepare" /\ status = "ready")
  BY DEF DomainPasses, TargetPasses, status
<1> QED
  BY <1>1, <1>4, <1>6, <1>7, <1>8 DEF Typed, Reviewable, Carried

LEMMA TypedLiveFails ==
  ASSUME Typed, NEW failing \in SUBSET Selected, NEW prints \in SUBSET LivePrints,
         NEW clear \in BOOLEAN, LiveFails(failing, prints, clear)
  PROVE  Typed'
<1> DEFINE retryable == failing # {} /\ clear /\ failing \subseteq Editable
           r == Recorded(mem, prints, retryable, None)
<1>1. mem \in States /\ prints \in SUBSET Prints /\ retryable \in BOOLEAN
  BY DEF Typed, TypeOK, Prints
<1>2. mem' = [r EXCEPT !.application = mem.application]
  BY DEF LiveFails
<1> HIDE DEF retryable
<1>3. r \in States /\ r.status \in {"blocked", "ready"}
  BY <1>1, RecordedFields
<1> HIDE DEF r
<1>4. mem' \in States /\ mem'.status \in {"blocked", "ready"}
      /\ mem'.application = mem.application
  BY <1>1, <1>2, <1>3 DEF States
<1>5. failing \subseteq Checks
  BY <1>1 DEF Selected, States
<1>6. report' \in Reports
  BY <1>5 DEF LiveFails, Reports
<1>7. TypeOK'
  BY <1>4, <1>6 DEF Typed, TypeOK, LiveFails, AfterFailure, Phases, diskVars, historyVars,
     countVars
<1>8. mem.application \in Patches \cup {None}
  BY <1>1 DEF States
<1> QED
  BY <1>4, <1>6, <1>7, <1>8 DEF Typed, Reviewable, Carried, LiveFails, AfterFailure, diskVars

LEMMA TypedRollback ==
  ASSUME Typed, Rollback
  PROVE  Typed'
<1>1. mem' \in States /\ mem'.status = mem.status /\ mem.status \in {"ready", "blocked"}
  BY DEF Typed, TypeOK, Carried, Rollback, States
<1>2. mem.application \in Patches
  BY DEF Typed, Carried, Rollback
<1>3. TypeOK'
  BY <1>1, <1>2 DEF Typed, TypeOK, Rollback, Wrote, AfterFailure, Phases, countVars, Patches
<1> QED
  BY <1>1, <1>3 DEF Typed, Reviewable, Carried, Rollback, AfterFailure, countVars

\* A turn that stops has a state of its own to save.
LEMMA TypedStop ==
  ASSUME Typed, NEW state \in States, StopAt(state), Reviewable(state),
         UNCHANGED <<diskVars, saved, args, historyVars, countVars>>
  PROVE  Typed'
<1>1. mem' = state /\ phase' = "save" /\ report' = report
  BY DEF StopAt
<1>2. TypeOK'
  BY <1>1 DEF Typed, TypeOK, Phases, diskVars, historyVars, countVars
<1> QED
  BY <1>1, <1>2 DEF Typed, Reviewable, Carried

LEMMA TypedDecision ==
  ASSUME Typed, NEW gap \in Gaps, NotEditable(gap) \/ ContextRefused(gap) \/ NoGenerator(gap)
  PROVE  Typed'
<1>1. PICK status \in {"blocked", "awaiting_generator"} : StopAt(Moved(mem, status, gap))
  BY DEF NotEditable, ContextRefused, NoGenerator
<1>2. Moved(mem, status, gap) \in States /\ Moved(mem, status, gap).status = status
  BY DEF Typed, TypeOK, Moved, States, Statuses
<1> QED
  BY <1>1, <1>2, TypedStop DEF Reviewable, NotEditable, ContextRefused, NoGenerator

LEMMA TypedRequest ==
  ASSUME Typed, NEW gap \in Gaps, Request(gap)
  PROVE  Typed'
<1>1. mem' \in States /\ mem'.status = mem.status /\ mem'.gap = gap
  BY DEF Typed, TypeOK, Request, States
<1>2. report' \in Reports
  BY DEF Typed, TypeOK, Request, Rows, Reports
<1>3. mem.status \in {"ready", "awaiting_generator"}
  BY DEF Typed, Carried, Request
<1>4. TypeOK'
  BY <1>1, <1>2 DEF Typed, TypeOK, Request, Phases, diskVars, historyVars, countVars
<1> QED
  BY <1>1, <1>2, <1>3, <1>4 DEF Typed, Reviewable, Carried, Request

LEMMA TypedAllGreen ==
  ASSUME Typed, AllGreen
  PROVE  Typed'
<1>1. mem' \in States /\ mem'.status = "awaiting_live"
  BY DEF Typed, TypeOK, AllGreen, Moved, States, Statuses
<1>2. TypeOK'
  BY <1>1 DEF Typed, TypeOK, AllGreen, Phases, diskVars, historyVars, countVars
<1> QED
  BY <1>1, <1>2 DEF Typed, Reviewable, Carried, AllGreen

LEMMA TypedPropose ==
  ASSUME Typed, NEW content \in Candidates, Propose(content)
  PROVE  Typed'
<1> DEFINE patch == [check |-> mem.gap.check, before |-> provider[mem.gap.check],
                     after |-> content]
<1>1. /\ mem \in States /\ mem.gap \in Gaps /\ report \in Reports
      /\ mem.status \in {"ready", "awaiting_generator"}
  BY DEF Typed, TypeOK, Carried, Propose
<1>2. patch \in Patches /\ patch.check = mem.gap.check
  BY <1>1, TurnAssumption DEF Typed, TypeOK, Patches, Gaps
<1> HIDE DEF patch
<1>3. mem' = [mem EXCEPT !.patch = patch]
  BY DEF Propose, patch
<1>4. /\ mem' \in States /\ mem'.status = mem.status /\ mem'.gap = mem.gap
      /\ mem'.patch = patch
  BY <1>1, <1>2, <1>3 DEF States
<1>5. TypeOK'
  BY <1>4 DEF Typed, TypeOK, Propose, Phases, diskVars, historyVars, countVars
<1> QED
  BY <1>1, <1>2, <1>4, <1>5 DEF Typed, Reviewable, Carried, Propose

\* What the generator and the verification leave to be saved.
LEMMA TypedOutcome ==
  ASSUME Typed,
         Refuses \/ Verified \/ \E print \in StaticPrints : NotVerified(print)
  PROVE  Typed'
<1>1. mem \in States /\ mem.gap \in Gaps
  BY DEF Typed, TypeOK, Carried, Refuses, Verified, NotVerified
<1>2. CASE Refuses
  <2> DEFINE m == Moved(mem, "blocked", mem.gap)
             state == [m EXCEPT !.attempts = @ + 1]
  <2>1. m \in States /\ m.status = "blocked"
    BY <1>1 DEF Moved, States, Statuses
  <2> HIDE DEF m
  <2>2. state \in States /\ state.status = "blocked"
    BY <2>1 DEF States
  <2>3. StopAt(state)
    BY <1>2 DEF Refuses, m
  <2> HIDE DEF state
  <2> QED
    BY <1>2, <2>2, <2>3, TypedStop DEF Refuses, Reviewable
<1>3. CASE Verified
  <2> DEFINE m == Moved(mem, "awaiting_review", mem.gap)
             manifest == [mem.patch EXCEPT !.before = provider[mem.patch.check]]
             state == [m EXCEPT !.patch = mem.patch, !.manifest = manifest]
  <2>1. m \in States /\ m.status = "awaiting_review" /\ m.gap = mem.gap
    BY <1>1 DEF Moved, States, Statuses
  <2>2. mem.patch \in Patches /\ mem.patch.check = mem.gap.check
    BY <1>3 DEF Typed, Carried, Verified
  <2>3. /\ manifest \in Patches /\ manifest.check = mem.gap.check
        /\ manifest.after = mem.patch.after
    BY <2>2 DEF Typed, TypeOK, Patches
  <2> HIDE DEF m, manifest
  <2>4. /\ state \in States /\ state.gap = mem.gap
        /\ state.patch = mem.patch /\ state.manifest = manifest
    BY <2>1, <2>2, <2>3 DEF States
  <2>5. StopAt(state)
    BY <1>3 DEF Verified, m, manifest
  <2> HIDE DEF state
  <2>6. Reviewable(state)
    BY <1>1, <2>2, <2>3, <2>4 DEF Reviewable
  <2> QED
    BY <1>3, <2>4, <2>5, <2>6, TypedStop DEF Verified
<1>4. ASSUME NEW print \in StaticPrints, NotVerified(print)
      PROVE  Typed'
  <2> DEFINE prints == {print}
             state == Recorded(mem, prints, TRUE, mem.gap)
  <2>1. prints \in SUBSET Prints /\ TRUE \in BOOLEAN /\ mem.gap \in Gaps \cup {None}
    BY <1>1 DEF Prints
  <2> HIDE DEF prints
  <2>2. state \in States /\ state.status \in {"blocked", "ready"}
    BY <1>1, <2>1, RecordedFields
  <2>3. StopAt(state)
    BY <1>4 DEF NotVerified, prints
  <2> HIDE DEF state
  <2> QED
    BY <1>4, <2>2, <2>3, TypedStop DEF NotVerified, Reviewable
<1> QED
  BY <1>2, <1>3, <1>4

LEMMA TypedSave ==
  ASSUME Typed, Save
  PROVE  Typed'
<1>1. NoArgs \in [approval : Patches \cup {None}, live : BOOLEAN, generator : BOOLEAN]
  BY DEF NoArgs
<1>2. /\ saved' = mem /\ mem' = mem /\ phase' = "idle" /\ report' = None /\ args' = NoArgs
      /\ UNCHANGED <<provider, backups, cut, unproven, orphans, edited, fullPass, stops, edits>>
  BY DEF Save, Ended, diskVars, historyVars, countVars
<1>3. mem.status = "awaiting_review" =>
        mem.gap # None /\ mem.patch # None /\ mem.manifest # None
  BY TurnAssumption DEF Typed, Reviewable
<1>4. TypeOK'
  BY <1>1, <1>2, <1>3 DEF Typed, TypeOK, Phases
<1> QED
  BY <1>2, <1>4 DEF Typed, Reviewable, Carried

LEMMA TypedForgotten ==
  ASSUME Typed, ApplyRefused \/ ApplyFails \/ RollbackRefused \/ Identical \/ Stop
  PROVE  Typed'
<1>1. Forget /\ UNCHANGED <<provider, saved, cut, historyVars, edits>>
  BY DEF ApplyRefused, ApplyFails, RollbackRefused, Identical, Stop, diskVars, countVars
<1>2. stops' \in 0 .. MaxStops
  BY TurnAssumption DEF Typed, TypeOK, ApplyRefused, ApplyFails, RollbackRefused, Identical,
     Stop, countVars
<1>3. backups' \subseteq [gap : Gaps, patch : Patches]
  BY DEF Typed, TypeOK, Reviewable, Carried, BackedUp, Transaction, ApplyRefused, ApplyFails,
     RollbackRefused, Identical, Stop, diskVars
<1> QED
  BY <1>1, <1>2, <1>3, Forgotten DEF Typed, TypeOK

\* What is left of a state that was cut is a workflow at its beginning.
LEMMA InitialIsReady ==
  /\ InitialState \in States /\ InitialState.status = "ready"
  /\ InitialState.attempts = 0 /\ InitialState.prints = {}
  BY DEF InitialState, States, Statuses

LEMMA TypedCut ==
  ASSUME Typed, Cut \/ RemoveState
  PROVE  Typed'
<1>1. CASE Cut
  <2>1. /\ saved' = InitialState /\ mem' = InitialState /\ phase' = "idle" /\ cut' = TRUE
        /\ report' = None /\ args' = NoArgs /\ unproven' = {}
        /\ orphans' = orphans \cup unproven
        /\ UNCHANGED <<provider, backups, edited, fullPass, edits>>
    BY <1>1 DEF Cut, Ended
  <2>2. stops' \in 0 .. MaxStops
    BY <1>1, TurnAssumption DEF Cut, Typed, TypeOK
  <2>3. NoArgs \in [approval : Patches \cup {None}, live : BOOLEAN, generator : BOOLEAN]
    BY DEF NoArgs
  <2>4. TypeOK'
    BY <2>1, <2>2, <2>3, InitialIsReady DEF Typed, TypeOK, Phases
  <2> QED
    BY <2>1, <2>4, InitialIsReady DEF Typed, Reviewable, Carried
<1>2. CASE RemoveState
  <2>1. TypeOK'
    BY <1>2 DEF Typed, TypeOK, RemoveState, historyVars, countVars
  <2> QED
    BY <1>2, <2>1 DEF Typed, Reviewable, Carried, RemoveState
<1> QED
  BY <1>1, <1>2

LEMMA TypedEdit ==
  ASSUME Typed, NEW c \in Checks, NEW content \in Edits, IsvEdits(c, content)
  PROVE  Typed'
<1>1. provider' \in [Checks -> Contents] /\ edits' \in 0 .. MaxEdits
  BY TurnAssumption DEF Typed, TypeOK, IsvEdits
<1>2. TypeOK'
  BY <1>1 DEF Typed, TypeOK, IsvEdits
<1> QED
  BY <1>2 DEF Typed, Reviewable, Carried, IsvEdits

LEMMA TypedStep == Typed /\ [Next]_vars => Typed'
<1> SUFFICES ASSUME Typed, [Next]_vars PROVE Typed'
  OBVIOUS
<1>1. CASE UNCHANGED vars
  BY <1>1 DEF Typed, TypeOK, Reviewable, Carried, vars, diskVars, historyVars, countVars
<1>2. CASE LiveFailure
  BY <1>2, TypedLiveFails DEF LiveFailure
<1> QED
  BY <1>1, <1>2, Steps, TypedTurn, TypedApply, TypedSaveApplied, TypedPasses, TypedRollback,
     TypedDecision, TypedRequest, TypedAllGreen, TypedPropose, TypedOutcome, TypedSave,
     TypedForgotten, TypedCut, TypedEdit

\* The type invariant, for any number of checks, contents and fingerprints.
THEOREM TypeCorrect == Spec => []TypeOK
<1>1. Typed => TypeOK
  BY DEF Typed
<1> QED
  BY <1>1, TypedInit, TypedStep, PTL DEF Spec

-----------------------------------------------------------------------------
(* What a turn does to the provider.                                       *)

\* Only an application, a rollback and the ISV change a file.
LEMMA OtherStepsWriteNothing ==
  ASSUME [Next]_vars
  PROVE  \/ Apply \/ Rollback \/ provider' = provider
         \/ \E c \in Checks, content \in Edits : IsvEdits(c, content)
  BY Steps
     DEF Turn, ApplyRefused, ApplyFails, SaveApplied, DomainPasses, TargetPasses, LiveFailure,
         LiveFails, RollbackRefused, AllGreen, NotEditable, ContextRefused, NoGenerator,
         Request, Refuses, Propose, Verified, NotVerified, Identical, Save, Stop, Cut,
         RemoveState, vars, diskVars

\* A turn writes nothing but the change that was approved, over the content
\* the verification saw, and the exact inverse of a recorded application.
THEOREM WritesAreApproved == Spec => OnlyApprovedOrRestored
<1> DEFINE Step == \A c \in Checks : provider'[c] # provider[c] /\ edits' = edits =>
       \/ /\ args.approval \in Patches
          /\ args.approval.check = c /\ args.approval.after = provider'[c]
          /\ saved.manifest = [check |-> c, before |-> provider[c], after |-> provider'[c]]
       \/ mem.application = [check |-> c, before |-> provider'[c], after |-> provider[c]]
<1>1. ASSUME Typed, [Next]_vars PROVE [Step]_vars
  <2> SUFFICES ASSUME NEW c \in Checks, provider'[c] # provider[c], edits' = edits
               PROVE  \/ /\ args.approval \in Patches
                         /\ args.approval.check = c /\ args.approval.after = provider'[c]
                         /\ saved.manifest
                              = [check |-> c, before |-> provider[c], after |-> provider'[c]]
                      \/ mem.application
                           = [check |-> c, before |-> provider'[c], after |-> provider[c]]
    OBVIOUS
  <2>1. CASE Apply
    <3>1. /\ saved.manifest \in Patches /\ saved.patch \in Patches
          /\ args.approval = saved.patch
          /\ saved.patch.check = saved.manifest.check
          /\ saved.patch.after = saved.manifest.after
      BY <1>1, <2>1 DEF Typed, Carried, Reviewable, Apply
    <3>2. /\ provider' = [provider EXCEPT ![saved.manifest.check] = saved.manifest.after]
          /\ provider[saved.manifest.check] = saved.manifest.before
      BY <2>1 DEF Apply, CanApply, Wrote
    <3>3. c = saved.manifest.check /\ provider'[c] = saved.manifest.after
      BY <1>1, <3>2 DEF Typed, TypeOK
    <3> QED
      BY <3>1, <3>2, <3>3 DEF Patches
  <2>2. CASE Rollback
    <3>1. mem.application \in Patches
      BY <1>1, <2>2 DEF Typed, Carried, Rollback
    <3>2. /\ provider' = [provider EXCEPT ![mem.application.check] = mem.application.before]
          /\ provider[mem.application.check] = mem.application.after
      BY <2>2 DEF Rollback, Wrote
    <3>3. c = mem.application.check /\ provider'[c] = mem.application.before
      BY <1>1, <3>2 DEF Typed, TypeOK
    <3> QED
      BY <3>1, <3>2, <3>3 DEF Patches
  <2>3. CASE \E d \in Checks, content \in Edits : IsvEdits(d, content)
    BY <1>1, <2>3 DEF IsvEdits, Typed, TypeOK
  <2> QED
    BY <1>1, <2>1, <2>2, <2>3, OtherStepsWriteNothing
<1> QED
  BY <1>1, TypedInit, TypedStep, PTL DEF Spec, OnlyApprovedOrRestored

-----------------------------------------------------------------------------
(* What a retry costs.                                                     *)

\* A state that may go on has a new failure for every attempt.
Budgeted(s) ==
  s.status \notin Stopped =>
    /\ s.attempts <= Cardinality(s.prints)
    /\ s.attempts < MaxAttempts
    /\ Cardinality(s.prints) < MaxFailureGroups

LEMMA FewPrints ==
  ASSUME NEW prints \in SUBSET Prints
  PROVE  IsFiniteSet(prints) /\ Cardinality(prints) \in Nat
  BY TurnAssumption, FS_Subset, FS_CardinalityType

\* Fingerprints none of which is known make the set larger.
LEMMA NewPrintsCount ==
  ASSUME NEW known \in SUBSET Prints, NEW prints \in SUBSET Prints,
         prints # {}, prints \cap known = {}
  PROVE  Cardinality(known) + 1 <= Cardinality(known \cup prints)
<1>1. PICK print \in prints : print \notin known
  OBVIOUS
<1>2. Cardinality(known \cup {print}) = Cardinality(known) + 1
  BY <1>1, FewPrints, FS_AddElement
<1>3. IsFiniteSet(known \cup prints) /\ known \cup {print} \subseteq known \cup prints
  BY <1>1, FewPrints
<1>4. Cardinality(known \cup {print}) <= Cardinality(known \cup prints)
  BY <1>3, FS_Subset
<1> QED
  BY <1>2, <1>4

LEMMA BudgetedRecorded ==
  ASSUME NEW s \in States, s.status \notin Stopped, Budgeted(s),
         NEW prints \in SUBSET Prints, prints # {}, NEW retryable \in BOOLEAN,
         NEW retryGap \in Gaps \cup {None}
  PROVE  Budgeted(Recorded(s, prints, retryable, retryGap))
<1> DEFINE r == Recorded(s, prints, retryable, retryGap)
           all == s.prints \cup prints
<1>1. /\ r.status = (IF Parks(s, prints, retryable) THEN "blocked" ELSE "ready")
      /\ r.attempts = s.attempts + 1 /\ r.prints = all
  BY RecordedFields
<1>2. s.attempts \in Nat /\ s.prints \in SUBSET Prints /\ all \in SUBSET Prints
  BY DEF States
<1>3. s.attempts <= Cardinality(s.prints)
  BY DEF Budgeted
<1>4. Cardinality(s.prints) \in Nat /\ Cardinality(all) \in Nat
  BY <1>2, FewPrints
<1> HIDE DEF r
<1>5. CASE Parks(s, prints, retryable)
  BY <1>1, <1>5 DEF Budgeted, Stopped, r
<1>6. CASE ~Parks(s, prints, retryable)
  <2>1. /\ prints \cap s.prints = {}
        /\ ~(Cardinality(all) >= MaxFailureGroups)
        /\ ~(s.attempts + 1 >= MaxAttempts)
    BY <1>6 DEF Parks
  <2>2. Cardinality(s.prints) + 1 <= Cardinality(all)
    BY <1>2, <2>1, NewPrintsCount
  <2>3. MaxAttempts \in Nat /\ MaxFailureGroups \in Nat
    BY TurnAssumption
  <2>4. /\ s.attempts + 1 <= Cardinality(all) /\ s.attempts + 1 < MaxAttempts
        /\ Cardinality(all) < MaxFailureGroups
    BY <1>2, <1>3, <1>4, <2>1, <2>2, <2>3
  <2> QED
    BY <1>1, <2>4 DEF Budgeted, r
<1> QED
  BY <1>5, <1>6 DEF r

\* A state whose budgets were reset has them all.
LEMMA BudgetedReset ==
  ASSUME NEW s, s.attempts = 0, s.prints = {}
  PROVE  Budgeted(s)
  BY TurnAssumption, FS_EmptySet DEF Budgeted

Budgets == Budgeted(saved) /\ Budgeted(mem)

\* Budgets depend on the counters, which only outcomes change.
LEMMA BudgetedSame ==
  ASSUME NEW s, NEW t, Budgeted(s), s.status \notin Stopped \/ t.status = s.status,
         t.attempts = s.attempts, t.prints = s.prints
  PROVE  Budgeted(t)
  BY DEF Budgeted

LEMMA BudgetsApply ==
  ASSUME Typed, Budgets, Apply
  PROVE  Budgets'
<1> DEFINE m == Moved(saved, "awaiting_live", saved.gap)
<1>1. saved \in States /\ saved.status \notin Stopped
  BY DEF Typed, TypeOK, Carried, Apply, Stopped
<1>2. m \in States /\ m.attempts = saved.attempts /\ m.prints = saved.prints
  BY <1>1 DEF Moved, States, Statuses
<1> HIDE DEF m
<1>3. mem' = [m EXCEPT !.application = saved.manifest, !.selection = saved.gap.check]
  BY DEF Apply, m
<1>4. mem'.attempts = saved.attempts /\ mem'.prints = saved.prints
  BY <1>2, <1>3 DEF States
<1> QED
  BY <1>1, <1>4, BudgetedSame DEF Budgets, Apply

LEMMA BudgetsPasses ==
  ASSUME Typed, Budgets, DomainPasses \/ TargetPasses
  PROVE  Budgets'
<1> DEFINE status == IF mem.selection = None THEN "complete" ELSE "ready"
           m == Moved(mem, status, None)
<1>1. mem \in States /\ status \in {"complete", "ready"}
  BY DEF Typed, TypeOK
<1>2. mem' = [m EXCEPT !.attempts = 0, !.prints = {}]
  BY DEF DomainPasses, TargetPasses
<1> HIDE DEF status
<1>3. m \in States
  BY <1>1 DEF Moved, States, Statuses
<1> HIDE DEF m
<1>4. mem'.attempts = 0 /\ mem'.prints = {}
  BY <1>2, <1>3 DEF States
<1>5. saved' = saved
  BY DEF DomainPasses, TargetPasses
<1> QED
  BY <1>4, <1>5, BudgetedReset DEF Budgets

LEMMA BudgetsLiveFails ==
  ASSUME Typed, Budgets, NEW failing \in SUBSET Selected, NEW prints \in SUBSET LivePrints,
         prints # {}, NEW clear \in BOOLEAN, LiveFails(failing, prints, clear)
  PROVE  Budgets'
<1> DEFINE retryable == failing # {} /\ clear /\ failing \subseteq Editable
           r == Recorded(mem, prints, retryable, None)
<1>1. /\ mem \in States /\ prints \in SUBSET Prints /\ retryable \in BOOLEAN
      /\ mem.status \notin Stopped /\ Budgeted(mem)
  BY DEF Typed, TypeOK, Prints, Carried, LiveFails, Stopped, Budgets
<1>2. mem' = [r EXCEPT !.application = mem.application] /\ saved' = saved
  BY DEF LiveFails
<1> HIDE DEF retryable
<1>3. r \in States /\ Budgeted(r)
  BY <1>1, RecordedFields, BudgetedRecorded
<1> HIDE DEF r
<1>4. mem'.status = r.status /\ mem'.attempts = r.attempts /\ mem'.prints = r.prints
  BY <1>2, <1>3 DEF States
<1> QED
  BY <1>2, <1>3, <1>4, BudgetedSame DEF Budgets

\* The steps that carry the counters on, or stop for good.
LEMMA BudgetsPrepare ==
  ASSUME Typed, Budgets,
         \/ AllGreen \/ Refuses \/ Verified \/ Rollback
         \/ \E gap \in Gaps : NotEditable(gap) \/ ContextRefused(gap) \/ NoGenerator(gap)
         \/ \E gap \in Gaps : Request(gap)
         \/ \E content \in Candidates : Propose(content)
  PROVE  Budgets'
<1>1. mem \in States /\ saved' = saved
  BY DEF Typed, TypeOK, AllGreen, Refuses, Verified, Rollback, NotEditable, ContextRefused,
     NoGenerator, Request, Propose
<1>2. Rollback \/ mem.status \notin Stopped
  BY DEF Typed, Carried, Stopped, AllGreen, Refuses, Verified, NotEditable, ContextRefused,
     NoGenerator, Request, Propose
<1>3. CASE Refuses
  <2> DEFINE m == Moved(mem, "blocked", mem.gap)
  <2>1. m \in States /\ m.status = "blocked"
    BY <1>1 DEF Moved, States, Statuses
  <2> HIDE DEF m
  <2>2. mem' = [m EXCEPT !.attempts = @ + 1]
    BY <1>3 DEF Refuses, StopAt, m
  <2>3. mem'.status = "blocked"
    BY <2>1, <2>2 DEF States
  <2> QED
    BY <1>1, <2>3 DEF Budgets, Budgeted, Stopped
<1>4. CASE Rollback
  <2>1. mem'.status = mem.status /\ mem'.attempts = mem.attempts /\ mem'.prints = mem.prints
    BY <1>1, <1>4 DEF Rollback, States
  <2> QED
    BY <1>1, <2>1, BudgetedSame DEF Budgets
<1>5. ASSUME mem'.attempts = mem.attempts, mem'.prints = mem.prints, ~Rollback
      PROVE  Budgets'
  BY <1>1, <1>2, <1>5, BudgetedSame DEF Budgets
<1>6. CASE AllGreen
  <2>1. mem'.attempts = mem.attempts /\ mem'.prints = mem.prints
    BY <1>1, <1>6 DEF AllGreen, Moved, States
  <2> QED
    BY <1>4, <1>5, <2>1
<1>7. CASE Verified
  <2> DEFINE m == Moved(mem, "awaiting_review", mem.gap)
             manifest == [mem.patch EXCEPT !.before = provider[mem.patch.check]]
  <2>1. m \in States /\ m.attempts = mem.attempts /\ m.prints = mem.prints
    BY <1>1 DEF Moved, States, Statuses
  <2>2. mem' = [m EXCEPT !.patch = mem.patch, !.manifest = manifest]
    BY <1>7 DEF Verified, StopAt
  <2> HIDE DEF m, manifest
  <2>3. mem'.attempts = mem.attempts /\ mem'.prints = mem.prints
    BY <2>1, <2>2 DEF States
  <2> QED
    BY <1>4, <1>5, <2>3
<1>8. CASE \E gap \in Gaps : NotEditable(gap) \/ ContextRefused(gap) \/ NoGenerator(gap)
  <2>1. PICK gap \in Gaps, status \in {"blocked", "awaiting_generator"} :
          mem' = Moved(mem, status, gap)
    BY <1>8 DEF NotEditable, ContextRefused, NoGenerator, StopAt
  <2>2. mem'.attempts = mem.attempts /\ mem'.prints = mem.prints
    BY <1>1, <2>1 DEF Moved, States
  <2> QED
    BY <1>4, <1>5, <2>2
<1>9. CASE \/ \E gap \in Gaps : Request(gap)
           \/ \E content \in Candidates : Propose(content)
  <2>1. mem'.attempts = mem.attempts /\ mem'.prints = mem.prints
    BY <1>1, <1>9 DEF Request, Propose, States
  <2> QED
    BY <1>4, <1>5, <2>1
<1> QED
  BY <1>3, <1>4, <1>6, <1>7, <1>8, <1>9

LEMMA BudgetsNotVerified ==
  ASSUME Typed, Budgets, NEW print \in StaticPrints, NotVerified(print)
  PROVE  Budgets'
<1> DEFINE prints == {print}
<1>1. /\ mem \in States /\ mem.status \notin Stopped /\ Budgeted(mem)
      /\ mem.gap \in Gaps \cup {None}
      /\ prints \in SUBSET Prints /\ prints # {} /\ TRUE \in BOOLEAN
  BY DEF Typed, TypeOK, Carried, NotVerified, Stopped, Budgets, Prints, States
<1>2. mem' = Recorded(mem, prints, TRUE, mem.gap) /\ saved' = saved
  BY DEF NotVerified, StopAt
<1> HIDE DEF prints
<1>3. Budgeted(Recorded(mem, prints, TRUE, mem.gap))
  BY <1>1, BudgetedRecorded
<1> QED
  BY <1>2, <1>3 DEF Budgets

\* The other steps only pass a state on: between turn and file, or back.
LEMMA BudgetsPassedOn ==
  ASSUME Budgets, mem' \in {mem, saved}, saved' \in {mem, saved}
  PROVE  Budgets'
  BY DEF Budgets

LEMMA BudgetsStep ==
  ASSUME Typed, Budgets, [Next]_vars
  PROVE  Budgets'
<1>1. CASE LiveFailure
  <2>1. PICK failing \in SUBSET Selected, prints \in SUBSET LivePrints, clear \in BOOLEAN :
          /\ \/ Cardinality(prints) \in 1 .. Cardinality(failing)
             \/ failing = {} /\ Cardinality(prints) = 1
          /\ LiveFails(failing, prints, clear)
    BY <1>1 DEF LiveFailure
  <2>2. prints # {}
    BY <2>1, FS_EmptySet
  <2> QED
    BY <2>1, <2>2, BudgetsLiveFails
<1>2. CASE \/ \E approval \in {saved.patch, None}, live, generator \in BOOLEAN :
                Turn(approval, live, generator)
           \/ ApplyRefused \/ ApplyFails \/ SaveApplied \/ RollbackRefused \/ Identical
           \/ Save \/ Stop
           \/ \E c \in Checks, content \in Edits : IsvEdits(c, content)
           \/ UNCHANGED vars
  BY <1>2, BudgetsPassedOn
     DEF Turn, ApplyRefused, ApplyFails, SaveApplied, RollbackRefused, Identical, Save, Stop,
         IsvEdits, Forget, Ended, vars
<1>3. CASE Cut
  BY <1>3, InitialIsReady, BudgetedReset DEF Cut, Budgets
<1>4. CASE RemoveState
  BY <1>4, BudgetsPassedOn DEF RemoveState
<1> QED
  BY <1>1, <1>2, <1>3, <1>4, Steps, BudgetsApply, BudgetsPasses, BudgetsPrepare, BudgetsNotVerified

\* For any number of checks and fingerprints, a workflow that may go on has
\* seen a new failure for every attempt, and has both budgets left.
THEOREM RetriesNeedNewFailures == Spec => []EveryRetryHasANewFailure
<1>1. Init => Budgets
  <2> SUFFICES ASSUME Init PROVE Budgets
    OBVIOUS
  <2>1. saved.attempts = 0 /\ saved.prints = {} /\ mem.attempts = 0 /\ mem.prints = {}
    BY DEF Init, InitialState
  <2> QED
    BY <2>1, BudgetedReset DEF Budgets
<1>2. Budgets => EveryRetryHasANewFailure
  BY DEF Budgets, Budgeted, EveryRetryHasANewFailure
<1>3. Typed /\ Budgets /\ [Next]_vars => Budgets'
  BY BudgetsStep
<1> QED
  BY <1>1, <1>2, <1>3, TypedInit, TypedStep, PTL DEF Spec

-----------------------------------------------------------------------------
(* What the steps do to the state a turn carries.                          *)

LEMMA ApplyEffect ==
  ASSUME Typed, Apply
  PROVE  /\ saved.status = "awaiting_review" /\ saved' = saved
         /\ saved.manifest \in Patches /\ saved.patch.check = saved.manifest.check
         /\ mem'.status = "awaiting_live" /\ mem'.application = saved.manifest
         /\ mem'.selection = saved.patch.check /\ mem'.selection \in Checks
<1> DEFINE m == Moved(saved, "awaiting_live", saved.gap)
<1>1. /\ saved.gap \in Gaps /\ saved.gap.check \in Checks /\ saved \in States
      /\ saved.manifest \in Patches /\ saved.status = "awaiting_review"
      /\ saved.patch.check = saved.gap.check /\ saved.manifest.check = saved.gap.check
  BY DEF Typed, TypeOK, Carried, Reviewable, Apply, Gaps
<1>2. m \in States /\ m.status = "awaiting_live"
  BY <1>1 DEF Moved, States, Statuses
<1> HIDE DEF m
<1>3. mem' = [m EXCEPT !.application = saved.manifest, !.selection = saved.gap.check]
  BY DEF Apply, m
<1>4. /\ mem'.status = "awaiting_live" /\ mem'.application = saved.manifest
      /\ mem'.selection = saved.gap.check
  BY <1>2, <1>3 DEF States
<1> QED
  BY <1>1, <1>4 DEF Apply

LEMMA PassesEffect ==
  ASSUME Typed, DomainPasses \/ TargetPasses
  PROVE  mem'.status = (IF mem.selection = None THEN "complete" ELSE "ready")
<1> DEFINE status == IF mem.selection = None THEN "complete" ELSE "ready"
           m == Moved(mem, status, None)
<1>1. mem \in States /\ status \in {"complete", "ready"}
  BY DEF Typed, TypeOK
<1>2. mem' = [m EXCEPT !.attempts = 0, !.prints = {}]
  BY DEF DomainPasses, TargetPasses
<1> HIDE DEF status
<1>3. m \in States /\ m.status = status
  BY <1>1 DEF Moved, States, Statuses
<1> HIDE DEF m
<1>4. mem'.status = status
  BY <1>2, <1>3 DEF States
<1> QED
  BY <1>4 DEF status

LEMMA LiveFailsEffect ==
  ASSUME Typed, NEW failing \in SUBSET Selected, NEW prints \in SUBSET LivePrints,
         NEW clear \in BOOLEAN, LiveFails(failing, prints, clear)
  PROVE  /\ mem'.status \in {"ready", "blocked"}
         /\ mem'.status = "ready" => failing # {}
         /\ mem'.application = mem.application
<1> DEFINE retryable == failing # {} /\ clear /\ failing \subseteq Editable
           r == Recorded(mem, prints, retryable, None)
<1>1. mem \in States /\ prints \in SUBSET Prints /\ retryable \in BOOLEAN
  BY DEF Typed, TypeOK, Prints
<1>2. mem' = [r EXCEPT !.application = mem.application]
  BY DEF LiveFails
<1>3. Parks(mem, prints, retryable) \/ failing # {}
  BY DEF Parks
<1> HIDE DEF retryable
<1>4. r \in States /\ r.status = (IF Parks(mem, prints, retryable) THEN "blocked" ELSE "ready")
  BY <1>1, RecordedFields
<1> HIDE DEF r
<1>5. mem'.status = r.status /\ mem'.application = mem.application
  BY <1>2, <1>4 DEF States
<1> QED
  BY <1>3, <1>4, <1>5

LEMMA AllGreenEffect ==
  ASSUME Typed, AllGreen
  PROVE  mem'.status = "awaiting_live" /\ mem'.application = None /\ mem'.selection = None
  BY DEF Typed, TypeOK, AllGreen, Moved, States, Statuses

\* The steps that look for the next change and never reach the live run.
Preparing ==
  \/ \E gap \in Gaps : NotEditable(gap) \/ ContextRefused(gap) \/ NoGenerator(gap)
  \/ \E gap \in Gaps : Request(gap)
  \/ Refuses
  \/ \E content \in Candidates : Propose(content)
  \/ Verified
  \/ \E print \in StaticPrints : NotVerified(print)

LEMMA PreparingEffect ==
  ASSUME Typed, Preparing
  PROVE  /\ mem'.status \notin {"awaiting_live", "complete"}
         /\ phase \in {"prepare", "generate", "verify"}
         /\ phase' \in {"generate", "verify", "save"}
         /\ UNCHANGED <<provider, saved, unproven, edited, fullPass>>
<1>1. /\ phase \in {"prepare", "generate", "verify"}
      /\ phase' \in {"generate", "verify", "save"}
      /\ UNCHANGED <<provider, saved, unproven, edited, fullPass>>
  BY DEF Preparing, NotEditable, ContextRefused, NoGenerator, Request, Refuses, Propose,
     Verified, NotVerified, StopAt, diskVars, historyVars
<1>2. mem \in States /\ mem.status \in {"ready", "awaiting_generator"}
  BY <1>1 DEF Typed, TypeOK, Carried
<1>3. CASE \E gap \in Gaps : NotEditable(gap) \/ ContextRefused(gap) \/ NoGenerator(gap)
  <2>1. PICK gap \in Gaps, status \in {"blocked", "awaiting_generator"} :
          mem' = Moved(mem, status, gap)
    BY <1>3 DEF NotEditable, ContextRefused, NoGenerator, StopAt
  <2> QED
    BY <1>1, <1>2, <2>1 DEF Moved, States
<1>4. CASE \/ \E gap \in Gaps : Request(gap)
           \/ \E content \in Candidates : Propose(content)
  <2>1. mem'.status = mem.status
    BY <1>2, <1>4 DEF Request, Propose, States
  <2> QED
    BY <1>1, <1>2, <2>1
<1>5. CASE Refuses
  <2> DEFINE m == Moved(mem, "blocked", mem.gap)
  <2>1. m \in States /\ m.status = "blocked"
    BY <1>2 DEF Moved, States, Statuses
  <2> HIDE DEF m
  <2>2. mem' = [m EXCEPT !.attempts = @ + 1]
    BY <1>5 DEF Refuses, StopAt, m
  <2>3. mem'.status = "blocked"
    BY <2>1, <2>2 DEF States
  <2> QED
    BY <1>1, <2>3
<1>6. CASE Verified
  <2> DEFINE m == Moved(mem, "awaiting_review", mem.gap)
             manifest == [mem.patch EXCEPT !.before = provider[mem.patch.check]]
  <2>1. m \in States /\ m.status = "awaiting_review"
    BY <1>2 DEF Moved, States, Statuses
  <2>2. mem' = [m EXCEPT !.patch = mem.patch, !.manifest = manifest]
    BY <1>6 DEF Verified, StopAt
  <2> HIDE DEF m, manifest
  <2>3. mem'.status = "awaiting_review"
    BY <2>1, <2>2 DEF States
  <2> QED
    BY <1>1, <2>3
<1>7. ASSUME NEW print \in StaticPrints, NotVerified(print)
      PROVE  mem'.status \notin {"awaiting_live", "complete"}
  <2> DEFINE prints == {print}
  <2>1. /\ mem.gap \in Gaps \cup {None} /\ prints \in SUBSET Prints /\ TRUE \in BOOLEAN
    BY <1>2 DEF Prints, States
  <2>2. mem' = Recorded(mem, prints, TRUE, mem.gap)
    BY <1>7 DEF NotVerified, StopAt
  <2> HIDE DEF prints
  <2>3. mem'.status \in {"blocked", "ready"}
    BY <1>2, <2>1, <2>2, RecordedFields
  <2> QED
    BY <2>3
<1> QED
  BY <1>1, <1>3, <1>4, <1>5, <1>6, <1>7 DEF Preparing

\* The steps after which a turn carries the saved state, or nothing.
Leaving == ApplyRefused \/ ApplyFails \/ RollbackRefused \/ Identical \/ Stop

LEMMA LeavingEffect ==
  ASSUME Leaving
  PROVE  /\ phase' = "idle" /\ mem' = saved /\ report' = None
         /\ UNCHANGED <<provider, saved, unproven, edited, fullPass>>
  BY DEF Leaving, ApplyRefused, ApplyFails, RollbackRefused, Identical, Stop, Forget, Ended,
     diskVars, historyVars

LEMMA StepsByEffect ==
  ASSUME [Next]_vars
  PROVE  \/ \E approval \in {saved.patch, None}, live, generator \in BOOLEAN :
              Turn(approval, live, generator)
         \/ Apply \/ SaveApplied \/ DomainPasses \/ TargetPasses \/ LiveFailure \/ Rollback
         \/ AllGreen \/ Preparing \/ Save \/ Leaving \/ Cut \/ RemoveState
         \/ \E c \in Checks, content \in Edits : IsvEdits(c, content)
         \/ UNCHANGED vars
  BY Steps DEF Preparing, Leaving

-----------------------------------------------------------------------------
(* What outlives a failed change.                                          *)

\* A state that awaits a live run selects the check of the change that was
\* applied, or the whole domain.
Targeted(s) ==
  s.status = "awaiting_live" =>
    \/ s.application = None /\ s.selection = None
    \/ s.application # None /\ s.selection = s.application.check

\* Before a turn prepares another change, the last one has passed or is gone.
UnprovenInv ==
  /\ Targeted(saved) /\ Targeted(mem)
  /\ unproven # {} =>
       \/ saved.status = "awaiting_review" /\ unproven = {saved.patch.check}
       \/ saved.status = "awaiting_live" /\ unproven = {saved.selection}
  /\ phase = "saveApplied" => mem.selection = saved.patch.check
  /\ phase = "live" => unproven \subseteq {mem.selection}
  /\ phase = "rollback" => unproven \subseteq {mem.application.check}
  /\ phase \in {"prepare", "generate", "verify", "save"} => unproven = {}

LEMMA UnprovenApply ==
  ASSUME Typed, UnprovenInv, Apply
  PROVE  UnprovenInv'
<1>1. unproven' = unproven \cup {saved.manifest.check} /\ phase' = "saveApplied"
  BY DEF Apply
<1>2. unproven' = {saved.patch.check}
  BY <1>1, ApplyEffect DEF UnprovenInv
<1>3. Targeted(mem)'
  BY ApplyEffect, TurnAssumption DEF Targeted
<1> QED
  BY <1>1, <1>2, <1>3, ApplyEffect DEF UnprovenInv, Targeted

LEMMA UnprovenPasses ==
  ASSUME Typed, UnprovenInv, DomainPasses \/ TargetPasses
  PROVE  UnprovenInv'
<1>1. unproven' = {}
  BY DEF UnprovenInv, DomainPasses, TargetPasses
<1>2. phase' \in {"save", "prepare"} /\ saved' = saved
  BY DEF DomainPasses, TargetPasses
<1> QED
  BY <1>1, <1>2, PassesEffect DEF UnprovenInv, Targeted

LEMMA UnprovenLiveFails ==
  ASSUME Typed, UnprovenInv, LiveFailure
  PROVE  UnprovenInv'
<1>1. PICK failing \in SUBSET Selected, prints \in SUBSET LivePrints, clear \in BOOLEAN :
        LiveFails(failing, prints, clear)
  BY DEF LiveFailure
<1>2. /\ mem'.status \in {"ready", "blocked"} /\ mem'.application = mem.application
  BY <1>1, LiveFailsEffect
<1>3. /\ unproven' = unproven /\ saved' = saved /\ unproven \subseteq Checks
      /\ unproven \subseteq {mem.selection}
      /\ mem.status = "awaiting_live"
      /\ phase' = IF mem.application = None THEN AfterFailure ELSE "rollback"
  BY <1>1 DEF LiveFails, historyVars, Typed, TypeOK, UnprovenInv, Carried
<1>4. AfterFailure \in {"save", "prepare"}
  BY DEF AfterFailure
<1>5. CASE mem.application = None
  <2>1. unproven = {}
    BY <1>3, <1>5, TurnAssumption DEF UnprovenInv, Targeted
  <2> QED
    BY <1>2, <1>3, <1>4, <1>5, <2>1 DEF UnprovenInv, Targeted
<1>6. CASE mem.application # None
  <2>1. unproven \subseteq {mem.application.check}
    BY <1>3, <1>6 DEF UnprovenInv, Targeted
  <2> QED
    BY <1>2, <1>3, <1>6, <2>1 DEF UnprovenInv, Targeted
<1> QED
  BY <1>5, <1>6

LEMMA UnprovenRollback ==
  ASSUME Typed, UnprovenInv, Rollback
  PROVE  UnprovenInv'
<1>1. unproven' = {} /\ saved' = saved /\ phase' \in {"save", "prepare"}
  BY DEF UnprovenInv, Rollback, AfterFailure
<1>2. mem'.status = mem.status /\ mem.status \in {"ready", "blocked"}
  BY DEF Typed, TypeOK, Carried, Rollback, States
<1> QED
  BY <1>1, <1>2 DEF UnprovenInv, Targeted

LEMMA UnprovenTurn ==
  ASSUME Typed, UnprovenInv, NEW approval \in {saved.patch, None}, NEW live \in BOOLEAN,
         NEW generator \in BOOLEAN, Turn(approval, live, generator)
  PROVE  UnprovenInv'
<1>1. mem' = saved /\ saved' = saved /\ unproven' = unproven
  BY DEF Turn, historyVars
<1>2. \/ saved.status \in {"ready", "awaiting_generator"} /\ phase' = "prepare"
      \/ saved.status = "awaiting_review" /\ phase' = "apply"
      \/ saved.status = "awaiting_live" /\ phase' = "live"
  BY DEF Turn, Resumes
<1> QED
  BY <1>1, <1>2 DEF UnprovenInv, Targeted

LEMMA UnprovenSaved ==
  ASSUME Typed, UnprovenInv, SaveApplied \/ Save
  PROVE  UnprovenInv'
<1>1. mem' = mem /\ saved' = mem /\ unproven' = unproven
  BY DEF SaveApplied, Save, historyVars
<1>2. CASE SaveApplied
  <2>1. mem.status = "awaiting_live" /\ mem.selection = saved.patch.check
        /\ saved.status = "awaiting_review" /\ phase' \in {"live", "idle"}
    BY <1>2 DEF Typed, Carried, UnprovenInv, SaveApplied, Ended
  <2>2. unproven \subseteq {mem.selection}
    BY <2>1 DEF UnprovenInv
  <2> QED
    BY <1>1, <2>1, <2>2 DEF UnprovenInv
<1>3. CASE Save
  <2>1. unproven = {} /\ phase' = "idle"
    BY <1>3 DEF UnprovenInv, Save, Ended
  <2> QED
    BY <1>1, <2>1 DEF UnprovenInv
<1> QED
  BY <1>2, <1>3

LEMMA UnprovenEdit ==
  ASSUME UnprovenInv, NEW c \in Checks, NEW content \in Edits, IsvEdits(c, content)
  PROVE  UnprovenInv'
<1>1. unproven' \subseteq unproven /\ UNCHANGED <<saved, mem, phase>>
  BY DEF IsvEdits
<1> QED
  BY <1>1 DEF UnprovenInv, Targeted

LEMMA UnprovenStep == Typed /\ UnprovenInv /\ [Next]_vars => UnprovenInv'
<1> SUFFICES ASSUME Typed, UnprovenInv, [Next]_vars PROVE UnprovenInv'
  OBVIOUS
<1>1. CASE AllGreen
  <2>1. unproven' = {} /\ saved' = saved /\ phase' \in {"live", "save"}
    BY <1>1 DEF UnprovenInv, AllGreen, historyVars
  <2> QED
    BY <1>1, <2>1, AllGreenEffect DEF UnprovenInv, Targeted
<1>2. CASE Preparing
  <2>1. unproven = {}
    BY <1>2, PreparingEffect DEF UnprovenInv
  <2> QED
    BY <1>2, <2>1, PreparingEffect DEF UnprovenInv, Targeted
<1>3. CASE Leaving
  BY <1>3, LeavingEffect DEF UnprovenInv, Targeted
<1>4. CASE UNCHANGED vars
  BY <1>4 DEF UnprovenInv, Targeted, vars, historyVars
<1>5. CASE Cut
  BY <1>5, InitialIsReady DEF Cut, Ended, UnprovenInv, Targeted
<1>6. CASE RemoveState
  BY <1>6 DEF RemoveState, UnprovenInv, Targeted, historyVars
<1> QED
  BY <1>1, <1>2, <1>3, <1>4, <1>5, <1>6, StepsByEffect, UnprovenTurn, UnprovenApply, UnprovenSaved,
     UnprovenPasses, UnprovenLiveFails, UnprovenRollback, UnprovenEdit

\* A cut orphans the change that was being recorded, which is one at most.
OrphanInv == IsFiniteSet(orphans) /\ Cardinality(orphans) <= stops

LEMMA FewerOrphans ==
  ASSUME Typed, OrphanInv, orphans' \subseteq orphans, stops' >= stops, stops' \in Nat
  PROVE  OrphanInv'
<1>1. /\ IsFiniteSet(orphans') /\ Cardinality(orphans') <= Cardinality(orphans)
      /\ Cardinality(orphans) \in Nat /\ Cardinality(orphans') \in Nat
  BY FS_Subset, FS_CardinalityType DEF OrphanInv
<1> QED
  BY <1>1, TurnAssumption DEF OrphanInv, Typed, TypeOK

LEMMA OrphanCut ==
  ASSUME Typed, UnprovenInv, OrphanInv, Cut
  PROVE  OrphanInv'
<1>1. /\ stops \in Nat /\ stops' = stops + 1 /\ orphans' = orphans \cup unproven
      /\ phase \in {"saveApplied", "save"}
  BY TurnAssumption DEF Typed, TypeOK, Cut
<1>2. unproven = {} \/ unproven = {saved.patch.check}
  BY <1>1 DEF Typed, Carried, UnprovenInv
<1>3. Cardinality(orphans) \in Nat
  BY FS_CardinalityType DEF OrphanInv
<1>4. CASE unproven = {}
  BY <1>1, <1>3, <1>4 DEF OrphanInv
<1>5. CASE unproven = {saved.patch.check}
  <2>1. orphans' = orphans \cup {saved.patch.check}
    BY <1>1, <1>5
  <2>2. /\ IsFiniteSet(orphans')
        /\ \/ Cardinality(orphans') = Cardinality(orphans)
           \/ Cardinality(orphans') = Cardinality(orphans) + 1
    BY <2>1, FS_AddElement DEF OrphanInv
  <2> QED
    BY <1>1, <1>3, <2>2 DEF OrphanInv
<1> QED
  BY <1>2, <1>4, <1>5

LEMMA OrphanStep == Typed /\ UnprovenInv /\ OrphanInv /\ [Next]_vars => OrphanInv'
<1> SUFFICES ASSUME Typed, UnprovenInv, OrphanInv, [Next]_vars PROVE OrphanInv'
  OBVIOUS
<1>1. CASE Cut
  BY <1>1, OrphanCut
<1>2. CASE ~Cut
  <2>1. stops \in Nat
    BY TurnAssumption DEF Typed, TypeOK
  <2>2. orphans' \subseteq orphans /\ stops' \in {stops, stops + 1}
    BY <1>2, Steps
       DEF Turn, Apply, ApplyRefused, ApplyFails, SaveApplied, DomainPasses, TargetPasses,
           LiveFailure, LiveFails, Rollback, RollbackRefused, AllGreen, NotEditable,
           ContextRefused, NoGenerator, Request, Refuses, Propose, Verified, NotVerified,
           Identical, Save, Stop, RemoveState, IsvEdits, vars, historyVars, countVars
  <2> QED
    BY <2>1, <2>2, FewerOrphans
<1> QED
  BY <1>1, <1>2

\* A change that has passed no live run is in the provider only while the
\* saved state awaits its review or its run, however many turns fail or stop,
\* but for one change for each kill that cut the saved state short.
THEOREM FailuresLeaveNothing == Spec => []FailedChangesRemoved
<1>1. Init => UnprovenInv
  BY DEF Init, InitialState, UnprovenInv, Targeted
<1>2. Init => OrphanInv
  <2> SUFFICES ASSUME Init PROVE OrphanInv
    OBVIOUS
  <2>1. orphans = {} /\ stops = 0
    BY DEF Init
  <2> QED
    BY <2>1, FS_EmptySet DEF OrphanInv
<1>3. UnprovenInv /\ OrphanInv => FailedChangesRemoved
  BY DEF UnprovenInv, OrphanInv, FailedChangesRemoved
<1> QED
  BY <1>1, <1>2, <1>3, UnprovenStep, OrphanStep, TypedInit, TypedStep, PTL DEF Spec

-----------------------------------------------------------------------------
(* What `complete` means.                                                  *)

GreenNow == \A c \in Checks \ edited : provider[c] \in Good

\* The whole domain is run, and has been run, only on a provider that passed
\* the scan.
Green(s) ==
  /\ s.status = "awaiting_live" /\ s.selection = None => GreenNow
  /\ s.status = "complete" => fullPass /\ GreenNow

\* A report of a live run is worked on only if it has a failing row: the scan
\* alone lets a turn find nothing to do.
GreenInv ==
  /\ Green(saved) /\ Green(mem)
  /\ phase \in {"idle", "apply"} => mem = saved
  /\ phase = "live" /\ mem.selection # None => saved = mem
  /\ phase = "rollback" => saved.status = "awaiting_live" /\ saved.selection # None
  /\ report # None /\ (phase = "prepare" \/ (phase = "rollback" /\ mem.status = "ready")) =>
       report.dynamic # {}

LEMMA GreenTurn ==
  ASSUME Typed, GreenInv, NEW approval \in {saved.patch, None}, NEW live \in BOOLEAN,
         NEW generator \in BOOLEAN, Turn(approval, live, generator)
  PROVE  GreenInv'
<1>1. /\ mem' = saved /\ saved' = saved /\ report' = None
      /\ phase' \in {"prepare", "apply", "live"}
      /\ UNCHANGED <<provider, edited, fullPass>>
  BY DEF Turn, Resumes, diskVars, historyVars
<1> QED
  BY <1>1 DEF GreenInv, Green, GreenNow

LEMMA GreenApply ==
  ASSUME Typed, GreenInv, Apply
  PROVE  GreenInv'
<1>1. phase' = "saveApplied"
  BY DEF Apply
<1>2. mem'.selection # None
  BY ApplyEffect, TurnAssumption
<1> QED
  BY <1>1, <1>2, ApplyEffect DEF GreenInv, Green

LEMMA GreenSaved ==
  ASSUME Typed, GreenInv, SaveApplied \/ Save
  PROVE  GreenInv'
<1>1. /\ mem' = mem /\ saved' = mem /\ UNCHANGED <<provider, edited, fullPass>>
      /\ phase' \in {"live", "idle"}
  BY DEF SaveApplied, Save, Ended, diskVars, historyVars
<1> QED
  BY <1>1 DEF GreenInv, Green, GreenNow

LEMMA GreenPasses ==
  ASSUME Typed, GreenInv, DomainPasses \/ TargetPasses
  PROVE  GreenInv'
<1>1. saved' = saved /\ UNCHANGED <<provider, edited>> /\ mem.status = "awaiting_live"
  BY DEF DomainPasses, TargetPasses, diskVars, Typed, Carried
<1>2. CASE DomainPasses
  <2>1. GreenNow /\ fullPass' = TRUE /\ phase' = "save"
    BY <1>1, <1>2 DEF DomainPasses, GreenInv, Green
  <2> QED
    BY <1>1, <1>2, <2>1, PassesEffect DEF GreenInv, Green, GreenNow
<1>3. CASE TargetPasses
  <2>1. mem.selection # None /\ fullPass' = fullPass /\ phase' = "prepare" /\ report' = None
    BY <1>3 DEF TargetPasses
  <2> QED
    BY <1>1, <1>3, <2>1, PassesEffect DEF GreenInv, Green, GreenNow
<1> QED
  BY <1>2, <1>3

LEMMA GreenLiveFails ==
  ASSUME Typed, UnprovenInv, GreenInv, LiveFailure
  PROVE  GreenInv'
<1>1. PICK failing \in SUBSET Selected, prints \in SUBSET LivePrints, clear \in BOOLEAN :
        LiveFails(failing, prints, clear)
  BY DEF LiveFailure
<1>2. /\ mem'.status \in {"ready", "blocked"}
      /\ mem'.status = "ready" => failing # {}
  BY <1>1, LiveFailsEffect
<1>3. report'.dynamic = failing
  BY <1>1 DEF LiveFails
<1>4. /\ phase = "live" /\ saved' = saved /\ UNCHANGED <<provider, edited, fullPass>>
      /\ phase' = IF mem.application = None THEN AfterFailure ELSE "rollback"
      /\ AfterFailure = IF mem'.status = "blocked" THEN "save" ELSE "prepare"
  BY <1>1 DEF LiveFails, AfterFailure, diskVars, historyVars
<1>5. phase' = "rollback" => saved.status = "awaiting_live" /\ saved.selection # None
  <2> SUFFICES ASSUME mem.application # None
               PROVE  saved.status = "awaiting_live" /\ saved.selection # None
    BY <1>4
  <2>1. /\ mem.status = "awaiting_live" /\ mem.selection = mem.application.check
        /\ mem.application \in Patches
    BY <1>4 DEF Typed, TypeOK, Carried, States, UnprovenInv, Targeted
  <2>2. mem.selection # None
    BY <2>1, TurnAssumption DEF Patches
  <2> QED
    BY <1>4, <2>1, <2>2 DEF GreenInv
<1>6. phase' = "prepare" \/ (phase' = "rollback" /\ mem'.status = "ready") =>
        report'.dynamic # {}
  BY <1>2, <1>3, <1>4
<1>7. phase' \in {"rollback", "save", "prepare"}
  BY <1>4
<1>8. Green(saved)' /\ Green(mem)'
  BY <1>2, <1>4 DEF GreenInv, Green, GreenNow
<1> QED
  BY <1>4, <1>5, <1>6, <1>7, <1>8 DEF GreenInv

LEMMA GreenRollback ==
  ASSUME Typed, GreenInv, Rollback
  PROVE  GreenInv'
<1>1. mem'.status = mem.status /\ mem.status \in {"ready", "blocked"}
  BY DEF Typed, TypeOK, Carried, Rollback, States
<1>2. saved' = saved /\ saved.status = "awaiting_live" /\ saved.selection # None
  BY DEF GreenInv, Rollback
<1>3. /\ phase = "rollback" /\ report' = report
      /\ phase' = IF mem'.status = "blocked" THEN "save" ELSE "prepare"
  BY DEF Rollback, AfterFailure
<1> QED
  BY <1>1, <1>2, <1>3 DEF GreenInv, Green

\* A turn that finds nothing to do has scanned the provider as it is.
LEMMA GreenAllGreen ==
  ASSUME Typed, GreenInv, AllGreen
  PROVE  GreenInv'
<1>1. /\ phase = "prepare" /\ saved' = saved /\ phase' \in {"live", "save"}
      /\ report' = report /\ UNCHANGED <<provider, edited, fullPass>>
      /\ Rows.static = {} /\ Rows.dynamic = {}
  BY DEF AllGreen, Blocking, diskVars, historyVars
<1>2. report = None
  BY <1>1 DEF GreenInv, Rows
<1>3. {c \in Checks : provider[c] \notin Good} = {}
  BY <1>1, <1>2 DEF Rows
<1>4. GreenNow
  BY <1>3 DEF GreenNow
<1> QED
  BY <1>1, <1>4, AllGreenEffect DEF GreenInv, Green, GreenNow

LEMMA GreenEdit ==
  ASSUME Typed, GreenInv, NEW c \in Checks, NEW content \in Edits, IsvEdits(c, content)
  PROVE  GreenInv'
<1>1. /\ UNCHANGED <<saved, mem, phase, report, fullPass>> /\ edited' = edited \cup {c}
      /\ provider' = [provider EXCEPT ![c] = content]
  BY DEF IsvEdits
<1>2. GreenNow => GreenNow'
  BY <1>1 DEF GreenNow, Typed, TypeOK
<1> QED
  BY <1>1, <1>2 DEF GreenInv, Green

LEMMA GreenStep == Typed /\ UnprovenInv /\ GreenInv /\ [Next]_vars => GreenInv'
<1> SUFFICES ASSUME Typed, UnprovenInv, GreenInv, [Next]_vars PROVE GreenInv'
  OBVIOUS
<1>1. CASE Preparing
  BY <1>1, PreparingEffect DEF GreenInv, Green, GreenNow
<1>2. CASE Leaving
  BY <1>2, LeavingEffect DEF GreenInv, Green, GreenNow
<1>3. CASE UNCHANGED vars
  BY <1>3 DEF GreenInv, Green, GreenNow, vars, diskVars, historyVars
<1>4. CASE Cut
  BY <1>4, InitialIsReady DEF Cut, Ended, GreenInv, Green
<1>5. CASE RemoveState
  BY <1>5 DEF RemoveState, GreenInv, Green, GreenNow, historyVars
<1> QED
  BY <1>1, <1>2, <1>3, <1>4, <1>5, StepsByEffect, GreenTurn, GreenApply, GreenSaved, GreenPasses,
     GreenLiveFails, GreenRollback, GreenAllGreen, GreenEdit

\* `complete` is saved only after a live run of the whole domain on a provider
\* that passed the scan, and neither is undone by a later turn.
THEOREM CompleteIsGreen == Spec => []CompleteMeansGreen
<1>1. Init => UnprovenInv
  BY DEF Init, InitialState, UnprovenInv, Targeted
<1>2. Init => GreenInv
  BY DEF Init, InitialState, GreenInv, Green
<1>3. GreenInv => CompleteMeansGreen
  BY DEF GreenInv, Green, GreenNow, CompleteMeansGreen
<1> QED
  BY <1>1, <1>2, <1>3, UnprovenStep, GreenStep, TypedInit, TypedStep, PTL DEF Spec

=============================================================================

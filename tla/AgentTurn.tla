------------------------------ MODULE AgentTurn -----------------------------
(***************************************************************************)
(* run_agent_turn: the workflow that closes the gaps of one domain one at  *)
(* a time, one invocation a turn.  A turn loads the saved state, goes on   *)
(* from its status - prepare the next change, apply the approved one, run  *)
(* it live, roll a failed one back - and saves the state it stops in.      *)
(*                                                                         *)
(* Between two saves a turn changes the provider and calls the generator   *)
(* and the live run; any of these may raise, and the process may be        *)
(* killed, also while it writes the state, in place.  The ISV edits the    *)
(* provider meanwhile.                                                     *)
(*                                                                         *)
(* A change set is one file here, a patch the record of the file and its   *)
(* content before and after, standing for its text and its hash: how       *)
(* several files are replaced is the module ApplyTransaction.  The checks  *)
(* are numbered in the order of _selection_key; check c is about file c.   *)
(***************************************************************************)
EXTENDS Integers, FiniteSets

CONSTANTS
  Checks,           \* the blocking checks of the domain, and their files
  Editable,         \* those the gap decision lets the generator edit
  Contents,         \* contents of a file
  Absent,           \* the content of a file that does not exist
  Good,             \* the contents that pass the static scan
  Initial,          \* the provider before the first turn
  Candidates,       \* the contents the generator returns
  Edits,            \* the contents the ISV writes
  StaticPrints,     \* fingerprints of static verification failures
  LivePrints,       \* fingerprints of live failures
  MaxAttempts,      \* execution.max_attempts
  MaxFailureGroups, \* execution.max_failure_groups
  None,             \* no gap, patch, application, selection or report
  MaxStops,         \* turns that raise or are killed
  StopPoints,       \* the phases in which they do
  MaxEdits,         \* edits by the ISV
  EditPoints        \* the phases of a turn during which they happen

Prints == StaticPrints \cup LivePrints

Gaps == [kind : {"static", "dynamic"}, check : Checks]

Patches == [check : Checks, before : Contents, after : Contents]

Reports == [static : SUBSET Checks, dynamic : SUBSET Checks]

ASSUME TurnAssumption ==
  /\ Checks \subseteq Nat /\ Checks # {} /\ IsFiniteSet(Checks)
  /\ Editable \subseteq Checks
  /\ Good \subseteq Contents
  /\ Candidates \subseteq Contents
  /\ Absent \in Contents \ (Good \cup Candidates)
  /\ Edits \subseteq Contents
  /\ Initial \in [Checks -> Contents]
  /\ IsFiniteSet(Prints)
  /\ MaxAttempts \in Nat \ {0}
  /\ MaxFailureGroups \in Nat \ {0}
  /\ None \notin Gaps \cup Patches \cup Reports \cup Checks
  /\ MaxStops \in Nat
  /\ MaxEdits \in Nat

VARIABLES
  provider, \* content of every file
  backups,  \* backup transactions on disk: a gap and a patch
  saved,    \* agent-state.json: what it says to the next turn that reads it
  cut,      \* a kill cut it short; every turn refuses it until it is removed
  phase,    \* where the turn is; "idle" when none runs
  mem,      \* the state the turn carries
  report,   \* the rows it works on
  args,     \* what the invocation was given
  unproven, \* files a turn has written that no live run has passed since
  orphans,  \* those of them whose saved state was cut: no state names them
  edited,   \* files the ISV has written since a turn wrote them
  fullPass, \* a run of the whole domain passed since a turn wrote a file
  stops,    \* how many turns raised or were killed
  edits     \* how often the ISV edited a file

diskVars == <<provider, backups, cut>>
historyVars == <<unproven, orphans, edited, fullPass>>
countVars == <<stops, edits>>
vars == <<diskVars, saved, phase, mem, report, args, historyVars, countVars>>

Phases ==
  {"idle", "apply", "saveApplied", "live", "rollback", "prepare", "generate",
   "verify", "save"}

Statuses ==
  {"ready", "blocked", "complete", "awaiting_generator", "awaiting_review",
   "awaiting_live"}

Stopped == {"blocked", "complete"}

\* AgentState, with the artifacts a later turn reads: the application, the
\* selection and the verification manifest.
States ==
  [status : Statuses, gap : Gaps \cup {None}, patch : Patches \cup {None},
   manifest : Patches \cup {None}, attempts : Nat, prints : SUBSET Prints,
   application : Patches \cup {None}, selection : Checks \cup {None}]

NoArgs == [approval |-> None, live |-> FALSE, generator |-> FALSE]

InitialState ==
  [status |-> "ready", gap |-> None, patch |-> None, manifest |-> None,
   attempts |-> 0, prints |-> {}, application |-> None, selection |-> None]

\* _transition: patch and artifacts are dropped unless they are given.
Moved(s, status, gap) ==
  [s EXCEPT !.status = status, !.gap = gap, !.patch = None, !.manifest = None,
            !.application = None, !.selection = None]

-----------------------------------------------------------------------------
(* The beginning of a turn.                                                *)

\* The turn goes on from the saved status; without the approval of this
\* patch, or without the live flag, it returns where it stands.
Resumes(approval, live) ==
  \/ saved.status \in {"ready", "awaiting_generator"} /\ phase' = "prepare"
  \/ saved.status = "awaiting_review" /\ approval = saved.patch /\ phase' = "apply"
  \/ saved.status = "awaiting_live" /\ live /\ phase' = "live"

Turn(approval, live, generator) ==
  /\ phase = "idle"
  /\ ~cut
  /\ Resumes(approval, live)
  /\ args' = [approval |-> approval, live |-> live, generator |-> generator]
  /\ mem' = saved
  /\ report' = None
  /\ UNCHANGED <<diskVars, saved, historyVars, countVars>>

Ended ==
  /\ phase' = "idle"
  /\ report' = None
  /\ args' = NoArgs

\* The state of a turn that ends without saving it is forgotten.
Forget == Ended /\ mem' = saved

\* A file written by a turn.
Wrote(c, content) ==
  /\ provider' = [provider EXCEPT ![c] = content]
  /\ edited' = edited \ {c}
  /\ fullPass' = FALSE

-----------------------------------------------------------------------------
(* _apply_reviewed_change over apply_verified_change_set.                  *)

Transaction == [gap |-> saved.gap, patch |-> saved.manifest]

\* Only a file that exists is backed up, and only a backup makes the directory.
BackedUp == IF saved.manifest.before = Absent THEN {} ELSE {Transaction}

\* Mutant: the provider is not compared with the verified content.
CanApplyUnchecked == Transaction \notin backups

CanApply ==
  /\ provider[saved.manifest.check] = saved.manifest.before
  /\ Transaction \notin backups

Apply ==
  /\ phase = "apply"
  /\ CanApply
  /\ Wrote(saved.manifest.check, saved.manifest.after)
  /\ backups' = backups \cup BackedUp
  /\ unproven' = unproven \cup {saved.manifest.check}
  /\ mem' = [Moved(saved, "awaiting_live", saved.gap)
               EXCEPT !.application = saved.manifest, !.selection = saved.gap.check]
  /\ phase' = "saveApplied"
  /\ UNCHANGED <<saved, cut, orphans, report, args, countVars>>

ApplyRefused ==
  /\ phase = "apply"
  /\ ~CanApply
  /\ Forget
  /\ UNCHANGED <<diskVars, saved, historyVars, countVars>>

\* The file system refuses a step: the file is put back, the backup stays.
ApplyFails ==
  /\ phase = "apply"
  /\ CanApply
  /\ phase \in StopPoints
  /\ stops < MaxStops
  /\ stops' = stops + 1
  /\ backups' = backups \cup BackedUp
  /\ Forget
  /\ UNCHANGED <<provider, saved, cut, historyVars, edits>>

SaveApplied ==
  /\ phase = "saveApplied"
  /\ saved' = mem
  /\ IF args.live
     THEN phase' = "live" /\ UNCHANGED <<mem, report, args>>
     ELSE Ended /\ UNCHANGED mem
  /\ UNCHANGED <<diskVars, historyVars, countVars>>

-----------------------------------------------------------------------------
(* _run_live_and_advance.                                                  *)

Selected == IF mem.selection = None THEN Checks ELSE {mem.selection}

\* Mutant: any run that passes completes the workflow.
AnyRunPasses ==
  /\ phase = "live"
  /\ mem' = [Moved(mem, "complete", None) EXCEPT !.attempts = 0, !.prints = {}]
  /\ phase' = "save"
  /\ fullPass' = TRUE
  /\ unproven' = {} /\ orphans' = {}
  /\ UNCHANGED <<diskVars, saved, report, args, edited, countVars>>

DomainPasses ==
  /\ phase = "live"
  /\ mem.selection = None
  /\ mem' = [Moved(mem, "complete", None) EXCEPT !.attempts = 0, !.prints = {}]
  /\ phase' = "save"
  /\ fullPass' = TRUE
  /\ unproven' = {} /\ orphans' = {}
  /\ UNCHANGED <<diskVars, saved, report, args, edited, countVars>>

\* A targeted run passes: the workflow goes on to the next gap.
TargetPasses ==
  /\ phase = "live"
  /\ mem.selection # None
  /\ mem' = [Moved(mem, "ready", None) EXCEPT !.attempts = 0, !.prints = {}]
  /\ report' = None
  /\ args' = [args EXCEPT !.live = FALSE]
  /\ phase' = "prepare"
  /\ unproven' = unproven \ {mem.selection} /\ orphans' = orphans \ {mem.selection}
  /\ UNCHANGED <<diskVars, saved, edited, fullPass, countVars>>

\* Mutant: a failure that came back does not park.
ParksIgnoringRepeats(s, prints, retryable) ==
  \/ Cardinality(s.prints \cup prints) >= MaxFailureGroups
  \/ ~retryable
  \/ s.attempts + 1 >= MaxAttempts

\* A failure parks the gap, or leaves it for another candidate.
Parks(s, prints, retryable) ==
  \/ prints \cap s.prints # {}
  \/ Cardinality(s.prints \cup prints) >= MaxFailureGroups
  \/ ~retryable
  \/ s.attempts + 1 >= MaxAttempts

Recorded(s, prints, retryable, retryGap) ==
  LET parked == Parks(s, prints, retryable)
  IN  [Moved(s, IF parked THEN "blocked" ELSE "ready", IF parked THEN s.gap ELSE retryGap)
         EXCEPT !.attempts = @ + 1, !.prints = @ \cup prints]

AfterFailure == IF mem'.status = "blocked" THEN "save" ELSE "prepare"

\* Mutant: a failure that parks is not rolled back.
LiveFailsParkedInPlace(failing, prints, clear) ==
  /\ phase = "live"
  /\ LET retryable == failing # {} /\ clear /\ failing \subseteq Editable
     IN  mem' = [Recorded(mem, prints, retryable, None) EXCEPT !.application = mem.application]
  /\ report' = [static |-> {c \in Checks : provider[c] \notin Good}, dynamic |-> failing]
  /\ args' = [args EXCEPT !.live = FALSE]
  /\ phase' = IF mem.application = None \/ mem'.status = "blocked" THEN AfterFailure ELSE "rollback"
  /\ UNCHANGED <<diskVars, saved, historyVars, countVars>>

\* A run fails.  A failure without a mapped row (failing = {}), without a
\* clear diagnostic or on a row that may not be edited is not retryable.  The
\* report holds the static rows of the provider as it ran.
LiveFails(failing, prints, clear) ==
  /\ phase = "live"
  /\ LET retryable == failing # {} /\ clear /\ failing \subseteq Editable
     IN  mem' = [Recorded(mem, prints, retryable, None) EXCEPT !.application = mem.application]
  /\ report' = [static |-> {c \in Checks : provider[c] \notin Good}, dynamic |-> failing]
  /\ args' = [args EXCEPT !.live = FALSE]
  /\ phase' = IF mem.application = None THEN AfterFailure ELSE "rollback"
  /\ UNCHANGED <<diskVars, saved, historyVars, countVars>>

\* rollback_change_application, from the record of the application.
Rollback ==
  /\ phase = "rollback"
  /\ provider[mem.application.check] = mem.application.after
  /\ Wrote(mem.application.check, mem.application.before)
  /\ unproven' = unproven \ {mem.application.check}
  /\ mem' = [mem EXCEPT !.application = None]
  /\ phase' = AfterFailure
  /\ UNCHANGED <<backups, saved, cut, orphans, report, args, countVars>>

RollbackRefused ==
  /\ phase = "rollback"
  /\ provider[mem.application.check] # mem.application.after
  /\ Forget
  /\ UNCHANGED <<diskVars, saved, historyVars, countVars>>

-----------------------------------------------------------------------------
(* _prepare_next_change.                                                   *)

\* The report of the failed run, or a fresh scan.
Rows ==
  IF report # None THEN report
  ELSE [static |-> {c \in Checks : provider[c] \notin Good}, dynamic |-> {}]

Blocking == Rows.static \cup Rows.dynamic

\* advance_loop: the first unresolved row, a dynamic or a static one.
IsNext(gap) ==
  /\ gap.check \in (IF gap.kind = "static" THEN Rows.static ELSE Rows.dynamic)
  /\ \A c \in Blocking : gap.check <= c

StopAt(state) ==
  /\ mem' = state
  /\ phase' = "save"
  /\ UNCHANGED report

AllGreen ==
  /\ phase = "prepare"
  /\ Blocking = {}
  /\ mem' = Moved(mem, "awaiting_live", None)
  /\ phase' = IF args.live THEN "live" ELSE "save"
  /\ UNCHANGED <<diskVars, saved, report, args, historyVars, countVars>>

NotEditable(gap) ==
  /\ phase = "prepare"
  /\ IsNext(gap) /\ gap.check \notin Editable
  /\ StopAt(Moved(mem, "blocked", gap))
  /\ UNCHANGED <<diskVars, saved, args, historyVars, countVars>>

\* The failure evidence cannot be put into the request.
ContextRefused(gap) ==
  /\ phase = "prepare"
  /\ IsNext(gap) /\ gap.check \in Editable
  /\ mem.prints # {}
  /\ StopAt(Moved(mem, "blocked", gap))
  /\ UNCHANGED <<diskVars, saved, args, historyVars, countVars>>

NoGenerator(gap) ==
  /\ phase = "prepare"
  /\ IsNext(gap) /\ gap.check \in Editable
  /\ ~args.generator
  /\ StopAt(Moved(mem, "awaiting_generator", gap))
  /\ UNCHANGED <<diskVars, saved, args, historyVars, countVars>>

Request(gap) ==
  /\ phase = "prepare"
  /\ IsNext(gap) /\ gap.check \in Editable
  /\ args.generator
  /\ mem' = [mem EXCEPT !.gap = gap]
  /\ report' = Rows
  /\ phase' = "generate"
  /\ UNCHANGED <<diskVars, saved, args, historyVars, countVars>>

\* The generator returns no change.
Refuses ==
  /\ phase = "generate"
  /\ StopAt([Moved(mem, "blocked", mem.gap) EXCEPT !.attempts = @ + 1])
  /\ UNCHANGED <<diskVars, saved, args, historyVars, countVars>>

\* build_change_proposal reads the file the candidate replaces.
Propose(content) ==
  /\ phase = "generate"
  /\ content # provider[mem.gap.check]
  /\ mem' = [mem EXCEPT !.patch = [check |-> mem.gap.check,
               before |-> provider[mem.gap.check], after |-> content]]
  /\ phase' = "verify"
  /\ UNCHANGED <<diskVars, saved, report, args, historyVars, countVars>>

\* verify_change_set builds the proposal again and scans a private copy; the
\* selected row must pass if it is a static one, and so must every static
\* row that passed in the report.
PassesCopy ==
  (mem.gap.kind = "static" \/ mem.gap.check \notin report.static) =>
    mem.patch.after \in Good

Verified ==
  /\ phase = "verify"
  /\ provider[mem.patch.check] # mem.patch.after
  /\ PassesCopy
  /\ StopAt([Moved(mem, "awaiting_review", mem.gap) EXCEPT
               !.patch = mem.patch,
               !.manifest = [mem.patch EXCEPT !.before = provider[mem.patch.check]]])
  /\ UNCHANGED <<diskVars, saved, args, historyVars, countVars>>

\* It fails on the selected row, or by breaking another one.
NotVerified(print) ==
  /\ phase = "verify"
  /\ provider[mem.patch.check] # mem.patch.after
  /\ StopAt(Recorded(mem, {print}, TRUE, mem.gap))
  /\ UNCHANGED <<diskVars, saved, args, historyVars, countVars>>

\* _save_state, the last step of a turn.
Save ==
  /\ phase = "save"
  /\ saved' = mem
  /\ Ended
  /\ UNCHANGED <<diskVars, mem, historyVars, countVars>>

-----------------------------------------------------------------------------
(* What goes wrong around it.                                              *)

\* A call raises - the generator, the live run, a guard - or the process is
\* killed: nothing is saved.
Stop ==
  /\ phase \in StopPoints \ {"idle"}
  /\ stops < MaxStops
  /\ stops' = stops + 1
  /\ Forget
  /\ UNCHANGED <<diskVars, saved, historyVars, edits>>

\* The process is killed, or the disk is full, while _write_json writes the
\* state in place: load_agent_state refuses what is left of it.
Cut ==
  /\ phase \in StopPoints \cap {"saveApplied", "save"}
  /\ stops < MaxStops
  /\ stops' = stops + 1
  /\ saved' = InitialState
  /\ cut' = TRUE
  /\ orphans' = orphans \cup unproven
  /\ unproven' = {}
  /\ Ended /\ mem' = InitialState
  /\ UNCHANGED <<provider, backups, edited, fullPass, edits>>

\* The ISV removes it; the next turn begins with _initial_state.
RemoveState ==
  /\ cut
  /\ cut' = FALSE
  /\ UNCHANGED <<provider, backups, saved, phase, mem, report, args, historyVars, countVars>>

\* The candidate became the content of the file: build_change_proposal raises.
Identical ==
  /\ phase = "verify"
  /\ provider[mem.patch.check] = mem.patch.after
  /\ Forget
  /\ UNCHANGED <<diskVars, saved, historyVars, countVars>>

IsvEdits(c, content) ==
  /\ phase \in EditPoints
  /\ edits < MaxEdits
  /\ edits' = edits + 1
  /\ content # provider[c]
  /\ provider' = [provider EXCEPT ![c] = content]
  /\ edited' = edited \cup {c}
  /\ unproven' = unproven \ {c} /\ orphans' = orphans \ {c}
  /\ UNCHANGED <<backups, saved, cut, phase, mem, report, args, fullPass, stops>>

-----------------------------------------------------------------------------
Init ==
  /\ provider = Initial
  /\ backups = {}
  /\ saved = InitialState
  /\ cut = FALSE
  /\ phase = "idle"
  /\ mem = InitialState
  /\ report = None
  /\ args = NoArgs
  /\ unproven = {}
  /\ orphans = {}
  /\ edited = {}
  /\ fullPass = FALSE
  /\ stops = 0
  /\ edits = 0

\* A live run reports a fingerprint for every group of its failing rows, and
\* one if it fails without them.
LiveFailure ==
  \E failing \in SUBSET Selected, prints \in SUBSET LivePrints, clear \in BOOLEAN :
    /\ \/ Cardinality(prints) \in 1 .. Cardinality(failing)
       \/ failing = {} /\ Cardinality(prints) = 1
    /\ LiveFails(failing, prints, clear)

Prepare ==
  \/ AllGreen
  \/ \E gap \in Gaps :
       NotEditable(gap) \/ ContextRefused(gap) \/ NoGenerator(gap) \/ Request(gap)
  \/ Refuses
  \/ \E content \in Candidates : Propose(content)
  \/ Verified
  \/ \E print \in StaticPrints : NotVerified(print)
  \/ Identical

Next ==
  \/ \E approval \in {saved.patch, None}, live, generator \in BOOLEAN :
       Turn(approval, live, generator)
  \/ Apply \/ ApplyRefused \/ ApplyFails \/ SaveApplied
  \/ DomainPasses \/ TargetPasses \/ LiveFailure \/ Rollback \/ RollbackRefused
  \/ Prepare
  \/ Save
  \/ Stop \/ Cut \/ RemoveState
  \/ \E c \in Checks, content \in Edits : IsvEdits(c, content)

Spec == Init /\ [][Next]_vars

-----------------------------------------------------------------------------
(* Properties.                                                             *)

\* Every variable has its type, and a saved state awaiting review has the
\* patch and the manifest a later turn applies.
TypeOK ==
  /\ provider \in [Checks -> Contents]
  /\ backups \subseteq [gap : Gaps, patch : Patches]
  /\ saved \in States /\ mem \in States
  /\ phase \in Phases
  /\ report \in Reports \cup {None}
  /\ args \in [approval : Patches \cup {None}, live : BOOLEAN, generator : BOOLEAN]
  /\ cut \in BOOLEAN
  /\ unproven \subseteq Checks /\ orphans \subseteq Checks /\ edited \subseteq Checks
  /\ fullPass \in BOOLEAN
  /\ stops \in 0 .. MaxStops /\ edits \in 0 .. MaxEdits
  /\ saved.status = "awaiting_review" =>
       saved.gap # None /\ saved.patch # None /\ saved.manifest # None

\* A turn changes a provider file in two ways only.  It puts the content
\* there whose patch this invocation approved, over the content the
\* verification saw; or it takes a recorded application back exactly.
OnlyApprovedOrRestored ==
  [][\A c \in Checks : provider'[c] # provider[c] /\ edits' = edits =>
       \/ /\ args.approval \in Patches
          /\ args.approval.check = c /\ args.approval.after = provider'[c]
          /\ saved.manifest = [check |-> c, before |-> provider[c], after |-> provider'[c]]
       \/ mem.application = [check |-> c, before |-> provider'[c], after |-> provider[c]]
    ]_vars

\* A change that was applied and has passed no live run is in the provider
\* only while the saved state still awaits the review or the run of it:
\* failed and interrupted candidates do not outlive the gap they were for.
\* What escapes this is the change that was being recorded when a kill cut
\* agent-state.json short, which is one for each such kill.
FailedChangesRemoved ==
  /\ phase = "idle" /\ unproven # {} =>
       \/ saved.status = "awaiting_review" /\ unproven = {saved.patch.check}
       \/ saved.status = "awaiting_live" /\ unproven = {saved.selection}
  /\ Cardinality(orphans) <= stops

\* `complete` is saved only after a live run of the whole domain that passed
\* since the last change of a turn, on a provider whose checks pass the
\* static scan, unless the ISV edited them.
CompleteMeansGreen ==
  saved.status = "complete" =>
    /\ fullPass
    /\ \A c \in Checks \ edited : provider[c] \in Good

\* A workflow that may go on has a new failure for every attempt it counts,
\* and both budgets left: a failure that came back has parked it, and so has
\* a spent budget, whether it failed statically or live.
EveryRetryHasANewFailure ==
  saved.status \notin Stopped =>
    /\ saved.attempts <= Cardinality(saved.prints)
    /\ saved.attempts < MaxAttempts
    /\ Cardinality(saved.prints) < MaxFailureGroups
=============================================================================

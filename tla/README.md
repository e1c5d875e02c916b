# A verification model of isv-readiness

`isv-readiness` (`gapctl`) brings an ISV's provider configuration to the point
where it passes a live validation. It scans the provider, decides for every
row of the report whether code may be generated for it, asks a generator for
bounded change sets, verifies each in a private copy, shows the combined patch
to a person, applies it bound to its hash, and starts the live run.

What can go wrong there is seldom in one function. It is in the order of steps:
a process that dies between two files, a review that is older than the provider
it is about, a retry budget that several rows share, a route of the profile
that silences a failing check. This directory models those parts in TLA+,
checks small instances with TLC and proves the central properties for every
instance with TLAPS.

Paths below are relative to the repository's `src/isv_readiness/` unless they
begin with `docs/`, `tests/` or name a top-level document.

## 1. The system

### Components

| Component | Code | State it keeps | Operations | Model |
|---|---|---|---|---|
| Gap decision | `decision.py`, `solution_profile.py`, `scan/profile.py` | none: a function of a row and the solution profile | `resolve`, `enrich_report_with_profile`, `decide_gap`, `validation_profile_issues` | `GapDecision` |
| Generate-verify-stage loop | `auto.py` (`run_auto`, `apply=False`) | per run: attempts, failure ledger and blockers of each contract unit, call count, audit phase, staged fixes, the scratch copy | one pass: scan, select, generate, verify, stage or record the failure; audit; final review | `AutoRun` |
| Apply transaction | `auto.py` (`_apply_to_provider`, `_stage_file`) | temporary files, backups, the list of applied targets | check, back up, stage, replace, re-read, roll back | `ApplyTransaction`, `AtomicApply` |
| Review gate | `journey.py` (`cmd_validate`), `auto.py` (`_apply_reviewed_scratch`, `_write_review`) | on disk for each domain: `scratch-provider/`, `auto-review.json`, `auto-review.patch` | resume a review, generate, record, approve or decline, apply, next domain, live run | `ReviewGate` |
| Change sets and verification | `changes.py`, `change_verification.py`, `verification.py`, `fixes.py` | change-set records, backups, application records | build, verify in a copy, apply, roll back | `AgentTurn`, for change sets of one file |
| Agent and loop workflow | `agent.py`, `loop.py` | `agent-state.json`: status, gap, patch, attempts, feedback, application, selection | one turn: prepare, apply, run live, roll back, stop | `AgentTurn` |
| Generator exchange | `generators.py`, `generation.py`, `generator_limits.py`, adapters | request and response files | export, import, run a command within its limits, compare the protected roots | `Exchange` (validate), `Qualification` (qualify), `Supervision` (one call) |
| Supervised subprocesses | `subprocesses.py` | a session of processes, deadlines | run, poll, time out, terminate, kill, reap | `Supervision` |
| Live runs and records | `live.py`, `runs.py`, `simple.py`, `scan/dynamic.py`, `validation_adapter.py`, `run_explanations.py` | run directories, `run.json`, `gaps.json` | execute, record, merge into the report, status | `Evidence` |
| Readiness and publication | `readiness.py`, `publish.py` | none; the test runs of the Lab Service | judge evidence, create, upload, complete | `Evidence` |
| Qualification | `qualify.py`, `journey.py` (`cmd_qualify`) | drafted, active and initial profile | collect context, draft, review, promote | `Qualification` |
| Domain completeness audit | `domain_audit.py` | none | a bounded audit of a domain | when it is due and what it costs: `AutoRun`; its request across processes: `Exchange` |
| Failure feedback | `failure_feedback.py` | none | normalise, redact, fingerprint | its result, the fingerprint, is in `AutoRun` |
| Context packs | `context.py`, `schema.py` | the context cache and its index | synchronise sources, judge the cache, assemble a bounded request | cache and qualification pack: `Qualification`; "does not fit" is an outcome of the loop |
| Scanner, dynamic scan | `scan/` | none | parse configurations and scripts into rows | the models start from rows |
| Project, onboarding, command line, skills | `project.py`, `simple.py`, `onboarding.py`, `cli.py`, `agent_skill.py` | the project file | load, validate, scaffold, print | not modelled |

### How they interact

`gapctl validate` (`cmd_validate`) is one process that walks the owned domains.
For each it either finds a pending review on disk or calls `run_auto`. That
call scans a private copy of the provider; every row of the scan passes through
the gap decision, which alone says what blocks and what may be edited. The loop
calls the generator and the auditor as supervised subprocesses and knows only
their outcomes. What it leaves behind is a scratch copy and two files. The
person's answer turns into a second call, `run_auto(apply=True)`, which compares
the hash of the patch as it would be now with the approved one, applies it with
the transaction and writes the record again. Then the domain is scanned once
more, and the process goes on to the next one. The live run is offered after the
last domain; none is scanned or audited again before it.

The live run of a domain (`run_test_domain`) makes a run directory, executes the
validation, turns the JUnit file into rows, writes the record of the run and then
rewrites `gaps.json`, in which the rows of the other domains are kept. `status`
and `publish` judge from both what is ready; `publish` uploads the JUnit file of
each domain's latest run.

Before all that, `gapctl qualify` (`cmd_qualify`) brings the declared context
into a cache, has a solution profile drafted from it, and promotes the draft
when a person approves it. Drafting uses the same generators as validation.

A generator is a command that gapctl supervises, or a pair of files: the request
is written, the process ends, and a later process reads the answer. With files
every question costs at least two processes, and each process begins with the
first domain again; what it needs to know it finds in the provider, in the
stored reviews and in the two files. A built-in command is an adapter that
supervises its model with the same function by which gapctl supervises it.

The agent workflow (`run_agent_turn`) is the other way to close gaps: one gap
and one invocation at a time, for one domain, with its memory in
`agent-state.json`. It uses the same decision, generator, verification and live
run, and a transaction of its own for change sets that can be taken back.

Nothing is locked. The ISV edits the provider when they like, the command may
be interrupted or killed at any point, and the only memory between two
invocations is the files.

### Which behaviours are hard

* **Crashes.** The transaction replaces files one at a time and its rollback is
  an exception handler. The review consists of two files written in place. The
  provider is changed before the record says so. A live run is recorded before
  the report is rewritten, and the report is written in place. A turn of the
  agent may change the provider several times before it saves its state, which it
  writes in place. The cache, the proposal and the active profile are written in place.
* **Shared scripts.** A candidate of one domain may change every script below
  `scripts/` (`changes.py:252-260`). Its regression check covers the scan of its own
  domain, and the domains that the session has passed are not looked at again.
* **Stale state.** A stored review is shown without being compared with the
  provider; a scratch copy outlives the session that made it; hash checks
  precede the writes they protect. Days may lie between the verification of a
  change and its approval, and between its application and its rollback. A
  publication is judged once and uploads for a while.
* **Two supervisors.** A timeout or a signal has to reach a process two sessions
  away, and both levels have deadlines, polls and grace periods of their own.
* **Forgetful processes.** An answer must meet the request it was made for in a
  process that has to build that request again.
* **Shared budgets.** Attempts and failure ledgers belong to a contract unit (a
  script, or a step of a configuration), and several rows share one. The agent
  counts static and live failures together.
* **Ordering.** Whether a semantic candidate gets its post-change audit depends
  on which other rows are open when it is staged; a later candidate may break an
  earlier fix.
* **Overlap.** Several capabilities of a profile may match one row, each with a
  scope of its own, and a ratified route may contradict the scan.
* **Termination.** The loop ends because of its range and its budgets; the
  session ends only if the person repeats it.

`PROJECT.json` lists each of these hazards at its line, with the property that
would catch it or the reason why none does.

### What makes each component correct

* *Gap decision*: no edit without a ratified, owned, covered/test scope; no
  owned failure that fails to block; no accepted row but a signed skip; a
  failing row always has somebody to go to; the narrower selector decides.
* *Loop*: budgets hold; the same failure is not regenerated a third time; a
  staged fix is not lost; every blocker reaches the review; a row is given up
  only when a budget is spent; the fix of an audit finding is audited, unless the
  review says what still blocks or a budget is spent.
* *Transaction*: all or nothing for calls that return; originals and early
  edits are never lost, whatever happens; only reviewed bytes stay.
* *Review gate*: only approved changes reach the provider; a review stays in
  its domain's scope; a declined review is not shown again; when the live
  run starts, each domain was clean at its scan, and only a later domain may have
  changed its files since; repeating the command gets there.
* *Agent*: it writes only what this invocation approved, over what was
  verified, or takes an application back exactly; a failed change does not stay,
  unless a kill cut the state that names it; a retry needs a new failure;
  `complete` means that the whole domain passed.
* *Evidence*: a record is never rewritten; the report shows the latest run of
  each domain; what is ready has succeeded; what is uploaded was assessed.
* *Exchange*: an answer is staged only for the gap and over the content it was
  made for; an export costs no candidate; the live run follows scans and audits
  of this process; what is exported is never a finding of an audit.
* *Supervision*: a call ends; nobody is left running; changes of the protected
  roots are reported; each deadline ends only what it is meant to end.
* *Qualification*: nothing is drafted from stale evidence; what is promoted is
  what was reviewed and is not refuted by a run; the initial profile survives;
  repeating the command gets there.

## 2. Modules

| Module | Role |
|---|---|
| `AutoRun` | the loop of one `run_auto(apply=False)` call |
| `MCAutoRun` | its instance: three gaps, two findings, three units |
| `AutoRunProofs` | theorems about the loop |
| `AtomicApply` | what applying a patch promises its caller |
| `ApplyTransaction` | the steps of `_apply_to_provider`, and the refinement |
| `MCApplyTransaction` | its instance: one replaced file, one created |
| `ApplyTransactionProofs` | theorems about the transaction, the refinement included |
| `ReviewGate` | the session of `gapctl validate` over all domains, with its files |
| `MCReviewGate` | its instance: two domains |
| `GapDecision` | from a scanned row to its decision |
| `MCGapDecision` | the profiles and rows enumerated |
| `GateProofs` | theorems about the session and the decision |
| `AgentTurn` | the one-gap workflow with its saved state, over many invocations |
| `MCAgentTurn` | its instance: three checks |
| `AgentTurnProofs` | theorems about the workflow |
| `Evidence` | live runs, their records, the report, readiness and publication |
| `MCEvidence` | its instances: two domains, or one of two checks |
| `EvidenceProofs` | theorems about the evidence |
| `Supervision` | one generator call: gapctl over an adapter over a model |
| `MCSupervision` | its instance: three adapters |
| `SupervisionProofs` | theorems about the call |
| `Qualification` | repeated `gapctl qualify`, with its cache and profiles |
| `MCQualification` | its instance: a required page, a local file, four drafts |
| `QualificationProofs` | theorems about qualification |
| `Exchange` | processes of `gapctl validate` that export and import |
| `MCExchange` | its instances: two domains |
| `ExchangeProofs` | theorems about the exchange |

A definition whose comment begins with "Mutant:" is a variant, with a plausible
bug, of the definition that follows it; no specification uses it. It documents
which mistake a property catches: with the variant in place of the original, the
run finds the property violated.

### AutoRun

A row is its contract unit, its rank in the report and whether `decide_gap`
would let it be edited while it blocks; a candidate is the statuses that a
rescan of the scratch copy then finds; a failure is its fingerprint.

| Model | Code (`auto.py`) |
|---|---|
| one step of `Pass` | one pass of `for iteration in range(...)` |
| `Pending`, `Selected` | the filter on `edit_eligible` and attempts, and `pending[0]` |
| `Failed` | `_record_failure`: append, compare the fingerprint, count root causes, park |
| `Park` | a generator that declines, or a request that does not fit: attempts set to the maximum, blocker recorded |
| `Verified` | `verify_change_set` as the loop uses it: the selected gap passes, no passing gap regresses |
| `PreAudit`, `PostAudit`, `AuditFails` | the two completeness audits |
| `Stop`, `OutOfBudget`, `Exhausted` | the `break`s, and the end of the range |
| `WriteReview`, `Parked`, `ReasonParked` | the final scan, `_park`, `AutoReview` |

`limits` holds the limits of a call (`max_iterations`, `max_generator_calls` and
the project's `max_failure_groups`); it is a variable that never changes, so one run of TLC
covers several limits. A call that failed before its response was parsed is not
counted by the code, hence `calls' \in {calls, calls + 1}` in
`RejectedByGuardrail`. A later candidate can undo an earlier one textually, so
`dirty` may fall back to FALSE unless a staged static gap depends on the change.

### ApplyTransaction and AtomicApply

Every call to the file system that can fail is a step of its own: the hash check
of each file, the backup directory, backup and staging, `os.replace`, the
re-read, each undo, and each removal of a temporary file. The `finally` block
removes them one by one, and the first removal that is refused replaces the error of
the call and leaves the later ones untried (`RemovalRefused`, which ends in
`unclean`). `_stage_file` and the undo remove a temporary of their own, which the
call does not list (`stray`); `refused` is history: beside which files a removal was
refused. `Interrupt` is a `KeyboardInterrupt`, which the
`except Exception` does not see, so that only the `finally` block runs; `Kill` is
a kill, after which nothing runs. `EditProvider` is an editor that saves or
deletes a file meanwhile, `EditScratch` anything that changes the scratch copy
after its hash was approved. A content stands for the bytes and for their hash.

`AtomicApply` is the promise: `Commit`, `Abort`, or `Break` when the call is cut
short or reports an incomplete rollback. After a `Break` each file is as it was
or as reviewed, but for one at most: the scratch copy may be edited between the
hash check and the replacement, which the re-read finds unless the call ends first. The refinement shows the caller the
provider as it was until the call ends (`Observed`) and maps the end of the call
to one step. Files edited meanwhile are excluded from what is promised, and
only they are.

### ReviewGate

The three files of each domain are variables (`scratch`, `json`, `patchFile`),
each with the values *missing* and, for the two written in place, *cut short*.
`pc` is the place of the session between two effects on files, which is where a
kill or an edit can fall. A patch is the set of its changes
`<<file, before, after>>` and stands for its text and its hash: `Patch(from, to)`
is `_combined_patch` over `_changed_files`. `Generate` is the loop (`AutoRun`):
it ends with any candidate within the domain's scope, and with parked rows if
the domain is not clean. `Apply` and `ApplyFails` are the transaction
(`ApplyTransaction`), which justifies `PartlyApplied`: a call that does not
commit leaves some of the patch's files replaced (`OnlyPartsOfThePatch`).
The scopes of several domains may hold the same script. `left`, the provider as
each domain's last scan of this session left it, `touched`, `declined`, `refused`,
`kills` and `edits` are history, used by properties and bounds.

### GapDecision

`Resolve` is `SolutionProfile.resolve` with its specificity order and its refusal
of ties; `Enrich` is `_enrich_row` with `_resolve_action`,
`_reconcile_masked_failure` and the narrowing of `safely_fixable`; `Decide` is
`decide_gap`; `Ready` is `validation_profile_issues`. A pattern is a literal, or
`"*"` for any pattern with a glob character. Its names differ from those of
`ReviewGate` (`phase`, `decisionVars`, `DecisionSpec`), so that `GateProofs` can
extend both.

### AgentTurn

| Model | Code (`agent.py` unless named) |
|---|---|
| `saved` | `agent-state.json`: `AgentState` with the artifacts a later turn reads |
| `Turn`, `Resumes` | `run_agent_turn` up to the dispatch on the saved status |
| `Apply`, `ApplyRefused`, `ApplyFails`, `SaveApplied` | `_apply_reviewed_change` over `apply_verified_change_set` (`change_verification.py`) |
| `DomainPasses`, `TargetPasses`, `LiveFails`, `Parks`, `Recorded` | `_run_live_and_advance` and the failure state |
| `Rollback`, `RollbackRefused` | `rollback_change_application` |
| `AllGreen`, `NotEditable`, `ContextRefused`, `NoGenerator`, `Request`, `Refuses` | `_prepare_next_change`, with `advance_loop` (`loop.py`) choosing the gap |
| `Propose`, `Verified`, `NotVerified`, `Identical` | `build_change_proposal` (`changes.py`) and `verify_change_set` |
| `Save`, `Stop` | `_save_state`; a call that raises, or a kill |
| `Cut`, `RemoveState` | a kill or a full disk in the middle of `_write_json`, which truncates the file; `load_agent_state` refuses it until somebody removes it |

A change set has one file: how several are replaced is `ApplyTransaction`.
Iteration numbers only name files and are left out. `mem` is what the turn carries
in memory; `Forget` is the end of a turn that saved nothing. The provider is
read twice for one candidate, by `Propose` for the patch that is shown and by
`Verified` for the manifest that is applied, and the ISV may edit in between
(`agent.py:321-332`): the shown patch then starts from another content than the
manifest. `unproven`, `orphans`, `edited` and `fullPass` are history: files a turn
wrote that no live run has passed since, those that only the cut state named, files
the ISV wrote since, and whether the whole domain passed since the last write.

### Evidence

| Model | Code |
|---|---|
| `NewRunDir`, `IsFree`, `NotAfter`, `IsLatest` | `new_run_dir`, `latest_run` (`runs.py`) |
| `LiveRun`, `LiveRows`, `Success` | `run_live_domain` (`live.py`), with `scan_dynamic` (`scan/dynamic.py`) |
| `Record` | artifacts, explanations and `write_run_record` |
| `Merge`, `OpenReport`, `CloseReport`, `ReportUnreadable` | `run_test_domain` from the record on (`simple.py`) |
| `StatusScans`, `StatusEnds` | `cmd_status` |
| `Validated`, `Ready` | `assess_readiness` (`readiness.py`) |
| `StartPublish`, `Create`, `Upload`, `Complete` | `publish_project` (`publish.py`); the report (line 130) and the latest runs (`readiness.py:79`) are read in one step |

Two processes run side by side: the tester is the last part of `gapctl validate`,
the publisher `gapctl publish`. The record and the report are written in separate
steps, and the report is emptied before it is filled, so a kill can fall in
between. `success` is not in the record, only in the explanations beside it; the
model keeps it with the run because the properties speak of it, and no action
reads it. A run id is a domain, a second and a suffix; the clock is looked at
only when a directory is made. The blocking flag of a row is the result of
`GapDecision` for a profile admitted to validation
(`OnlySignedSkipsAccepted`): what does not pass blocks, but for a signed skip.
`unmerged` and `hasty` are history: the domains with a record that the report was
never rewritten for, and whether a publication was assessed while there was one.

### Supervision

`run_captured` is modelled once, for a supervisor `s` and its child, and used
for gapctl and for the adapter.

| Model | Code (`subprocesses.py` unless named) |
|---|---|
| `StartAdapter`, `StartModel`, `InstallHandler` | `Popen`, then `signal.signal`: a signal can fall in between |
| `Completes`, `PollAgain`, `TotalTimeout`, `IdleTimeout`, `Progress` | `_communicate_with_wall_timeout` |
| `Stop`, `Kill`, `Reaped`, `GapctlReaps`, `AdapterReaps` | `_stop_and_reap` with its two grace periods |
| `HandleTerm`, `Interrupt` | `_raise_termination`, Ctrl+C, and what either does outside of its handler |
| `AdapterAnswers`, `LimitOf` | the attempts and limits of `codex_generator.py`, `claude_generator.py` |
| `Rejected`, `Return` | `dispatch_generator` (`generation.py`) and its comparison of the protected roots |

A signal that comes between the start of a child and the installation of the
handler, or in the middle of a cleanup, ends the supervisor there (`Excuse`); one
that is on its way while a deadline passes arrives after it.

`Tick` is the clock; it waits for whoever has something to do within this tick.
`Sleep` is a machine that sleeps: wall-clock deadlines pass, polls do not.
`silence`, `own`, `slept`, `late` and `excuses` are history; `own` counts the ticks
in which the adapter works for itself or waits out a grace period of its model, up
to `Headroom`.

### Qualification

| Model | Code |
|---|---|
| `Start`, `UseCache`, `BeginSync`, `SyncSource`, `RemoveUndeclared`, `WriteIndex`, `CacheIsCurrent` | the first part of `cmd_qualify` with `sync_context_sources`, `context_cache_is_current` (`context.py`) |
| `BuildPack` | `build_qualify_pack` |
| `AdapterAnswers`, `AdapterFails`, `Export`, `Import`, `ImportRefused` | `draft_profile` (`qualify.py`) with its retries and feedback, over `generators.py` |
| `WriteProposal`, `Check`, `Reviewable`, `Conflicts`, `Promote`, `Hash`, `UnchangedSinceHash` | the review: schema, references, runs, open decisions, the displayed hash |
| `HashFails` | a proposal that is gone when it is hashed: `_file_sha256` raises |
| `BackUp`, `WriteActive` | the promotion |

`Kill` ends the command and cuts the file that is being written. A cut file does
not parse. `Around` is everybody else: an editor, the project file, a live run.
`excuses` names the windows in which one of these falls between two statements
that belong together.

### Exchange

A provider is the set of gaps closed in it. A process is `adapter`, `export` or
`import`; `Wanted` is what the loop of `AutoRun` asks for next, from the first
domain on, and `Enter` shows a stored review or begins the loop with a copy of
the provider. A request is what it is about, what it shows of the domain, and
how many failures it repeats, which is what decides whether two requests are
the same text; `Export` and `Import` are `FileExchangeRunner`, `Fits` the
comparison of gap and context hash in `run_generator`. What `Take` does is
`AutoRun` reduced to the outcome of an answer: the ledger of failures is there,
the files of the review are in `ReviewGate`. A good candidate closes its gap and
may open what the scan of its domain does not see (`Exposed`): findings of its own
domain, and the gaps in `Shared`, which are in scripts that every domain may change.
The ISV closes gaps between two processes (`CloseByHand`) and may close or open one
at any point of a process (`Edit`). `during` remembers what the ISV edits while a
domain is generated, which the patch takes back; `audits`, `left` and `edited` are
the history of this process: what the latest audit of each domain was shown, what
each domain was when the process left it, and what the ISV has edited since.

## 3. What is checked

| Run | Checks | States | Shows |
|---|---|---|---|
| `AutoRun` | `NoThirdIdenticalFailure`, `BudgetsKept`, `StagedGapsStayResolved`, `EveryBlockerReported`, `SemanticFixesAudited` | 179,045 | the loop keeps its budgets and its promises |
| `ApplyTransaction` | `NothingLost`, `NoTemporaryLeft`, `Implements` | 1,607,744 | the transaction under failures of every step, its cleanup included, interrupts, kills and edits of any file, and its refinement |
| `ReviewGate` | `DeclinedNotShownAgain`, `OfferedWithinScope`, `LiveOnlyWhenClean`, `OnlyReviewedChanges` | 3,810,288 | two domains that share a script, a kill and an edit anywhere in the session |
| `ReviewGateRepeat` | `RepeatReachesLive` | 3,424 | two domains, two kills: repeating the command, and declining a review whose approval was refused, ends in the live run |
| `GapDecision` | `OwnedFailureBlocks`, `OnlySignedSkipsAccepted`, `FailureHasARoute`, `NarrowerSelectorDecides` | 241,984 | every scope against every row, and overlapping selectors |
| `AgentTurn` | `OnlyApprovedOrRestored`, `FailedChangesRemoved`, `CompleteMeansGreen`, `EveryRetryHasANewFailure` | 598,319 | three checks, a turn that stops, also while it writes its state, and an edit by the ISV in any phase |
| `Evidence` | `RecordsNeverRewritten`, `ReportHoldsLatest`, `ReadyMeansSucceeded`, `UploadsAssessedRun` | 3,130,646 | two domains, three live runs, a kill, a new profile, a removed report and a publication |
| `EvidencePublished` | `PublishedRunSucceeded` (violated) | | between the record of a run and the report about it, a run that did not succeed is published as a success |
| `Supervision` | `NobodyLeftBehind`, `TouchesReported`, `IdleDeadlineKept`, `ModelTimeoutsReported`, `TimeRunsOut`, `EveryCallEnds` | 542,183 | one call with each adapter, with two signals and a sleep: who is left, what is reported, which deadline decides, and that no step gives the call time back |
| `Qualification` | `NoStaleEvidence`, `InitialKept`, `PromotedAsReviewed`, `NoRefutedClaim`, `RepeatQualifies` | 62,211 | repeated commands with a kill and a change around them |
| `Exchange` | `LiveIsAudited`, `FindingsStayHome`, `ExportKeepsCandidates`, `StagedAsAsked` | 848,801 | processes of all three routes in any order, with stale answers, manual changes, and a kill, an edit during a process or a candidate that opens a gap |
| `ExchangeDomains` | `FilesReachLive` (violated) | | two audited domains: exporting and importing never gets to the live run |

The type invariants are not checked by these runs, because they are proved
(section 4).

### Bounds, and why they are enough

* `AutoRun`: two gaps share a unit (the smallest case of a shared budget), a
  third shares its unit with an audit finding, and another finding is not
  editable. `MaxAttempts = 3` and two fingerprints allow two different failures
  with a repetition between or after them, which is what the ledger must tell
  apart. One set of limits (12 passes, no call limit, three root causes) never
  bites before the attempts do; the other (4 passes, 3 calls, two root causes)
  cuts the loop and the ledger short at every place where the code looks at it.
  The model reaches a depth of 10 steps, fewer than the first limit allows.
* `ApplyTransaction`: a patch of two files, one replaced and one created, is the
  smallest in which a failure can fall before, between and after replacements; the
  proofs cover every `N`. Four contents (old, new, other, absent) distinguish everything
  the properties name.
* `ReviewGate`: two domains exercise moving on and coming back. Each has a
  configuration of its own, and both may change one script, which the first needs
  fixed: a patch of two files can be applied in part, and the second domain can break
  the first. One kill and one edit by the
  ISV are enough for every pair of "state written" and "state read later", and
  both can fall at any point except that the edit may not fall into the
  generation itself (the last section says what happens then).
* `GapDecision`: every combination of coverage, mode, owner, ratification and
  ownership with every row status, the same under an override by a capability,
  and three capabilities with selectors of every specificity over two
  dimensions.
* `AgentTurn`: two checks that may be edited and one that may not; one of the
  files does not exist yet, which is the case without a backup. The candidates
  are one content that passes the scan and one that does not; the ISV writes a
  content of their own, puts the first one back, or writes what the candidate is.
  Three attempts and three fingerprints let either budget, or a repetition, end
  the gap. The one stop can fall into the writing of the state.
* `Evidence`: two domains for one to be kept while the other is run; three runs,
  two of them in one second, so that a domain can be run again; one of every
  disturbance. Each domain has one check, one of which the profile may let skip:
  a pass, a failure, an accepted or a blocking skip, a missing testcase and an
  unreadable file are all the rows a run is judged by. `EvidencePublished` needs one
  domain with two checks, so that one can pass while the other is missing.
* `Supervision`: an adapter that asks its model once, one that may ask twice for
  half as long, and a configured one. Model calls of 2 or twice 1 ticks
  and a headroom of 4 fill the call's 6 ticks exactly, as 1680 or twice 840 and 120
  seconds fill 1800 (`BoundaryAssumption` is the comment of `generator_limits.py` as an
  inequality): nothing is left beyond the headroom, so the two grace periods of
  1 for each stopped model have to come out of it, and the adapter's own work can use
  it up; with a poll of 2 the idle
  deadline of 3 falls between two polls and the total one on a poll. Two signals are what it takes to
  disturb a cleanup, and one sleep to separate the clocks.
* `Qualification`: a required page and an optional local file, two versions of
  each; drafts that claim the domain, exclude it, leave it open or name another
  one; one kind of invalid answer; two attempts. One kill and one change are
  enough for every pair of "written" and "read later".
* `Exchange`: two audited domains, each with a gap to generate. The first has one
  that only an audit finds, and its two gaps are in scripts that the second may
  change; the second has one that only a person may close. Two
  attempts let a request differ from an earlier one by its failures. One mishap, a
  kill, an edit within a process or a candidate that opens a gap, is what each of the
  properties needs to meet its exception or its mutant; what a person does between
  processes is not bounded. `ExchangeDomains` needs two audits and no gap.

`CHECK_DEADLOCK FALSE` is set where the modelled call ends: a run of the loop, a
transaction, a supervised call and a decision are over at some point, and a
session whose bounds on kills and edits are spent may rest. A completed workflow
has no further turn, and the counts of `Evidence` bound its processes. Between two commands of
`Qualification` and `Exchange` a person may do nothing.

### Fairness

* `ReviewGate!FairSpec` is a statement about people as well: the command is
  repeated, a review is approved (in `ReviewGateRepeat` a review that was refused is
  declined instead), the live run is agreed to and the generator
  closes the gaps (`Persevering`); a person who is told to remove a work
  directory does it at some point (`SF` of `CleanUp`, because the error returns
  with each repetition). Kills are bounded.
* `Supervision!FairSpec` is weak fairness of the supervisors and of the clock and
  nothing else: models, helpers and configured adapters may hang for ever. That
  every call ends is what makes each pass of `AutoRun` and each generation of
  `ReviewGate` one that ends.
* `Qualification!FairSpec`: a command goes on to its end (weak fairness of
  `Proceed`) and is repeated with an adapter. Strong fairness where the world
  alternates: the page can be reached at some point, the adapter gives a valid
  answer at some point, and the person resolves what is open and approves.
* `Exchange!FairSpec`, which only `ExchangeDomains` uses: a process goes on to its
  end. The person exports, has a first request answered soundly, imports that answer
  while its request is the one exported, approves, and declines a review that was
  refused; each of these is disabled again and again by the other routes, hence
  strong fairness. The live run is not reached although all this happens.

### Where the code and its documents disagree

Two disagreements are runs of their own:

1. **What is published** (`EvidencePublished`). `publish.py:117` and
   `README.md:442-443` speak of the latest successful run of every owned domain.
   The record of a run that exited with 0 without succeeding is on disk before the
   report shows its rows; if the process dies there, or `publish` is called
   meanwhile, the exit code of the new run is judged with the rows of the old one,
   and the new JUnit file is published as a success. The window is exactly that:
   what is uploaded did succeed if no publication was assessed within it
   (`UploadsAssessedRun`, with `hasty`).
2. **File exchange of several domains** (`ExchangeDomains`). `README.md:369-370`
   says that the file exchange applies to validation like the other routes.
   Each process audits the first domain again, which is a request of its own; an
   import brings one response, and the export for the second domain replaces the
   exported request. With two domains whose covered tests must be audited no
   sequence of exports and imports reaches the live run.

Others were met while modelling and are part of the models, as behaviour that
the properties except or do not promise:

* `docs/architecture.md:193-195` promises one post-change audit after a
  successful semantic candidate, and `auto.py:249` has a reason for the review when
  it is pending. The loop leaves without it when a budget of the run is spent or
  another row blocks (`auto.py:274`, `auto.py:420`; `SemanticFixesAudited` says exactly
  when), and a finding that the audit reports again is dropped because its id is among
  the staged ones. Once the patch is applied, the domain is audited again before
  the process goes on.
* The file exchange never generates the fix of an audit finding. `README.md:369-370`
  and `docs/architecture.md:185-195` send findings through the same generation as
  other gaps; but an imported audit uses up the one call of its process
  (`journey.py:281`), the loop breaks at `auto.py:274`, the finding is parked, and the
  next process, which knows nothing of it, asks for the audit again. No request is
  ever about a finding (`FindingsStayHome`): findings need an adapter or a person.
* `_park` leaves out every row whose id is staged (`auto.py:576`). A call that staged
  a candidate, and then finds the same content in the provider because the ISV
  wrote it meanwhile, has an empty patch and nothing parked: the domain is left
  without the audit that follows a review (`left[d].staged` in `LiveIsAudited`).
* Earlier domains are neither scanned nor audited again before the live run
  (`journey.py:266-354`), although a later domain's candidate may change every file
  below `scripts/` (`changes.py:252-260`) and the ISV every file. `README.md:310-311`
  speaks of a live run without a known blocker; what may have opened in an earlier
  domain meanwhile is named by `LiveOnlyWhenClean` and `LiveIsAudited`.
* An audit is compared with the manifest, the validation root and the scratch copy
  only (`domain_audit.py:218`), though `docs/architecture.md:218-222` also names the
  provider tree and the profile. `TouchesReported` is about the roots a call is given.
* The headroom of `generator_limits.py` is two minutes for adapter and
  serialization; the limits leave no time of their own for the grace periods, up to
  five seconds each, of a model that is stopped. An adapter whose own work leaves
  no room for them is stopped before it can report the timeout (`own` counts both in
  `ModelTimeoutsReported`).
* A removal that is refused in the `finally` block of the transaction
  (`auto.py:955-957`) raises in place of the error that says whether the rollback
  was complete, and leaves the temporary files after it in the provider
  (`"unclean"`).
* `PIPELINE.md:60` calls the application of a patch atomic. A `KeyboardInterrupt`
  between two replacements is not an `Exception`, so no rollback runs (`Break`
  in `AtomicApply`, which leaves a part of the patch). The originals are in the backup (`NothingLost`).
* `README.md:400-401` says to repeat the command until a live test. If the
  process dies after the provider was changed and before the record was written,
  the stored review is shown again and every approval is refused; only declining
  it gets the session going again, which `ReviewGateRepeat` assumes.
* `PIPELINE.md:83-84` says that state lives in files and not in a running
  process. A live failure takes the change out of the provider and goes on to the
  next candidate in the same turn; when the generator then fails, nothing is
  saved, and the file still says that the change is applied.
* `agent-state.json` is written in place (`agent.py:913-930`). A kill in the middle
  leaves a file that every later turn refuses (`agent.py:172`); removing it starts a
  new workflow, and a change that had not passed stays in the provider with no
  state that names it (`orphans` in `FailedChangesRemoved`, one for each such kill).
* gapctl waits for its adapter, after SIGTERM, as long as the adapter waits for
  its model. When the model ignores SIGTERM, the adapter is killed before it has
  killed the model, which is left running (`"ignored"` in `NobodyLeftBehind`).
* A retry request that was exported holds the failures of its process. The next
  process has none and builds another request, so the answer is refused.
* The backup of the initial profile is made if no file is there: one that a kill
  cut short stays (`"backup"` in `InitialKept`).

## 4. What is proved

All theorems hold for every value of the constants under the named assumptions
of the module (`RowAssumption`, `BudgetAssumption`, `LimitAssumption`;
`PatchAssumption`; `GateAssumption`; `InputAssumption`; `TurnAssumption`;
`EvidenceAssumption`; `ExchangeAssumption`; `ScopeAssumption`;
`SupervisionAssumption`), which only say what kind of thing each constant is. One
theorem, `ModelTimeoutsAreReported`, uses `BoundaryAssumption` too, the inequality
between the limits that the comment of `generator_limits.py` asks for, and which its
constants satisfy: 1680 or 2 * 840 seconds and the headroom of 120 are 1800. TLC
evaluates each of them in a run. Where a theorem has a premise about the behaviour,
its property or its statement names it.

| Theorem | Property | Argument |
|---|---|---|
| `AutoRunProofs!TypeCorrect` | `TypeOK` | inductive; that attempts stay within `MaxAttempts` rests on the guard of `Selected`, and `LimitsKept` makes the limits constant |
| `BudgetsAreKept`, from `CallBudget`, `SharedBudget`, `BudgetsBound` | `BudgetsKept` | its three parts: every step that counts a call has `~BudgetSpent` as a guard; `AttemptInv`, the attempts of a unit are at least its failures and its staged candidates; `PassInv`, the passes begun are at most the attempts used, one for the first audit and, outside the loop, one for the last pass (`MoreSpent` counts with the library's theorems on finite sets) |
| `RepeatedFailureParks` | `NoThirdIdenticalFailure` | needs `LedgerInv`: a unit whose ledger repeats a fingerprint has used up its attempts, and such a unit is never selected again; `FailedLedger` shows that one more failure keeps both |
| `StagedGapsProtected` | `StagedGapsStayResolved` | only `Stage` changes statuses, and `Verified` protects what passes; inductive by itself |
| `BlockersReported` | `EveryBlockerReported` | needs `ReviewInv`, which ties the review to the rows of the state it was written in, `GivenUpInv`, by which a gap that is given up has no attempts or no budget left, and `StagedGapsProtected`: a row left out because it was staged does not block |
| `SemanticFixesAreAudited` | `SemanticFixesAudited` | `AuditInv`: a finding is staged only after an audit, and marks the run as one with a semantic candidate; `LeftInv`: the ways out of the loop that skip the post-change audit, each with its reason, which `WriteReview` carries into the review |
| `ApplyTransactionProofs!TypeCorrect` | `TypeOK` | with `PositionInv` and `TakenInv`, below |
| `AllOrNothingHolds`, `NothingIsLost` | `AllOrNothing`, `NothingLost` | `PositionInv`: which files the counter `file` has passed in each part of the call. `TakenInv`: which files have a backup. `ContentInv` and `EarlyInv`: for every file that nobody edits, or was edited before its backup, what provider and backup hold at its position; the rollback reads it backwards |
| `TemporariesRemoved` | `NoTemporaryLeft` | `StagedInv`: which temporary files exist and are known to the call at each position, the one at which the cleanup is refused included; `StrayInv`: those the call does not list were refused, and none is there before a failure |
| `TransactionIsAtomic` | `Implements` | the initial state maps to the abstract one; steps inside the call map to stutters or `Edit`, and each of the seven ways to end maps to `Commit`, `Abort` or `Break`, by `ContentInv`. For `Break`, `OneOdd`: of the files nobody edits at most one is neither as before nor as after, because the re-read of the first one ends the replacements |
| `OnlyPartsOfThePatch` | | justifies `PartlyApplied` of `ReviewGate`; with the premise `ScratchKept` there is no such file: `StagedFromPatch`, what is staged and not yet replaced comes from the patch |
| `GateProofs!TypeCorrect` | `TypeOK` | inductive |
| `ReviewedChangesOnly` | `OnlyReviewedChanges` | action property; the lemma on `PartlyApplied` shows that a patch applied in part changes nothing outside it |
| `OffersStayInScope` | `OfferedWithinScope` | needs `ScopeInv`: from the copy to the record the scratch differs from the provider in the domain's scope only, and every stored review does too. Premise: nobody edits the provider during generation |
| `LiveStartsClean` | `LiveOnlyWhenClean` | for any scopes, shared ones included: `CleanInv`, the domains the session has passed (`Passed`) were clean when it left them, and what differs since is in the scope of a later one (`ChangedLater`), by `ScopeInv` for the patch that is applied, in part or whole. Premise: no edits during generation |
| `DeclinedStaysAway` | `DeclinedNotShownAgain` | `DeclinedInv`: from the moment a review is declined its domain has no readable record, and what is being recorded, shown or applied is not declined; each of the ways to cut a step short keeps it |
| `DecisionTypeCorrect`, `PipelineHolds` | `DecisionTypeOK` | each stage has the type of its operator (`ResolvedTyped`, `RouteTyped`, `EnrichmentTyped`, `DecisionTyped`); `Pipeline`: what each stage has computed is what the definitions give for this row and profile |
| `EditsAreApproved`, `OwnedFailuresBlock`, `SkipsAreSigned`, `FailuresAreRouted` | `EditNeedsApproval`, `OwnedFailureBlocks`, `OnlySignedSkipsAccepted`, `FailureHasARoute` | from `Pipeline`; by cases over the routes |
| `NarrowerDecides` | `NarrowerSelectorDecides` | over all rows there can be (`AllRows`, its premise), fewer rows mean fewer values in each dimension (`NarrowerInEach`), hence a specificity at least as high (`MoreSpecific`, by the library's theorems on cardinalities); the narrower one would then be a second best, which `Resolve` refuses |
| `AgentTurnProofs!TypeCorrect` | `TypeOK` | with `Carried`: what a turn has in memory in each phase, which the next step reads |
| `WritesAreApproved` | `OnlyApprovedOrRestored` | action property; from `Carried`, which says that a turn that applies has an approval equal to the saved patch, and a manifest with the same content |
| `RetriesNeedNewFailures` | `EveryRetryHasANewFailure` | `Budgets`, of the saved state and of the one in memory; `NewPrintsCount` is the step that counts a failure |
| `FailuresLeaveNothing` | `FailedChangesRemoved` | `UnprovenInv`: in every phase the only unproven file is the one the turn is about, or there is none; each way to lose a turn keeps it for the saved state. `OrphanInv`: a cut state loses that file only, so each kill adds one orphan at most |
| `CompleteIsGreen` | `CompleteMeansGreen` | `GreenInv`: the whole domain is run only on a provider that passed the scan, and a workflow that completed does not go on |
| `EvidenceProofs!TypeCorrect` | `TypeOK` | with `Typed`: a tester past `begin` has a run of its domain, a publisher past its assessment has evidence |
| `RecordsKept` | `RecordsNeverRewritten` | `DirInv`: a record is in a directory that exists, and the directory of the current run has none yet, because `IsFree` asks for a new one |
| `ReportShowsLatest` | `ReportHoldsLatest` | `OrderInv`: the directories of a second are numbered without a gap and none is later than the clock, so a new run is the latest (`OneLatest`); `ReportInv`: report and draft show the latest run of every merged domain |
| `ReadySucceeded` | `ReadyMeansSucceeded` | `ReportInv` and `SoundInv`: rows that pass without a blocking one, and exit code 0, imply that the run succeeded |
| `UploadsAreAssessed` | `UploadsAssessedRun` | `PublishInv` with `RunsGrow`: what could be published when it was assessed still can; by `ReadyMeansSucceeded` it had succeeded if every record was merged at that time (`Fit`) |
| `ExchangeProofs!TypeCorrect` | `TypeOK` | with `MemoryInv`: what a process that ended has forgotten |
| `LiveRunIsAudited` | `LiveIsAudited` | `PassedInv`: every domain this process has passed is `Done`, that is it was left closed and audited, and what is different since is the ISV's or in a shared script. It is so when the domain is left, because the latest audit of a loop without a staged finding is about the content as it is (`LoopInv`, `LeavesClean`), and it stays so because loops and stored reviews change only their own domain's gaps, shared scripts and what the ISV edited meanwhile (`LoopInv`, `StoredInv`, `StaysDone`) |
| `FindingsAreNotExported` | `FindingsStayHome` | `MemoryInv`: a process has findings only after an audit call, which an export process never makes, and after which `Spent` ends the loop of an import |
| `ExportsKeepCandidates` | `ExportKeepsCandidates` | `LoopInv`: a candidate is staged only by an adapter or by the one imported call, after which `Spent` ends the loop |
| `StagedWasAsked` | `StagedAsAsked` | `ResponseInv` for the type of what is imported; the rest is `Importable` and `Fits` over `Wanted` |
| `QualificationProofs!TypeCorrect` | `TypeOK` | with `CarryInv`: what the command has in memory in each phase |
| `EvidenceIsFresh` | `NoStaleEvidence` | `SyncInv`: what the synchronisation has passed; `FreshInv`: a local file in a pack, or in a cache that was found current, is a version of `had` |
| `InitialIsKept` | `InitialKept` | `BackupInv`: before the active profile is written its copy is made or was there |
| `PromotionIsReviewed` | `PromotedAsReviewed` | action property; `ReviewedInv` relates what was checked, promoted and hashed to the proposal in each phase, for each window |
| `ClaimsStand` | `NoRefutedClaim` | action property; `ClaimInv`: past the comparison, what is to be promoted conflicts with no run unless something happened since |
| `SupervisionProofs!TypeCorrect` | `TypeOK` | in three parts, control, timers and the rest (`ControlStep`, `TimersStep`, `OthersStep`) |
| `TimeIsBounded` | `TimeRunsOut` | action property; `Rest` is a variant: each change of `pc` of gapctl moves to a state with at most as much left (`RestOfStop`), and `Tick` is not possible when a timer that would be counted down is at 0 |
| `IdleDeadlineHolds` | `IdleDeadlineKept` | `IdleInv`: while gapctl waits, `Quiet` bounds the silence from both sides: together with the idle timer it is at least the idle limit if nothing was written since the last poll, and it exceeds the limit by a poll at most |
| `NobodyLeft` | `NobodyLeftBehind` | `StopInv`: a cleanup whose SIGTERM is still on its way has its grace period before it (`PendingInv`); the adapter is off when a cleanup kills or has ended, but for an excuse, and never waits for its model once it was told to stop (`AdapterInv`); a model that runs while its adapter stops it or is gone has an excuse (`ModelInv`) |
| `TouchesAreReported` | `TouchesReported` | `RootsInv`: the outcome of a call that has ended says what the roots were; `StopInv`: an answer comes back only from an adapter that is off, and without a model |
| `ModelTimeoutsAreReported` | `ModelTimeoutsReported` | `ChargeInv`, an account of the ticks since gapctl waits: each was the adapter's own, which a grace period of its model is as well, or was granted to a call of its model (`Charged`); what is granted is bounded by the attempts (`GrantedBounded`), so `BoundaryAssumption` leaves the outer deadline time until the adapter has used up its headroom |

Each property was model-checked before it was proved. Every invariant and action
property of the runs that pass is proved, the two parts of `BudgetsKept` that count
included.

Only model-checked: liveness (`RepeatReachesLive`, `EveryCallEnds`,
`RepeatQualifies`), which needs ENABLED and well-founded
induction, beyond the prover. Of `EveryCallEnds` the safety part is proved:
`TimeRunsOut` bounds the ticks of a call; what is left to TLC is that time goes
on, that is that the call never waits for a tick that cannot come.

## 5. What is not modelled, and what that hides

* **Edits during generation.** The patch is taken against the provider as it is
  when the loop ends, so an edit the ISV makes while the loop runs appears in
  the review as a change to be taken back. `OfferedWithinScope` excludes it, and
  the hazard is listed; the hash binding still holds (`OnlyReviewedChanges`).
* **A late edit of a file already backed up** is overwritten by the transaction
  and is nowhere afterwards. The code has no lock and promises nothing;
  `NothingLost` says exactly which edits survive.
* **File modes, deleted files, line endings.** The transaction also restores
  modes; patches do not delete files; two different contents are taken to have
  different patch texts.
* **Supervision.** A child that closes its output before it ends, systems that are
  not POSIX, more than one sleep.
* **Qualification.** Excerpts and their selection, the removal of a source from the
  project, hand edits of the active profile, and a file cut short that still
  parses.
* **Exchange.** The failure ledger (`AutoRun`) and the files of a review
  (`ReviewGate`) are abstracted; a request is about one gap, and the passes of a
  call are not bounded by `max_iterations`. An approved patch is applied whole.
* **Publication's two reads.** The report and the latest runs are read in one step;
  `UploadsAssessedRun` holds of the code with the moment of the assessment read as
  the interval between them.
* **Text.** Requests, review wording, failure normalisation and redaction,
  context packs, prompts.
* **Input files.** Loading and cross-validating projects and profiles refuses a
  file or returns the record the models start from. The scanner's parsing is not
  modelled.
* **The live run** is one step of `ReviewGate` and of `AgentTurn`.
* **Change sets of several files** are one file in `AgentTurn`. A rollback of
  several files that is refused half way is not shown.
* **The per-gap retry state of `loop.py`**, which the agent does not pass on, the
  wording of feedback, and the record of the application for readers.
* **Ten runs of a domain in one second**: suffixes are compared as text, so the
  tenth would sort before the second. `EvidenceAssumption` stays below.
* **Static rows of `gaps.json`**: they can only add blocking rows. **Two
  testers at once**, explanations, rows about the execution adapter, tokens and
  the commit check of a publication.

## 6. Plan

Done: `GapDecision`, `AutoRun`, `AtomicApply`/`ApplyTransaction`, `ReviewGate`,
`AgentTurn`, `Evidence`, `Supervision`, `Qualification`, `Exchange`, their
instances and the proofs about each of them. The order was that of a
validation session, the most important behaviour first: what happens to the
provider's files, what the session does with its own, the loop and the decision
below it, then the other workflow, what the live runs leave behind, and last the
generator: one call, an exchange of files, and what qualification drafts with it.

What is left, in this order:

1. **ChangeSet**: application and rollback of several files
   (`change_verification.py`), as a refinement of an abstract change set that
   `AgentTurn` uses.
2. An abstract generator that answers each request at most once, implemented by
   `Exchange`, and `Exchange` as a refinement of the sessions of `ReviewGate`.
3. The order of rows and the merging of reports in the scanner (`scan/`), and
   the template fixes (`fixes.py`), as pure functions.

------------------------------ MODULE Evidence ------------------------------
(***************************************************************************)
(* Live evidence: what a live run leaves on disk, what gaps.json says of   *)
(* it, what readiness makes of both, and what `gapctl publish` uploads.    *)
(*                                                                         *)
(* Two processes share the project directory.  The tester is the last part *)
(* of `gapctl validate`: one live run for each owned domain, each recorded *)
(* in a run directory of its own and merged into gaps.json, then the       *)
(* status.  The publisher is `gapctl publish`.  Either may fail or be      *)
(* killed between two steps; a person may remove gaps.json and sign other  *)
(* skips in the profile at any time.                                       *)
(*                                                                         *)
(* A row is the dynamic row of one check.  Its blocking flag is the result *)
(* of decide_gap on the route the profile gave when the row was made, which*)
(* is stored with the row.  Static rows are left out: they can only add    *)
(* blocking rows to a report.                                              *)
(***************************************************************************)
EXTENDS Integers, Sequences

CONSTANTS
  N,               \* the owned domains are 1 .. N, in the project's order
  Checks,          \* the validations of all domains
  DomainOf,        \* the domain of each
  JUnitContract,   \* the name of the row about a JUnit file that cannot be read
  None,            \* the id of no run
  Profiles,        \* the sets of checks whose skip the profile may accept
  Reviewed,        \* those of the first reviewed profile
  MaxTime,         \* seconds of the clock that names run directories
  MaxSuffix,       \* run directories of one domain and second
  MaxRuns,         \* live runs
  MaxFailures,     \* processes that fail or are killed
  MaxQualifications, \* changes of the accepted skips
  MaxRemovals,     \* removals of gaps.json
  MaxPublications  \* invocations of gapctl publish

Domains == 1 .. N

Events == {"run", "fail", "qualify", "remove", "publish"}

MaxOf == [run |-> MaxRuns, fail |-> MaxFailures, qualify |-> MaxQualifications,
          remove |-> MaxRemovals, publish |-> MaxPublications]

RunIds == [domain : Domains, stamp : 0 .. MaxTime, suffix : 1 .. MaxSuffix]

ASSUME EvidenceAssumption ==
  /\ N \in Nat \ {0}
  /\ DomainOf \in [Checks -> Domains]
  /\ JUnitContract \notin Checks
  /\ Profiles \subseteq SUBSET Checks /\ Reviewed \in Profiles
  /\ MaxTime \in Nat
  /\ MaxSuffix \in 1 .. 9 \* suffixes are compared as text: -10 is before -2
  /\ MaxOf \in [Events -> Nat]
  /\ None \notin RunIds

Rows ==
  [check : Checks \cup {JUnitContract}, status : {"pass", "fail", "skipped", "error"},
   blocking : BOOLEAN]

\* run.json with the JUnit file beside it; `success` is in
\* run-explanations.json only, and `rows` are those of the run's own report.
Runs ==
  [id : RunIds, exit : {0, 1}, junit : {"none", "broken", "parsed"},
   rows : SUBSET Rows, success : BOOLEAN]

\* gaps.json, which a kill may cut short.
Reports == [file : {"missing", "cut", "whole"}, rows : [Domains -> SUBSET Rows]]

\* A test run of the Lab Service.
TestRuns == [run : RunIds, status : {"created", "uploaded", "SUCCESS"}]

VARIABLES
  dirs,      \* run directories
  runs,      \* those with a record
  report,    \* gaps.json
  signed,    \* checks whose skip the reviewed profile accepts
  clock,     \* the second in which the latest run directory was made
  tester,    \* where the tester is
  domain,    \* the domain it is at
  cur,       \* its live run
  draft,     \* the report it is about to write
  publisher, \* where the publisher is
  target,    \* the domain it is at
  evidence,  \* the runs its assessment chose
  service,   \* the test runs of the Lab Service
  unmerged,  \* history: domains with a record that gaps.json does not show yet
  hasty,     \* history: a publication was assessed while there were such domains
  counts     \* how often each bounded event happened

testerVars == <<tester, domain, cur, draft>>
history == <<unmerged, hasty>>
publisherVars == <<publisher, target, evidence, service>>
vars ==
  <<dirs, runs, report, signed, clock, testerVars, publisherVars, history, counts>>

NoReport == [file |-> "missing", rows |-> [d \in Domains |-> {}]]

NoEvidence == [d \in Domains |-> None]

NoRun == [id |-> None, exit |-> 1, junit |-> "none", rows |-> {}, success |-> FALSE]

\* The local variables of a process end with it.
TesterEnds == tester' = "idle" /\ domain' = 1 /\ cur' = NoRun /\ draft' = NoReport

PublisherEnds == publisher' = "idle" /\ target' = 1 /\ evidence' = NoEvidence

\* A bounded event happens.
Count(event) ==
  /\ counts[event] < MaxOf[event]
  /\ counts' = [counts EXCEPT ![event] = @ + 1]

-----------------------------------------------------------------------------
(* Run directories and their order.                                        *)

ChecksOf(d) == {c \in Checks : DomainOf[c] = d}

NewId(stamp, suffix) == [domain |-> domain, stamp |-> stamp, suffix |-> suffix]

\* Mutant: a directory that exists is used again.
IsFreeAlways(stamp, suffix) == suffix = 1

\* new_run_dir: the first suffix whose directory does not exist.
IsFree(stamp, suffix) ==
  /\ NewId(stamp, suffix) \notin dirs
  /\ \A s \in 1 .. suffix - 1 : NewId(stamp, s) \in dirs

\* Run ids are compared as text, which begins with the time stamp.
NotAfter(a, b) ==
  a.stamp < b.stamp \/ (a.stamp = b.stamp /\ a.suffix <= b.suffix)

\* latest_run
RunsOf(d) == {r \in runs : r.id.domain = d}

IsLatest(r, d) == r \in RunsOf(d) /\ \A other \in RunsOf(d) : NotAfter(other.id, r.id)

-----------------------------------------------------------------------------
(* run_live_domain: the rows of a run and its success.                     *)

\* decide_gap, for a profile admitted to validation (GapDecision).
Row(check, status) ==
  [check |-> check, status |-> status,
   blocking |-> status # "pass" /\ ~(status = "skipped" /\ check \in signed)]

\* The checks with a testcase in the JUnit file give a row each; a check that
\* has none gives an error row, unless the profile excluded it from the run.
\* An unreadable file gives a row of its own.
LiveRows(junit, outcomes) ==
  {Row(c, outcomes[c]) : c \in DOMAIN outcomes}
    \cup {Row(c, "error") : c \in ChecksOf(domain) \ (DOMAIN outcomes \cup signed)}
    \cup (IF junit = "broken" THEN {Row(JUnitContract, "error")} ELSE {})

Passes(rows) == \E row \in rows : row.status = "pass"

Blocks(rows) == \E row \in rows : row.blocking

Success(exit, outcomes, rows) ==
  /\ exit = 0
  /\ \A c \in DOMAIN outcomes : outcomes[c] # "fail"
  /\ Passes(rows)
  /\ ~Blocks(rows)

-----------------------------------------------------------------------------
(* The tester: run_test_domain for each domain, then cmd_status.           *)

StartValidate ==
  /\ tester = "idle"
  /\ tester' = "begin"
  /\ domain' = 1
  /\ UNCHANGED <<dirs, runs, report, signed, clock, cur, draft, publisherVars, history, counts>>

\* The run directory is made before anything else is checked.  The clock does
\* not go back.
NewRunDir(stamp, suffix) ==
  /\ tester = "begin"
  /\ Count("run")
  /\ stamp >= clock
  /\ IsFree(stamp, suffix)
  /\ clock' = stamp
  /\ dirs' = dirs \cup {NewId(stamp, suffix)}
  /\ cur' = [NoRun EXCEPT !.id = NewId(stamp, suffix)]
  /\ tester' = "live"
  /\ UNCHANGED <<runs, report, signed, domain, draft, publisherVars, history>>

\* The live run ends with an exit code and any JUnit file, or none.
LiveRun(exit, junit, outcomes) ==
  /\ tester = "live"
  /\ junit # "parsed" => DOMAIN outcomes = {}
  /\ LET rows == LiveRows(junit, outcomes)
     IN  cur' = [cur EXCEPT !.exit = exit, !.junit = junit, !.rows = rows,
                            !.success = Success(exit, outcomes, rows)]
  /\ tester' = "record"
  /\ UNCHANGED <<dirs, runs, report, signed, clock, domain, draft, publisherVars, history, counts>>

\* The artifacts get their names, the explanations and then run.json are
\* written; without run.json the directory is no record.
Record ==
  /\ tester = "record"
  /\ runs' = {r \in runs : r.id # cur.id} \cup {cur}
  /\ unmerged' = unmerged \cup {domain}
  /\ tester' = "merge"
  /\ UNCHANGED <<dirs, report, signed, clock, domain, cur, draft, publisherVars, hasty, counts>>

\* Mutant: the rows of other domains are not kept.
MergeOwnRows ==
  /\ tester = "merge"
  /\ report.file # "cut"
  /\ draft' = [file |-> "whole", rows |-> [NoReport.rows EXCEPT ![domain] = cur.rows]]
  /\ tester' = "write"
  /\ UNCHANGED <<dirs, runs, report, signed, clock, domain, cur, publisherVars, history, counts>>

\* The rows of this domain are replaced, those of the others kept.
Merge ==
  /\ tester = "merge"
  /\ report.file # "cut"
  /\ draft' = [file |-> "whole", rows |-> [report.rows EXCEPT ![domain] = cur.rows]]
  /\ tester' = "write"
  /\ UNCHANGED <<dirs, runs, report, signed, clock, domain, cur, publisherVars, history, counts>>

\* Both run_test_domain and cmd_status refuse a report they cannot parse.
ReportUnreadable ==
  /\ tester \in {"merge", "status"}
  /\ report.file = "cut"
  /\ TesterEnds
  /\ UNCHANGED <<dirs, runs, report, signed, clock, publisherVars, history, counts>>

\* gaps.json is written in place: it is emptied and then filled.
OpenReport ==
  /\ tester \in {"write", "statusWrite"}
  /\ report' = [NoReport EXCEPT !.file = "cut"]
  /\ tester' = (IF tester = "write" THEN "writing" ELSE "statusWriting")
  /\ UNCHANGED <<dirs, runs, signed, clock, domain, cur, draft, publisherVars, history, counts>>

CloseReport ==
  /\ tester = "writing"
  /\ report' = draft
  /\ unmerged' = unmerged \ {domain}
  /\ cur' = NoRun /\ draft' = NoReport
  /\ IF domain < N
     THEN domain' = domain + 1 /\ tester' = "begin"
     ELSE tester' = "status" /\ UNCHANGED domain
  /\ UNCHANGED <<dirs, runs, signed, clock, publisherVars, hasty, counts>>

\* cmd_status, after the last domain: a report that is missing is replaced by
\* a static one.
StatusScans ==
  /\ tester = "status"
  /\ report.file = "missing"
  /\ draft' = [NoReport EXCEPT !.file = "whole"]
  /\ tester' = "statusWrite"
  /\ UNCHANGED <<dirs, runs, report, signed, clock, domain, cur, publisherVars, history, counts>>

StatusEnds ==
  /\ \/ tester = "status" /\ report.file = "whole" /\ UNCHANGED report
     \/ tester = "statusWriting" /\ report' = draft
  /\ TesterEnds
  /\ UNCHANGED <<dirs, runs, signed, clock, publisherVars, history, counts>>

\* A step raises - the live run is not authorized, a file cannot be written,
\* the scan fails - or the process is killed.
TesterFails ==
  /\ tester # "idle"
  /\ Count("fail")
  /\ TesterEnds
  /\ UNCHANGED <<dirs, runs, report, signed, clock, publisherVars, history>>

-----------------------------------------------------------------------------
(* Readiness, and the publisher.                                           *)

\* Mutant: the exit code of the latest run is not looked at.
ValidatedAnyExit(r, d) ==
  /\ IsLatest(r, d)
  /\ Passes(report.rows[d])
  /\ r.junit = "parsed"

\* The evidence of a domain: its latest record, if that exited with 0, has a
\* readable JUnit file and the report has a passing row of the domain.
Validated(r, d) ==
  /\ IsLatest(r, d)
  /\ Passes(report.rows[d])
  /\ r.exit = 0
  /\ r.junit = "parsed"

\* assess_readiness, used by status and publish alike.
Ready ==
  /\ report.file = "whole"
  /\ \A d \in Domains : ~Blocks(report.rows[d]) /\ \E r \in runs : Validated(r, d)

StartPublish ==
  /\ publisher = "idle"
  /\ Ready
  /\ Count("publish")
  /\ publisher' = "create"
  /\ target' = 1
  /\ evidence' \in [Domains -> RunIds]
  /\ \A d \in Domains : \E r \in runs : Validated(r, d) /\ evidence'[d] = r.id
  /\ hasty' = (hasty \/ unmerged # {})
  /\ UNCHANGED <<dirs, runs, report, signed, clock, testerVars, service, unmerged>>

\* The publisher goes on, or raises because the response of a call that had
\* its effect was lost.
GoesOn(next) ==
  \/ publisher' = next /\ UNCHANGED <<target, evidence>>
  \/ PublisherEnds

Create ==
  /\ publisher = "create"
  /\ service' = Append(service, [run |-> evidence[target], status |-> "created"])
  /\ GoesOn("upload")
  /\ UNCHANGED <<dirs, runs, report, signed, clock, testerVars, history, counts>>

\* Mutant: the JUnit file of the run that has become the latest.
UploadLatest ==
  /\ publisher = "upload"
  /\ \E r \in runs :
       /\ IsLatest(r, target)
       /\ service' = [service EXCEPT ![Len(service)] = [run |-> r.id, status |-> "uploaded"]]
  /\ GoesOn("complete")
  /\ UNCHANGED <<dirs, runs, report, signed, clock, testerVars, history, counts>>

\* The JUnit text is the one the assessment read.
Upload ==
  /\ publisher = "upload"
  /\ service' = [service EXCEPT ![Len(service)].status = "uploaded"]
  /\ GoesOn("complete")
  /\ UNCHANGED <<dirs, runs, report, signed, clock, testerVars, history, counts>>

Complete ==
  /\ publisher = "complete"
  /\ service' = [service EXCEPT ![Len(service)].status = "SUCCESS"]
  /\ \/ target < N /\ publisher' = "create" /\ target' = target + 1 /\ UNCHANGED evidence
     \/ PublisherEnds
  /\ UNCHANGED <<dirs, runs, report, signed, clock, testerVars, history, counts>>

\* A call is refused or does not reach the service, or the process is killed.
PublisherFails ==
  /\ publisher # "idle"
  /\ PublisherEnds
  /\ UNCHANGED <<dirs, runs, report, signed, clock, testerVars, service, history, counts>>

-----------------------------------------------------------------------------
(* What else happens.                                                      *)

\* Another profile is reviewed and promoted.
Qualify(profile) ==
  /\ profile # signed
  /\ Count("qualify")
  /\ signed' = profile
  /\ UNCHANGED <<dirs, runs, report, clock, testerVars, publisherVars, history>>

\* A person removes gaps.json, for one because it cannot be parsed.
RemoveReport ==
  /\ report.file # "missing"
  /\ tester \notin {"writing", "statusWriting"}
  /\ Count("remove")
  /\ report' = NoReport
  /\ UNCHANGED <<dirs, runs, signed, clock, testerVars, publisherVars, history>>

-----------------------------------------------------------------------------
Init ==
  /\ dirs = {}
  /\ runs = {}
  /\ report = NoReport
  /\ signed = Reviewed
  /\ clock = 0
  /\ tester = "idle"
  /\ domain = 1
  /\ cur = NoRun
  /\ draft = NoReport
  /\ publisher = "idle"
  /\ target = 1
  /\ evidence = NoEvidence
  /\ service = <<>>
  /\ unmerged = {}
  /\ hasty = FALSE
  /\ counts = [e \in Events |-> 0]

SomeLiveRun ==
  \E exit \in {0, 1}, junit \in {"none", "broken", "parsed"} :
    \E seen \in SUBSET ChecksOf(domain) :
      \E outcomes \in [seen -> {"pass", "fail", "skipped"}] : LiveRun(exit, junit, outcomes)

Test ==
  \/ StartValidate
  \/ \E stamp \in 0 .. MaxTime, suffix \in 1 .. MaxSuffix : NewRunDir(stamp, suffix)
  \/ SomeLiveRun
  \/ Record
  \/ Merge \/ ReportUnreadable \/ OpenReport \/ CloseReport
  \/ StatusScans \/ StatusEnds
  \/ TesterFails

Publish == StartPublish \/ Create \/ Upload \/ Complete \/ PublisherFails

Next ==
  \/ Test
  \/ Publish
  \/ \E profile \in Profiles : Qualify(profile)
  \/ RemoveReport

Spec == Init /\ [][Next]_vars

-----------------------------------------------------------------------------
(* Properties.                                                             *)

TypeOK ==
  /\ dirs \subseteq RunIds /\ runs \subseteq Runs
  /\ report \in Reports /\ draft \in Reports
  /\ signed \in Profiles
  /\ clock \in 0 .. MaxTime
  /\ tester \in {"idle", "begin", "live", "record", "merge", "write", "writing",
                 "status", "statusWrite", "statusWriting"}
  /\ domain \in Domains
  /\ cur \in Runs \cup {NoRun}
  /\ publisher \in {"idle", "create", "upload", "complete"}
  /\ target \in Domains
  /\ evidence \in [Domains -> RunIds \cup {None}]
  /\ service \in Seq(TestRuns)
  /\ unmerged \subseteq Domains /\ hasty \in BOOLEAN
  /\ counts \in [Events -> Nat]

\* The record of a run is never rewritten and never lost, however many runs
\* of a domain begin in one second: each has a directory of its own.
RecordsNeverRewritten == [][runs \subseteq runs']_vars

\* What a readable gaps.json says of a domain is what its latest recorded run
\* found, whatever other domains were run since; unless that record has not
\* been merged yet, or a person removed gaps.json.
ReportHoldsLatest ==
  report.file = "whole" =>
    \A d \in Domains \ unmerged, r \in runs :
      IsLatest(r, d) =>
        report.rows[d] = r.rows \/ (counts["remove"] > 0 /\ report.rows[d] = {})

\* A project that is ready has a latest run of every domain that succeeded,
\* by the rule of the live run and not only by its exit code, unless its
\* record has not been merged into gaps.json yet.
ReadyMeansSucceeded ==
  Ready => \A d \in Domains \ unmerged, r \in runs : IsLatest(r, d) => r.success

\* What is uploaded to the service is the JUnit file of a recorded run that
\* exited with 0 and whose file could be read, one that the assessment saw,
\* even if other runs are recorded meanwhile; and that run succeeded, unless
\* a publication was assessed between the record of a run and its rows.
UploadsAssessedRun ==
  \A i \in 1 .. Len(service) :
    service[i].status # "created" =>
      \E r \in runs :
        /\ r.id = service[i].run /\ r.exit = 0 /\ r.junit = "parsed"
        /\ r.success \/ hasty

\* A test run that the service shows as SUCCESS is of a live run that
\* succeeded.
PublishedRunSucceeded ==
  \A i \in 1 .. Len(service) :
    service[i].status = "SUCCESS" =>
      \E r \in runs : r.id = service[i].run /\ r.success
=============================================================================

--------------------------- MODULE EvidenceProofs ---------------------------
(* Live evidence for any number of domains, checks, runs and publications: *)
(* records are kept, the report shows the latest run of each domain, what  *)
(* is ready has succeeded, and what is uploaded was assessed.              *)
EXTENDS Evidence, TLAPS

USE DEF history

-----------------------------------------------------------------------------
(* The steps.                                                              *)

\* The phases in which the tester has a run directory.
Running == {"live", "record", "merge", "write", "writing"}

ARun ==
  \E exit \in {0, 1}, junit \in {"none", "broken", "parsed"} :
    \E seen \in SUBSET ChecksOf(domain) :
      \E outcomes \in [seen -> {"pass", "fail", "skipped"}] : LiveRun(exit, junit, outcomes)

ADirectory == \E stamp \in 0 .. MaxTime, suffix \in 1 .. MaxSuffix : NewRunDir(stamp, suffix)

AQualification == \E profile \in Profiles : Qualify(profile)

\* Whatever happens is one of these steps.
LEMMA Steps ==
  ASSUME [Next]_vars
  PROVE  \/ StartValidate \/ ADirectory \/ ARun \/ Record
         \/ Merge \/ ReportUnreadable \/ OpenReport \/ CloseReport
         \/ StatusScans \/ StatusEnds \/ TesterFails
         \/ StartPublish \/ Create \/ Upload \/ Complete \/ PublisherFails
         \/ AQualification \/ RemoveReport
         \/ UNCHANGED vars
  BY DEF Next, Test, Publish, SomeLiveRun, ARun, ADirectory, AQualification

\* All steps but three leave directories and records alone, and the run in
\* progress as well, as long as it goes on.
LEMMA OtherSteps ==
  ASSUME [Next]_vars
  PROVE  \/ ADirectory \/ ARun \/ Record
         \/ /\ UNCHANGED <<dirs, runs, clock>>
            /\ \/ tester' \notin Running
               \/ /\ UNCHANGED <<domain, cur>>
                  /\ \/ tester' = tester
                     \/ tester \in {"merge", "write"} /\ tester' \in {"write", "writing"}
  BY Steps
     DEF Running, StartValidate, Merge, ReportUnreadable, OpenReport, CloseReport, StatusScans,
         StatusEnds, TesterFails, TesterEnds, StartPublish, Create, Upload, Complete,
         PublisherFails, AQualification, Qualify, RemoveReport, vars, testerVars

-----------------------------------------------------------------------------
(* Types.                                                                  *)

\* Between two steps a process has what its next one needs.
Typed ==
  /\ TypeOK
  /\ tester \in Running => cur \in Runs /\ cur.id.domain = domain
  /\ publisher # "idle" => evidence \in [Domains -> RunIds]
  /\ publisher \in {"upload", "complete"} => service # <<>>

LEMMA EmptyTypes ==
  /\ NoReport \in Reports
  /\ NoEvidence \in [Domains -> RunIds \cup {None}]
  BY DEF NoReport, Reports, NoEvidence

LEMMA TypedInit == Init => Typed
<1> SUFFICES ASSUME Init PROVE Typed
  OBVIOUS
<1>1. 1 \in Domains /\ 0 \in 0 .. MaxTime /\ Reviewed \in Profiles
  BY EvidenceAssumption DEF Domains
<1>2. service \in Seq(TestRuns) /\ counts \in [Events -> Nat]
  BY DEF Init
<1>3. TypeOK
  BY <1>1, <1>2, EmptyTypes DEF Init, TypeOK
<1> QED
  BY <1>3 DEF Typed, Running, Init

LEMMA CountType ==
  ASSUME counts \in [Events -> Nat], NEW event \in Events, Count(event)
  PROVE  counts' \in [Events -> Nat]
  BY DEF Count

\* The steps of the tester that change no run.
LEMMA TypedTester ==
  ASSUME Typed,
         \/ StartValidate \/ Merge \/ ReportUnreadable \/ OpenReport \/ CloseReport
         \/ StatusScans \/ StatusEnds \/ TesterFails
  PROVE  Typed'
<1>1. 1 \in Domains /\ (domain < N => domain + 1 \in Domains)
  BY EvidenceAssumption DEF Domains, Typed, TypeOK
<1>2. CASE StartValidate
  BY <1>1, <1>2 DEF Typed, TypeOK, StartValidate, publisherVars, Running
<1>3. CASE Merge
  <2>1. cur \in Runs /\ draft' \in Reports
    BY <1>3 DEF Typed, TypeOK, Merge, Running, Reports, Runs
  <2> QED
    BY <1>3, <2>1 DEF Typed, TypeOK, Merge, publisherVars, Running
<1>4. CASE ReportUnreadable
  BY <1>1, <1>4, EmptyTypes
     DEF Typed, TypeOK, ReportUnreadable, TesterEnds, publisherVars, Running
<1>5. CASE OpenReport
  <2>1. [NoReport EXCEPT !.file = "cut"] \in Reports
    BY EmptyTypes DEF Reports
  <2> QED
    BY <1>5, <2>1 DEF Typed, TypeOK, OpenReport, publisherVars, Running
<1>6. CASE CloseReport
  BY <1>1, <1>6, EmptyTypes DEF Typed, TypeOK, CloseReport, publisherVars, Running
<1>7. CASE StatusScans
  <2>1. [NoReport EXCEPT !.file = "whole"] \in Reports
    BY EmptyTypes DEF Reports
  <2> QED
    BY <1>7, <2>1 DEF Typed, TypeOK, StatusScans, publisherVars, Running
<1>8. CASE StatusEnds
  BY <1>1, <1>8, EmptyTypes DEF Typed, TypeOK, StatusEnds, TesterEnds, publisherVars, Running
<1>9. CASE TesterFails
  BY <1>1, <1>9, EmptyTypes, CountType
     DEF Typed, TypeOK, TesterFails, TesterEnds, publisherVars, Running, Events
<1> QED
  BY <1>2, <1>3, <1>4, <1>5, <1>6, <1>7, <1>8, <1>9

LEMMA TypedDirectory ==
  ASSUME Typed, ADirectory
  PROVE  Typed'
<1> PICK stamp \in 0 .. MaxTime, suffix \in 1 .. MaxSuffix : NewRunDir(stamp, suffix)
  BY DEF ADirectory
<1>1. NewId(stamp, suffix) \in RunIds /\ NewId(stamp, suffix).domain = domain
  BY DEF NewId, RunIds, Typed, TypeOK
<1>2. cur' \in Runs /\ cur'.id = NewId(stamp, suffix)
  BY <1>1 DEF NewRunDir, NoRun, Runs
<1>3. counts' \in [Events -> Nat]
  BY CountType DEF NewRunDir, Typed, TypeOK, Events
<1> QED
  BY <1>1, <1>2, <1>3 DEF Typed, TypeOK, NewRunDir, publisherVars, Running

\* The rows of a run are rows, and a failing testcase gives one that blocks.
LEMMA LiveRowsAre ==
  ASSUME NEW junit, NEW seen \in SUBSET ChecksOf(domain),
         NEW outcomes \in [seen -> {"pass", "fail", "skipped"}]
  PROVE  /\ LiveRows(junit, outcomes) \in SUBSET Rows
         /\ \A c \in seen : outcomes[c] = "fail" => Blocks(LiveRows(junit, outcomes))
<1>1. ASSUME NEW c \in Checks \cup {JUnitContract},
             NEW status \in {"pass", "fail", "skipped", "error"}
      PROVE  Row(c, status) \in Rows
  BY <1>1 DEF Row, Rows
<1>2. DOMAIN outcomes = seen /\ seen \subseteq Checks /\ ChecksOf(domain) \subseteq Checks
  BY DEF ChecksOf
<1>3. LiveRows(junit, outcomes) \in SUBSET Rows
  <2>1. \A c \in seen : Row(c, outcomes[c]) \in Rows
    BY <1>1, <1>2
  <2>2. \A c \in ChecksOf(domain) : Row(c, "error") \in Rows
    BY <1>1, <1>2
  <2>3. Row(JUnitContract, "error") \in Rows
    BY <1>1
  <2> QED
    BY <1>2, <2>1, <2>2, <2>3 DEF LiveRows
<1>4. ASSUME NEW c \in seen, outcomes[c] = "fail"
      PROVE  Blocks(LiveRows(junit, outcomes))
  <2>1. Row(c, outcomes[c]) \in LiveRows(junit, outcomes)
    BY <1>2 DEF LiveRows
  <2>2. Row(c, outcomes[c]).blocking
    BY <1>4 DEF Row
  <2> QED
    BY <2>1, <2>2 DEF Blocks
<1> QED
  BY <1>3, <1>4

LEMMA TypedRun ==
  ASSUME Typed, ARun
  PROVE  Typed'
<1> PICK exit \in {0, 1}, junit \in {"none", "broken", "parsed"}, seen \in SUBSET ChecksOf(domain) :
           \E outcomes \in [seen -> {"pass", "fail", "skipped"}] : LiveRun(exit, junit, outcomes)
  BY DEF ARun
<1> PICK outcomes \in [seen -> {"pass", "fail", "skipped"}] : LiveRun(exit, junit, outcomes)
  OBVIOUS
<1> DEFINE rows == LiveRows(junit, outcomes)
           good == Success(exit, outcomes, rows)
<1>1. rows \in SUBSET Rows /\ good \in BOOLEAN
  BY LiveRowsAre DEF Success
<1>2. cur' = [cur EXCEPT !.exit = exit, !.junit = junit, !.rows = rows, !.success = good]
  BY DEF LiveRun
<1>3. cur \in Runs /\ cur.id.domain = domain
  BY DEF Typed, LiveRun, Running
<1> HIDE DEF rows, good
<1>4. cur' \in Runs /\ cur'.id = cur.id
  BY <1>1, <1>2, <1>3 DEF Runs
<1> QED
  BY <1>3, <1>4 DEF Typed, TypeOK, LiveRun, publisherVars, Running

LEMMA TypedRecord ==
  ASSUME Typed, Record
  PROVE  Typed'
<1>1. cur \in Runs
  BY DEF Typed, Record, Running
<1> QED
  BY <1>1 DEF Typed, TypeOK, Record, publisherVars, Running

LEMMA TypedPublisher ==
  ASSUME Typed, StartPublish \/ Create \/ Upload \/ Complete \/ PublisherFails
  PROVE  Typed'
<1>1. 1 \in Domains /\ (target < N => target + 1 \in Domains)
  BY EvidenceAssumption DEF Domains, Typed, TypeOK
<1>2. CASE StartPublish
  <2>1. counts' \in [Events -> Nat]
    BY <1>2, CountType DEF StartPublish, Typed, TypeOK, Events
  <2> QED
    BY <1>1, <1>2, <2>1 DEF Typed, TypeOK, StartPublish, testerVars, Running
<1>3. CASE Create
  <2>1. [run |-> evidence[target], status |-> "created"] \in TestRuns
    BY <1>3 DEF Typed, TypeOK, Create, TestRuns
  <2>2. service' \in Seq(TestRuns) /\ service' # <<>>
    BY <1>3, <2>1 DEF Typed, TypeOK, Create
  <2> QED
    BY <1>1, <1>3, <2>2, EmptyTypes
       DEF Typed, TypeOK, Create, GoesOn, PublisherEnds, testerVars, Running
<1>4. ASSUME NEW status \in {"uploaded", "SUCCESS"}, publisher \in {"upload", "complete"},
             service' = [service EXCEPT ![Len(service)].status = status]
      PROVE  service' \in Seq(TestRuns) /\ service' # <<>>
  <2>1. service \in Seq(TestRuns) /\ service # <<>>
    BY <1>4 DEF Typed, TypeOK
  <2>2. Len(service) \in DOMAIN service /\ service[Len(service)] \in TestRuns
    BY <2>1
  <2>3. [service[Len(service)] EXCEPT !.status = status] \in TestRuns
    BY <2>2 DEF TestRuns
  <2> QED
    BY <1>4, <2>1, <2>2, <2>3
<1>5. CASE Upload
  <2>1. service' \in Seq(TestRuns) /\ service' # <<>>
    BY <1>4, <1>5 DEF Upload
  <2> QED
    BY <1>1, <1>5, <2>1, EmptyTypes
       DEF Typed, TypeOK, Upload, GoesOn, PublisherEnds, testerVars, Running
<1>6. CASE Complete
  <2>1. service' \in Seq(TestRuns) /\ service' # <<>>
    BY <1>4, <1>6 DEF Complete
  <2> QED
    BY <1>1, <1>6, <2>1, EmptyTypes
       DEF Typed, TypeOK, Complete, PublisherEnds, testerVars, Running
<1>7. CASE PublisherFails
  BY <1>1, <1>7, EmptyTypes DEF Typed, TypeOK, PublisherFails, PublisherEnds, testerVars, Running
<1> QED
  BY <1>2, <1>3, <1>5, <1>6, <1>7

LEMMA TypedOthers ==
  ASSUME Typed, AQualification \/ RemoveReport
  PROVE  Typed'
<1>1. CASE AQualification
  BY <1>1, CountType
     DEF AQualification, Qualify, Typed, TypeOK, testerVars, publisherVars, Running, Events
<1>2. CASE RemoveReport
  BY <1>2, CountType, EmptyTypes
     DEF RemoveReport, Typed, TypeOK, testerVars, publisherVars, Running, Events
<1> QED
  BY <1>1, <1>2

LEMMA TypedStep == Typed /\ [Next]_vars => Typed'
<1> SUFFICES ASSUME Typed, [Next]_vars PROVE Typed'
  OBVIOUS
<1>1. CASE UNCHANGED vars
  BY <1>1 DEF Typed, TypeOK, vars, testerVars, publisherVars, Running
<1> QED
  BY <1>1, Steps, TypedTester, TypedDirectory, TypedRun, TypedRecord, TypedPublisher, TypedOthers

\* The type invariant, for any number of domains, checks, runs and calls.
THEOREM TypeCorrect == Spec => []TypeOK
<1>1. Typed => TypeOK
  BY DEF Typed
<1> QED
  BY <1>1, TypedInit, TypedStep, PTL DEF Spec

-----------------------------------------------------------------------------
(* Records are kept.                                                       *)

\* Every record is in a directory of its own; the directory of the run that
\* is going on has no record before it gets this one.
DirInv ==
  /\ \A r \in runs : r.id \in dirs
  /\ \A r, s \in runs : r.id = s.id => r = s
  /\ tester \in Running => cur.id \in dirs
  /\ tester \in {"live", "record"} => \A r \in runs : r.id # cur.id
  /\ tester \in {"merge", "write", "writing"} => cur \in runs

LEMMA DirStep == Typed /\ DirInv /\ [Next]_vars => DirInv'
<1> SUFFICES ASSUME Typed, DirInv, [Next]_vars PROVE DirInv'
  OBVIOUS
<1>1. CASE ADirectory
  <2> PICK stamp \in 0 .. MaxTime, suffix \in 1 .. MaxSuffix : NewRunDir(stamp, suffix)
    BY <1>1 DEF ADirectory
  <2>1. cur'.id = NewId(stamp, suffix) /\ NewId(stamp, suffix) \notin dirs
    BY DEF NewRunDir, IsFree, NoRun
  <2> QED
    BY <2>1 DEF DirInv, NewRunDir, Running
<1>2. CASE ARun
  <2> PICK exit \in {0, 1}, junit \in {"none", "broken", "parsed"}, seen \in SUBSET ChecksOf(domain) :
             \E outcomes \in [seen -> {"pass", "fail", "skipped"}] : LiveRun(exit, junit, outcomes)
    BY <1>2 DEF ARun
  <2> PICK outcomes \in [seen -> {"pass", "fail", "skipped"}] : LiveRun(exit, junit, outcomes)
    OBVIOUS
  <2>1. tester = "live" /\ tester' = "record" /\ UNCHANGED <<dirs, runs>>
    BY DEF LiveRun
  <2>2. cur \in Runs
    BY <2>1 DEF Typed, Running
  <2>3. cur'.id = cur.id
    BY <2>2 DEF LiveRun, Runs
  <2> QED
    BY <2>1, <2>3 DEF DirInv, Running
<1>3. CASE Record
  <2>1. tester = "record" /\ tester' = "merge" /\ UNCHANGED <<dirs, cur>>
    BY <1>3 DEF Record
  <2>2. runs' = runs \cup {cur}
    BY <1>3, <2>1 DEF Record, DirInv
  <2> QED
    BY <2>1, <2>2 DEF DirInv, Running
<1>4. CASE UNCHANGED <<dirs, runs, clock>>
  <2>1. CASE tester' \notin Running
    BY <1>4, <2>1 DEF DirInv, Running
  <2>2. CASE /\ UNCHANGED <<domain, cur>>
             /\ \/ tester' = tester
                \/ tester \in {"merge", "write"} /\ tester' \in {"write", "writing"}
    BY <1>4, <2>2 DEF DirInv, Running
  <2>3. CASE ADirectory \/ ARun \/ Record
    BY <1>1, <1>2, <1>3, <2>3
  <2> QED
    BY <2>1, <2>2, <2>3, OtherSteps
<1> QED
  BY <1>1, <1>2, <1>3, <1>4, OtherSteps

\* A record is written into a directory that has none, and stays.
LEMMA RunsGrow ==
  ASSUME Typed, DirInv, [Next]_vars
  PROVE  runs' = runs \/ (Record /\ runs' = runs \cup {cur})
<1>1. CASE Record
  BY <1>1 DEF Record, DirInv
<1>2. CASE ADirectory \/ ARun
  BY <1>2 DEF ADirectory, ARun, NewRunDir, LiveRun
<1> QED
  BY <1>1, <1>2, OtherSteps

\* The record of a run is never rewritten and never lost, for any number of
\* runs in one second.
THEOREM RecordsKept == Spec => RecordsNeverRewritten
<1>1. Init => DirInv
  BY DEF Init, DirInv, Running
<1>2. Typed /\ DirInv /\ [Next]_vars => [runs \subseteq runs']_vars
  BY RunsGrow
<1> QED
  BY <1>1, <1>2, TypedInit, TypedStep, DirStep, PTL DEF Spec, RecordsNeverRewritten

-----------------------------------------------------------------------------
(* The report shows the latest run.                                        *)

\* The directories of a second are numbered without a gap and none is later
\* than the clock, so that a new one is the latest.
OrderInv ==
  /\ \A id \in dirs : id.stamp <= clock
  /\ \A id \in dirs : \A s \in 1 .. id.suffix :
       [domain |-> id.domain, stamp |-> id.stamp, suffix |-> s] \in dirs
  /\ tester \in Running => \A id \in dirs : id.domain = domain => NotAfter(id, cur.id)

LEMMA OrderStep == Typed /\ OrderInv /\ [Next]_vars => OrderInv'
<1> SUFFICES ASSUME Typed, OrderInv, [Next]_vars PROVE OrderInv'
  OBVIOUS
<1>1. CASE ADirectory
  <2> PICK stamp \in 0 .. MaxTime, suffix \in 1 .. MaxSuffix : NewRunDir(stamp, suffix)
    BY <1>1 DEF ADirectory
  <2> DEFINE id == NewId(stamp, suffix)
  <2>1. /\ id \in RunIds /\ id.domain = domain /\ id.stamp = stamp /\ id.suffix = suffix
        /\ id = [domain |-> domain, stamp |-> stamp, suffix |-> suffix]
    BY DEF NewId, RunIds, Typed, TypeOK
  <2>2. /\ dirs' = dirs \cup {id} /\ cur'.id = id /\ domain' = domain
        /\ clock' = stamp /\ clock <= stamp /\ id \notin dirs
        /\ \A s \in 1 .. suffix - 1 : NewId(stamp, s) \in dirs
    BY DEF NewRunDir, IsFree, NoRun, Typed, TypeOK
  <2> HIDE DEF id
  <2>3. dirs \subseteq RunIds /\ clock \in Nat /\ stamp \in Nat /\ suffix \in Nat
    BY EvidenceAssumption DEF Typed, TypeOK
  <2>4. \A other \in dirs : other.stamp \in Nat /\ other.suffix \in Nat \ {0} /\ other.stamp <= clock
    BY <2>3, EvidenceAssumption DEF OrderInv, RunIds
  <2>5. \A other \in dirs' : other.stamp <= clock'
    BY <2>1, <2>2, <2>3, <2>4
  <2>6. ASSUME NEW other \in dirs', NEW s \in 1 .. other.suffix
        PROVE  [domain |-> other.domain, stamp |-> other.stamp, suffix |-> s] \in dirs'
    <3>1. CASE other \in dirs
      BY <2>2, <2>6, <3>1 DEF OrderInv
    <3>2. CASE other = id
      <4>1. s \in 1 .. suffix - 1 \/ s = suffix
        BY <2>1, <2>3, <2>6, <3>2
      <4>2. NewId(stamp, s) = [domain |-> other.domain, stamp |-> other.stamp, suffix |-> s]
        BY <2>1, <3>2 DEF NewId
      <4> QED
        BY <2>1, <2>2, <3>2, <4>1, <4>2
    <3> QED
      BY <2>2, <3>1, <3>2
  <2>7. ASSUME NEW other \in dirs', other.domain = domain
        PROVE  NotAfter(other, id)
    <3>1. CASE other = id
      BY <2>1, <2>3, <3>1 DEF NotAfter
    <3>2. CASE other \in dirs
      <4>1. suffix \notin 1 .. other.suffix \/ other.stamp # stamp
        BY <2>1, <2>2, <2>7, <3>2 DEF OrderInv
      <4> QED
        BY <2>1, <2>2, <2>3, <2>4, <3>2, <4>1 DEF NotAfter
    <3> QED
      BY <2>2, <3>1, <3>2
  <2> QED
    BY <2>2, <2>5, <2>6, <2>7 DEF OrderInv
<1>2. CASE ARun
  <2> PICK exit \in {0, 1}, junit \in {"none", "broken", "parsed"}, seen \in SUBSET ChecksOf(domain) :
             \E outcomes \in [seen -> {"pass", "fail", "skipped"}] : LiveRun(exit, junit, outcomes)
    BY <1>2 DEF ARun
  <2> PICK outcomes \in [seen -> {"pass", "fail", "skipped"}] : LiveRun(exit, junit, outcomes)
    OBVIOUS
  <2>1. tester = "live" /\ tester' = "record" /\ UNCHANGED <<dirs, clock, domain>>
    BY DEF LiveRun
  <2>2. cur \in Runs
    BY <2>1 DEF Typed, Running
  <2>3. cur'.id = cur.id
    BY <2>2 DEF LiveRun, Runs
  <2> QED
    BY <2>1, <2>3 DEF OrderInv, Running
<1>3. CASE Record
  BY <1>3 DEF Record, OrderInv, Running
<1>4. CASE UNCHANGED <<dirs, runs, clock>> /\ tester' \notin Running
  BY <1>4 DEF OrderInv
<1>5. CASE /\ UNCHANGED <<dirs, runs, clock, domain, cur>>
           /\ \/ tester' = tester
              \/ tester \in {"merge", "write"} /\ tester' \in {"write", "writing"}
  BY <1>5 DEF OrderInv, Running
<1> QED
  BY <1>1, <1>2, <1>3, <1>4, <1>5, OtherSteps

\* Ids of one domain are ordered, so the latest run is one.
LEMMA OneLatest ==
  ASSUME Typed, DirInv, NEW d, NEW r, NEW s, IsLatest(r, d), IsLatest(s, d)
  PROVE  r = s
<1>1. /\ r \in runs /\ s \in runs /\ r.id.domain = d /\ s.id.domain = d
      /\ NotAfter(r.id, s.id) /\ NotAfter(s.id, r.id)
  BY DEF IsLatest, RunsOf
<1>2. r.id \in RunIds /\ s.id \in RunIds
  BY <1>1 DEF Typed, TypeOK, Runs
<1>3. r.id.stamp = s.id.stamp /\ r.id.suffix = s.id.suffix
  BY <1>1, <1>2, EvidenceAssumption DEF NotAfter, RunIds
<1>4. r.id = s.id
  BY <1>1, <1>2, <1>3 DEF RunIds
<1> QED
  BY <1>1, <1>4 DEF DirInv

\* Rows show the latest run of a domain.
Shows(rows, d) ==
  \A r \in runs : IsLatest(r, d) => rows[d] = r.rows \/ (counts["remove"] > 0 /\ rows[d] = {})

\* The report shows what it was not kept from showing, and the draft does
\* except for the domain it is made for.
ReportInv ==
  /\ report.file = "missing" => report.rows = NoReport.rows
  /\ report.file # "cut" => \A d \in Domains \ unmerged : Shows(report.rows, d)
  /\ tester \in {"write", "writing", "statusWrite", "statusWriting"} =>
       /\ draft.file # "missing"
       /\ \A d \in Domains \ unmerged : Shows(draft.rows, d)
  /\ tester \in {"write", "writing"} => draft.rows[domain] = cur.rows
  /\ tester \in {"merge", "write", "writing"} => domain \in unmerged

LEMMA CountsGrow ==
  ASSUME Typed, [Next]_vars, counts["remove"] > 0
  PROVE  counts'["remove"] > 0
<1>1. counts \in [Events -> Nat] /\ "remove" \in Events
  BY DEF Typed, TypeOK, Events
<1>2. (\E event \in Events : Count(event)) \/ UNCHANGED counts
  BY Steps DEF ADirectory, ARun, AQualification, NewRunDir, LiveRun, Qualify, StartValidate,
     Record, Merge, ReportUnreadable, OpenReport, CloseReport, StatusScans, StatusEnds,
     TesterFails, StartPublish, Create, Upload, Complete, PublisherFails, RemoveReport, vars,
     Events
<1>3. ASSUME NEW event \in Events, Count(event) PROVE counts'["remove"] > 0
  BY <1>1, <1>3 DEF Count
<1> QED
  BY <1>2, <1>3

\* Rows that show the latest run of a domain still do after a step that
\* records no run of that domain.
LEMMA ShowsStep ==
  ASSUME Typed, DirInv, [Next]_vars, NEW d \in Domains, ~Record \/ d # domain,
         NEW rows, Shows(rows, d)
  PROVE  \A r \in runs' : IsLatest(r, d)' =>
           rows[d] = r.rows \/ (counts'["remove"] > 0 /\ rows[d] = {})
<1>1. RunsOf(d)' = RunsOf(d)
  <2>1. CASE runs' = runs
    BY <2>1 DEF RunsOf
  <2>2. CASE Record /\ runs' = runs \cup {cur}
    <3>1. cur.id.domain = domain
      BY <2>2 DEF Typed, Record, Running
    <3> QED
      BY <2>2, <3>1 DEF RunsOf
  <2> QED
    BY <2>1, <2>2, RunsGrow
<1>2. ASSUME NEW r \in runs', IsLatest(r, d)'
      PROVE  r \in runs /\ IsLatest(r, d)
  BY <1>1, <1>2 DEF IsLatest, RunsOf
<1> QED
  BY <1>2, CountsGrow DEF Shows

\* After a step that leaves the report, or removes it, what it shows.
LEMMA ReportKept ==
  ASSUME Typed, DirInv, ReportInv, [Next]_vars,
         UNCHANGED report \/ RemoveReport, unmerged \subseteq unmerged',
         Record => domain \in unmerged'
  PROVE  /\ report'.file = "missing" => report'.rows = NoReport.rows
         /\ report'.file # "cut" => \A d \in Domains \ unmerged' : Shows(report.rows, d)'
<1>1. CASE UNCHANGED report
  BY <1>1, ShowsStep DEF ReportInv, Shows
<1>2. CASE RemoveReport
  <2>1. report' = NoReport
    BY <1>2 DEF RemoveReport
  <2>2. counts'["remove"] > 0
    <3>1. counts \in [Events -> Nat] /\ "remove" \in Events
      BY DEF Typed, TypeOK, Events
    <3> QED
      BY <1>2, <3>1 DEF RemoveReport, Count
  <2>3. \A d \in Domains : NoReport.rows[d] = {}
    BY DEF NoReport
  <2> QED
    BY <2>1, <2>2, <2>3 DEF Shows
<1> QED
  BY <1>1, <1>2

LEMMA ReportStep == Typed /\ DirInv /\ OrderInv /\ ReportInv /\ [Next]_vars => ReportInv'
<1> SUFFICES ASSUME Typed, DirInv, OrderInv, ReportInv, [Next]_vars PROVE ReportInv'
  OBVIOUS
<1> DEFINE Writing == {"write", "writing", "statusWrite", "statusWriting"}
\* Steps that write no report and make no draft.
<1>1. ASSUME UNCHANGED report \/ RemoveReport, UNCHANGED unmerged, ~Record,
             \/ tester' \notin Writing \cup {"merge"}
             \/ UNCHANGED <<tester, domain, cur, draft>>
      PROVE  ReportInv'
  BY <1>1, ReportKept, ShowsStep DEF ReportInv, Shows
<1>2. CASE StartValidate \/ ADirectory \/ ARun \/ ReportUnreadable \/ TesterFails
  BY <1>1, <1>2
     DEF StartValidate, ADirectory, ARun, NewRunDir, LiveRun, ReportUnreadable, TesterFails,
         TesterEnds, Record
<1>3. CASE StartPublish \/ Create \/ Upload \/ Complete \/ PublisherFails \/ AQualification
           \/ RemoveReport \/ UNCHANGED vars
  BY <1>1, <1>3
     DEF StartPublish, Create, Upload, Complete, PublisherFails, AQualification, Qualify,
         RemoveReport, vars, testerVars, Record
<1>4. CASE Record
  <2>1. UNCHANGED report /\ unmerged \subseteq unmerged' /\ domain' \in unmerged'
        /\ domain' = domain /\ tester' = "merge"
    BY <1>4 DEF Record
  <2> QED
    BY <2>1, ReportKept DEF ReportInv
<1>5. CASE Merge
  <2>1. /\ UNCHANGED <<report, unmerged, runs, counts, domain, cur>> /\ ~Record
        /\ tester' = "write" /\ tester = "merge" /\ report.file # "cut"
        /\ draft'.rows = [report.rows EXCEPT ![domain] = cur.rows] /\ draft'.file = "whole"
    BY <1>5 DEF Merge, Record
  <2>2. report.rows \in [Domains -> SUBSET Rows] /\ domain \in Domains
    BY DEF Typed, TypeOK, Reports
  <2>3. draft'.rows[domain] = cur.rows
    BY <2>1, <2>2
  <2>4. ASSUME NEW d \in Domains \ unmerged PROVE Shows(draft.rows, d)'
    <3>1. draft'.rows[d] = report.rows[d]
      BY <2>1, <2>2 DEF ReportInv
    <3>2. Shows(report.rows, d)
      BY <2>1 DEF ReportInv
    <3> QED
      BY <2>1, <3>1, <3>2, ShowsStep DEF Shows
  <2> QED
    BY <2>1, <2>3, <2>4, ReportKept DEF ReportInv
<1>6. CASE OpenReport
  <2>1. /\ UNCHANGED <<unmerged, runs, counts, domain, cur, draft>> /\ ~Record
        /\ report'.file = "cut"
        /\ \/ tester = "write" /\ tester' = "writing"
           \/ tester = "statusWrite" /\ tester' = "statusWriting"
    BY <1>6 DEF OpenReport, Record, NoReport
  <2> QED
    BY <2>1, ShowsStep DEF ReportInv, Shows
<1>7. CASE CloseReport
  <2>1. /\ UNCHANGED runs /\ ~Record /\ tester = "writing"
        /\ tester' \in {"begin", "status"}
        /\ report' = draft /\ unmerged' = unmerged \ {domain}
    BY <1>7 DEF CloseReport, Record
  <2>2. IsLatest(cur, domain)
    BY <2>1 DEF IsLatest, RunsOf, OrderInv, DirInv, Typed, Running
  <2>3. ASSUME NEW r \in runs, IsLatest(r, domain) PROVE draft.rows[domain] = r.rows
    BY <2>1, <2>2, <2>3, OneLatest DEF ReportInv
  <2>4. Shows(draft.rows, domain)
    BY <2>3 DEF Shows
  <2>5. \A d \in Domains \ unmerged' : Shows(draft.rows, d)
    BY <2>1, <2>4 DEF ReportInv
  <2>6. \A d \in Domains \ unmerged' : Shows(report.rows, d)'
    BY <2>1, <2>5, ShowsStep DEF Shows
  <2>7. report'.file = "missing" => report'.rows = NoReport.rows
    BY <2>1 DEF ReportInv
  <2> QED
    BY <2>1, <2>6, <2>7 DEF ReportInv
<1>8. CASE StatusScans
  <2>1. /\ UNCHANGED <<report, unmerged, runs, counts>> /\ ~Record
        /\ tester' = "statusWrite" /\ report.file = "missing"
        /\ draft'.rows = report.rows /\ draft'.file = "whole"
    BY <1>8 DEF StatusScans, Record, NoReport, ReportInv
  <2>2. \A d \in Domains \ unmerged : Shows(report.rows, d)
    BY <2>1 DEF ReportInv
  <2>3. \A d \in Domains \ unmerged : Shows(draft.rows, d)'
    BY <2>1, <2>2, ShowsStep DEF Shows
  <2> QED
    BY <2>1, <2>3, ReportKept DEF ReportInv
<1>9. CASE StatusEnds
  <2>1. /\ UNCHANGED <<unmerged, runs, counts>> /\ ~Record /\ tester' = "idle"
        /\ \/ UNCHANGED report
           \/ tester = "statusWriting" /\ report' = draft
    BY <1>9 DEF StatusEnds, TesterEnds, Record
  <2>2. CASE UNCHANGED report
    BY <1>1, <2>1, <2>2
  <2>3. CASE tester = "statusWriting" /\ report' = draft
    <3>1. \A d \in Domains \ unmerged : Shows(report.rows, d)'
      BY <2>1, <2>3, ShowsStep DEF ReportInv, Shows
    <3>2. report'.file = "missing" => report'.rows = NoReport.rows
      BY <2>3 DEF ReportInv
    <3> QED
      BY <2>1, <3>1, <3>2 DEF ReportInv
  <2> QED
    BY <2>1, <2>2, <2>3
<1> QED
  BY Steps, <1>2, <1>3, <1>4, <1>5, <1>6, <1>7, <1>8, <1>9

\* The invariant of records, run directories and reports, for any number of
\* domains, checks and runs.
THEOREM RunsOrdered == Spec => [](Typed /\ DirInv /\ OrderInv /\ ReportInv)
<1>1. Init => DirInv /\ OrderInv
  BY DEF Init, DirInv, OrderInv, Running
<1>2. Init => ReportInv
  BY DEF Init, ReportInv, Shows, NoReport
<1> QED
  BY <1>1, <1>2, TypedInit, TypedStep, DirStep, OrderStep, ReportStep, PTL DEF Spec

\* What gaps.json says of a domain is what its latest recorded run found, for
\* any number of domains, interrupted runs and removals.
THEOREM ReportShowsLatest == Spec => []ReportHoldsLatest
<1>1. ReportInv => ReportHoldsLatest
  BY DEF ReportInv, ReportHoldsLatest, Shows
<1> QED
  BY <1>1, RunsOrdered, PTL

-----------------------------------------------------------------------------
(* What is ready has succeeded.                                            *)

\* The rows of a run tell whether it succeeded, if it exited with 0.
Sound(r) == r.exit = 0 /\ Passes(r.rows) /\ ~Blocks(r.rows) => r.success

SoundInv == (\A r \in runs : Sound(r)) /\ Sound(cur)

LEMMA SoundStep == Typed /\ DirInv /\ SoundInv /\ [Next]_vars => SoundInv'
<1> SUFFICES ASSUME Typed, DirInv, SoundInv, [Next]_vars PROVE SoundInv'
  OBVIOUS
<1>1. \A r \in runs' : Sound(r)
  BY RunsGrow DEF SoundInv
<1>2. Sound(NoRun)
  BY DEF Sound, NoRun
<1>3. CASE ADirectory
  <2> PICK stamp \in 0 .. MaxTime, suffix \in 1 .. MaxSuffix : NewRunDir(stamp, suffix)
    BY <1>3 DEF ADirectory
  <2>1. cur'.exit = 1
    BY DEF NewRunDir, NoRun
  <2> QED
    BY <1>1, <2>1 DEF SoundInv, Sound
<1>4. CASE ARun
  <2> PICK exit \in {0, 1}, junit \in {"none", "broken", "parsed"}, seen \in SUBSET ChecksOf(domain) :
             \E outcomes \in [seen -> {"pass", "fail", "skipped"}] : LiveRun(exit, junit, outcomes)
    BY <1>4 DEF ARun
  <2> PICK outcomes \in [seen -> {"pass", "fail", "skipped"}] : LiveRun(exit, junit, outcomes)
    OBVIOUS
  <2> DEFINE rows == LiveRows(junit, outcomes)
             good == Success(exit, outcomes, rows)
  <2>1. \A c \in DOMAIN outcomes : outcomes[c] = "fail" => Blocks(rows)
    BY LiveRowsAre
  <2>2. cur' = [cur EXCEPT !.exit = exit, !.junit = junit, !.rows = rows, !.success = good]
    BY DEF LiveRun
  <2>3. cur \in Runs
    BY DEF Typed, LiveRun, Running
  <2>4. exit = 0 /\ Passes(rows) /\ ~Blocks(rows) => good
    BY <2>1 DEF Success
  <2> HIDE DEF rows, good
  <2>5. cur'.exit = exit /\ cur'.rows = rows /\ cur'.success = good
    BY <2>2, <2>3 DEF Runs
  <2>6. Sound(cur')
    BY <2>4, <2>5 DEF Sound
  <2> QED
    BY <1>1, <2>6 DEF SoundInv, Sound
<1>5. CASE cur' = cur \/ cur' = NoRun
  BY <1>1, <1>2, <1>5 DEF SoundInv, Sound
<1> QED
  BY Steps, <1>3, <1>4, <1>5
     DEF Record, StartValidate, Merge, ReportUnreadable, OpenReport, CloseReport, StatusScans,
         StatusEnds, TesterFails, TesterEnds, StartPublish, Create, Upload, Complete,
         PublisherFails, AQualification, Qualify, RemoveReport, vars, testerVars

\* A project that readiness calls ready has a latest run of every domain that
\* succeeded, for any profile and whatever was run, killed or removed.
THEOREM ReadySucceeded == Spec => []ReadyMeansSucceeded
<1>1. Init => SoundInv
  BY DEF Init, SoundInv, Sound, NoRun
<1>2. Typed /\ DirInv /\ ReportInv /\ SoundInv => ReadyMeansSucceeded
  <2> SUFFICES ASSUME Typed, DirInv, ReportInv, SoundInv, Ready,
                      NEW d \in Domains \ unmerged, NEW r \in runs, IsLatest(r, d)
               PROVE  r.success
    BY DEF ReadyMeansSucceeded
  <2> PICK s \in runs : Validated(s, d)
    BY DEF Ready
  <2>1. s = r
    BY OneLatest DEF Validated
  <2>2. report.rows[d] = r.rows \/ report.rows[d] = {}
    BY DEF ReportInv, Shows, Ready
  <2>3. Passes(report.rows[d]) /\ ~Blocks(report.rows[d]) /\ r.exit = 0
    BY <2>1 DEF Validated, Ready
  <2>4. report.rows[d] = r.rows
    BY <2>2, <2>3 DEF Passes
  <2> QED
    BY <2>3, <2>4 DEF SoundInv, Sound
<1> QED
  BY <1>1, <1>2, RunsOrdered, SoundStep, PTL DEF Spec

-----------------------------------------------------------------------------
(* What is uploaded was assessed.                                          *)

\* A run that may be published, and whether it succeeded.
Fit(r, doubtful) == r.exit = 0 /\ r.junit = "parsed" /\ (r.success \/ doubtful)

Publishable(id) == \E r \in runs : r.id = id /\ Fit(r, hasty)

PublishInv ==
  /\ publisher # "idle" => \A d \in Domains : Publishable(evidence[d])
  /\ \A i \in 1 .. Len(service) : Publishable(service[i].run)

\* Records are kept and so are doubts: what could be published still can.
LEMMA PublishableStep ==
  ASSUME Typed, DirInv, [Next]_vars, NEW id, Publishable(id)
  PROVE  \E r \in runs' : r.id = id /\ Fit(r, hasty')
<1>1. hasty => hasty'
  BY Steps DEF ADirectory, ARun, NewRunDir, LiveRun, Record, StartValidate, Merge,
               ReportUnreadable, OpenReport, CloseReport, StatusScans, StatusEnds, TesterFails,
               StartPublish, Create, Upload, Complete, PublisherFails, AQualification, Qualify,
               RemoveReport, vars
<1> QED
  BY <1>1, RunsGrow DEF Publishable, Fit

\* While every record is in the report, an assessment chooses runs that
\* succeeded (ReadyMeansSucceeded); otherwise the publication is hasty.
LEMMA PublishStep ==
  Typed /\ DirInv /\ ReadyMeansSucceeded /\ PublishInv /\ [Next]_vars => PublishInv'
<1> SUFFICES ASSUME Typed, DirInv, ReadyMeansSucceeded, PublishInv, [Next]_vars
             PROVE  PublishInv'
  OBVIOUS
<1>1. service \in Seq(TestRuns) /\ target \in Domains
  BY DEF Typed, TypeOK
<1>2. ASSUME UNCHANGED service,
             publisher' = "idle" \/ (publisher # "idle" /\ UNCHANGED evidence)
      PROVE  PublishInv'
  <2>1. \A i \in 1 .. Len(service) :
          \E r \in runs' : r.id = service[i].run /\ Fit(r, hasty')
    BY PublishableStep DEF PublishInv
  <2>2. publisher # "idle" => \A d \in Domains :
          \E r \in runs' : r.id = evidence[d] /\ Fit(r, hasty')
    BY PublishableStep DEF PublishInv
  <2> QED
    BY <1>2, <2>1, <2>2 DEF PublishInv, Publishable
<1>3. CASE StartPublish
  <2>1. UNCHANGED <<runs, service>> /\ (hasty' <=> hasty \/ unmerged # {}) /\ Ready
    BY <1>3 DEF StartPublish
  <2>2. ASSUME NEW d \in Domains PROVE \E r \in runs : r.id = evidence'[d] /\ Fit(r, hasty')
    <3> PICK r \in runs : Validated(r, d) /\ evidence'[d] = r.id
      BY <1>3 DEF StartPublish
    <3>1. unmerged = {} => r.success
      BY <2>1 DEF ReadyMeansSucceeded, Validated
    <3> QED
      BY <2>1, <3>1 DEF Validated, Fit
  <2>3. \A i \in 1 .. Len(service) :
          \E r \in runs' : r.id = service[i].run /\ Fit(r, hasty')
    BY PublishableStep DEF PublishInv
  <2> QED
    BY <2>1, <2>2, <2>3 DEF PublishInv, Publishable
<1>4. CASE Create
  <2>1. /\ service' = Append(service, [run |-> evidence[target], status |-> "created"])
        /\ publisher # "idle" /\ (publisher' = "idle" \/ UNCHANGED evidence)
        /\ UNCHANGED <<runs, hasty>>
    BY <1>4 DEF Create, GoesOn, PublisherEnds
  <2>2. \A i \in 1 .. Len(service') : Publishable(service'[i].run)
    BY <1>1, <2>1 DEF PublishInv
  <2> QED
    BY <2>1, <2>2 DEF PublishInv, Publishable
<1>5. ASSUME NEW status, publisher # "idle", UNCHANGED <<runs, hasty>>,
             publisher' = "idle" \/ UNCHANGED evidence,
             service' = [service EXCEPT ![Len(service)].status = status]
      PROVE  PublishInv'
  <2>1. Len(service') = Len(service)
    BY <1>1, <1>5
  <2>2. ASSUME NEW i \in 1 .. Len(service) PROVE service'[i].run = service[i].run
    <3>1. service[i] \in TestRuns
      BY <1>1
    <3> QED
      BY <1>1, <1>5, <3>1 DEF TestRuns
  <2> QED
    BY <1>5, <2>1, <2>2 DEF PublishInv, Publishable
<1>6. CASE Upload
  BY <1>5, <1>6 DEF Upload, GoesOn, PublisherEnds
<1>7. CASE Complete
  BY <1>5, <1>7 DEF Complete, PublisherEnds
<1>8. CASE PublisherFails
  BY <1>2, <1>8 DEF PublisherFails, PublisherEnds
<1>9. CASE UNCHANGED publisherVars
  <2>1. publisher' = publisher /\ evidence' = evidence /\ service' = service
    BY <1>9 DEF publisherVars
  <2> QED
    BY <1>2, <2>1 DEF PublishInv, Publishable
<1> QED
  BY Steps, <1>3, <1>4, <1>6, <1>7, <1>8, <1>9
     DEF ADirectory, ARun, NewRunDir, LiveRun, Record, StartValidate, Merge, ReportUnreadable,
         OpenReport, CloseReport, StatusScans, StatusEnds, TesterFails, AQualification,
         Qualify, RemoveReport, vars

\* What is uploaded is the JUnit file of a recorded run that exited with 0
\* and could be read, for any number of publications that fail half way; and
\* it succeeded, unless a publication was assessed while a record was not in
\* the report: only there can publish_project upload a run that did not.
THEOREM UploadsAreAssessed == Spec => []UploadsAssessedRun
<1>1. Init => PublishInv
  BY DEF Init, PublishInv
<1>2. PublishInv => UploadsAssessedRun
  BY DEF PublishInv, UploadsAssessedRun, Publishable, Fit
<1> QED
  BY <1>1, <1>2, RunsOrdered, ReadySucceeded, PublishStep, PTL DEF Spec
=============================================================================

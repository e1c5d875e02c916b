--------------------------- MODULE Qualification ---------------------------
(***************************************************************************)
(* `gapctl qualify`: one resumable command that collects the declared      *)
(* context in a cache, has a generator draft a solution profile, and       *)
(* promotes the draft to the active profile once a person has resolved and *)
(* approved it.                                                            *)
(*                                                                         *)
(* The draft comes from an adapter, or through files: the request is       *)
(* exported, some agent answers it, and the answer is imported by a later  *)
(* command.  Everything the command leaves behind is a file written in     *)
(* place: a kill leaves the one it was writing cut short.  Meanwhile the   *)
(* ISV edits sources, the project and the proposal, and live runs are      *)
(* recorded.                                                               *)
(*                                                                         *)
(* A profile document is abstracted to its scope and the sources it cites, *)
(* a source to its version, a hash to the document it is the hash of.      *)
(***************************************************************************)
EXTENDS Naturals, FiniteSets

CONSTANTS
  Sources,      \* ids of context sources
  Required,     \* sources the project requires
  Local,        \* sources that are files, not pages
  Versions,     \* contents of a source
  First,        \* the content each source has at first
  Domains,      \* the domains declared in the project
  Scopes,       \* what a profile says of its domains
  InDeclared,   \* scopes with exactly the declared domains
  Settled,      \* scopes without an unresolved decision
  ClaimsOf,     \* the owned domains each scope calls covered
  Drafts,       \* profile documents: [scope, cites]
  Defects,      \* answers that fail the schema, a reference or the component graph
  MaxAttempts,  \* execution.max_attempts
  MaxKills,     \* bound on kills of the command
  MaxChanges,   \* bound on changes around the command
  Initial,      \* the profile `gapctl init` has written, with open decisions
  None, Cut     \* no file; a file cut short by a kill

ASSUME ScopeAssumption ==
  /\ Required \subseteq Sources /\ Local \subseteq Sources
  /\ First \in Versions
  /\ InDeclared \subseteq Scopes /\ Settled \subseteq InDeclared
  /\ ClaimsOf \in [Scopes -> SUBSET Domains]
  /\ Drafts \subseteq [scope : Scopes, cites : SUBSET Sources]
  /\ MaxAttempts \in Nat \ {0} /\ MaxKills \in Nat /\ MaxChanges \in Nat
  /\ None # Cut /\ Initial \notin {None, Cut} /\ None \notin Defects
  /\ Versions \cap {"error", "missing"} = {}

VARIABLES
  content,   \* the sources as they are
  declared,  \* context_sources of the project
  latest,    \* the exit of the latest recorded run of each domain
  records,   \* the context cache, a file for each source
  index,     \* index.json of the cache
  active,    \* solution-profile.yaml
  backup,    \* solution-profile.initial.yaml
  proposal,  \* solution-profile.proposed.yaml
  request,   \* generator-request.json
  pc,        \* where the command is; "idle" between two commands
  route,     \* "adapter", "export" or "import"
  consumed,  \* the runner has imported its response
  todo,      \* sources that are still to be synchronised
  pack,      \* the qualification pack
  feedback,  \* failures of the attempts so far
  read,      \* the proposal as checked, as promoted, and as hashed
  had,       \* history: versions each source had since the command began
  kills, changes,
  excuses    \* history: what happened between two statements that belong together

cache == <<records, index>>
profiles == <<active, backup, proposal>>
world == <<content, declared, latest>>
command == <<route, consumed, todo, pack, feedback, read, had>>
bounds == <<kills, changes, excuses>>
vars == <<world, cache, profiles, request, pc, command, bounds>>

NoRead == [checked |-> None, promoted |-> None, hashed |-> None]

HadNone == [s \in Sources |-> {}]

\* The command returns: what it had in memory is gone.
Return ==
  /\ pc' = "idle" /\ route' = "adapter" /\ consumed' = FALSE /\ todo' = {}
  /\ pack' = None /\ feedback' = {} /\ read' = NoRead /\ had' = HadNone

GoTo(place) == pc' = place /\ UNCHANGED command

-----------------------------------------------------------------------------
(* The command begins.                                                     *)

\* validation_profile_issues finds nothing in a promoted document.
Qualified == active \in Drafts /\ active.scope \in Settled

Start(way) ==
  /\ pc = "idle" /\ active # Cut /\ ~Qualified
  /\ pc' = IF proposal = None THEN "cache" ELSE "review"
  /\ route' = way
  /\ had' = [s \in Sources |-> {content[s]}]
  /\ excuses' = excuses \cap {"backup"}
  /\ UNCHANGED <<world, cache, profiles, request, consumed, todo, pack, feedback, read,
                 kills, changes>>

-----------------------------------------------------------------------------
(* The context cache.                                                      *)

Failed == {"error", "missing"}

Records == Versions \cup Failed

\* What a source that cannot be read is recorded as.
Unread(s) == IF s \in Required THEN "error" ELSE "missing"

Indexed == index \notin {None, Cut}

\* Mutant: the sources themselves are not looked at.
CacheMatchesIndex ==
  /\ Indexed /\ DOMAIN index = declared
  /\ \A s \in declared : records[s] = index[s]

\* context_cache_is_current: the index has the declared sources, each record
\* is as indexed, and the files among the sources are as recorded.
CacheIsCurrent ==
  /\ Indexed /\ DOMAIN index = declared
  /\ \A s \in declared : records[s] = index[s]
  /\ \A s \in declared \cap Local : content[s] # None /\ index[s] = content[s]

\* Mutant: a failed synchronisation counts as one.
NoErrorsLookedFor == TRUE

NoErrors == \A s \in Sources : records[s] # "error"

UseCache ==
  /\ pc = "cache" /\ CacheIsCurrent /\ NoErrors
  /\ GoTo("pack")
  /\ UNCHANGED <<world, cache, profiles, request, bounds>>

BeginSync ==
  /\ pc = "cache" /\ ~(CacheIsCurrent /\ NoErrors)
  /\ pc' = "sync" /\ todo' = declared
  /\ UNCHANGED <<world, cache, profiles, request, route, consumed, pack, feedback, read, had,
                 bounds>>

\* Sources are read one by one, in the order of the project file, which any
\* order stands for.  A page may be out of reach.
SyncSource(s, record) ==
  /\ pc = "sync" /\ s \in todo
  /\ \/ record = content[s] /\ content[s] # None
     \/ record = Unread(s) /\ (content[s] = None \/ s \notin Local)
  /\ records' = [records EXCEPT ![s] = record]
  /\ todo' = todo \ {s}
  /\ UNCHANGED <<world, index, profiles, request, pc, route, consumed, pack, feedback, read, had,
                 bounds>>

RemoveUndeclared ==
  /\ pc = "sync" /\ todo = {}
  /\ records' = [s \in Sources |-> IF s \in declared THEN records[s] ELSE None]
  /\ GoTo("index")
  /\ UNCHANGED <<world, index, profiles, request, bounds>>

\* The index is written last; a required source that failed ends the command.
WriteIndex ==
  /\ pc = "index"
  /\ index' = [s \in declared |-> records[s]]
  /\ IF \E s \in declared : records[s] = "error" THEN Return ELSE GoTo("pack")
  /\ UNCHANGED <<world, records, profiles, request, bounds>>

-----------------------------------------------------------------------------
(* The pack and the draft.                                                 *)

Synced == {s \in declared : records[s] \in Versions}

\* _qualify_records
RequiredSynced == Required \cap declared \subseteq Synced

\* build_qualify_pack: what the cache holds, and the latest runs.
PackOf == [context |-> [s \in Synced |-> records[s]], runs |-> latest]

BuildPack ==
  /\ pc = "pack"
  /\ IF RequiredSynced
     THEN /\ pack' = PackOf /\ pc' = "draft"
          /\ UNCHANGED <<route, consumed, todo, feedback, read, had>>
     ELSE Return
  /\ UNCHANGED <<world, cache, profiles, request, bounds>>

Request == [pack |-> pack, feedback |-> feedback]

\* _harden_and_validate_draft: what is wrong with an answer, if anything.
DefectOf(answer) ==
  IF answer \in Defects THEN answer
  ELSE IF ~(answer.cites \subseteq DOMAIN pack.context) THEN "citation"
  ELSE IF answer.scope \notin InDeclared THEN "domains" ELSE None

TryAgain(defect) == defect \notin feedback /\ Cardinality(feedback) + 1 < MaxAttempts

\* A valid answer becomes the proposal, as a draft of the qualify stage; a
\* defect goes into the next request, unless it repeats or the budget is spent.
Answered(answer) ==
  LET defect == DefectOf(answer) IN
  IF defect = None
  THEN /\ read' = [NoRead EXCEPT !.checked = answer] /\ pc' = "propose"
       /\ consumed' = (route = "import")
       /\ UNCHANGED <<route, todo, pack, feedback, had>>
  ELSE IF TryAgain(defect)
  THEN /\ feedback' = feedback \cup {defect} /\ consumed' = (route = "import")
       /\ UNCHANGED <<pc, route, todo, pack, read, had>>
  ELSE Return

AdapterAnswers(answer) ==
  /\ pc = "draft" /\ route = "adapter"
  /\ Answered(answer)
  /\ UNCHANGED <<world, cache, profiles, request, bounds>>

AdapterFails ==
  /\ pc = "draft" /\ route = "adapter"
  /\ Return
  /\ UNCHANGED <<world, cache, profiles, request, bounds>>

\* Without a response, or with one that is used up, the request is exported.
Exporting == route = "export" \/ (route = "import" /\ consumed)

Export ==
  /\ pc = "draft" /\ Exporting
  /\ request' = Request
  /\ Return
  /\ UNCHANGED <<world, cache, profiles, bounds>>

\* The exported request is exactly the one this command would send.
Exported == request = Request

\* What the response file holds, the agent or the person has put there.
Import(answer) ==
  /\ pc = "draft" /\ route = "import" /\ ~consumed
  /\ Exported
  /\ Answered(answer)
  /\ UNCHANGED <<world, cache, profiles, request, bounds>>

\* Another request was exported, or there is no response to import.
ImportRefused ==
  /\ pc = "draft" /\ route = "import" /\ ~consumed
  /\ Return
  /\ UNCHANGED <<world, cache, profiles, request, bounds>>

WriteProposal ==
  /\ pc = "propose"
  /\ proposal' = read.checked
  /\ pc' = "review" /\ read' = NoRead
  /\ UNCHANGED <<world, cache, active, backup, request, route, consumed, todo, pack,
                 feedback, had, bounds>>

-----------------------------------------------------------------------------
(* The review of the proposal.                                             *)

\* The pack the citations are resolved against: the one of the draft, or one
\* built from the cache as it is.
Evidence == IF pack = None THEN PackOf ELSE pack

Readable(document) ==
  document \in Drafts /\ document.cites \subseteq DOMAIN Evidence.context

\* empirical_conflicts
Conflicts(document) == \E d \in ClaimsOf[document.scope] : latest[d] = "failed"

\* Mutant: claims are not compared with the runs.
ReviewableByShape == (pack # None \/ RequiredSynced) /\ Readable(proposal)

Reviewable ==
  /\ pack # None \/ RequiredSynced
  /\ Readable(proposal)
  /\ ~Conflicts(proposal)

ReviewStops ==
  /\ pc = "review" /\ ~Reviewable
  /\ Return
  /\ UNCHANGED <<world, cache, profiles, request, bounds>>

Check ==
  /\ pc = "review" /\ Reviewable
  /\ pack' = Evidence
  /\ read' = [read EXCEPT !.checked = proposal] /\ pc' = "promote"
  /\ UNCHANGED <<world, cache, profiles, request, route, consumed, todo, feedback, had,
                 bounds>>

\* _promoted_profile reads the file again; what it reads is checked again, but
\* for the conflicts.  Unresolved decisions end the command.
Promote ==
  /\ pc = "promote"
  /\ IF Readable(proposal) /\ proposal.scope \in Settled
     THEN /\ read' = [read EXCEPT !.promoted = proposal] /\ pc' = "hash"
          /\ UNCHANGED <<route, consumed, todo, pack, feedback, had>>
     ELSE Return
  /\ UNCHANGED <<world, cache, profiles, request, bounds>>

\* The hash that is displayed is of the file as it is now.
Hash ==
  /\ pc = "hash" /\ proposal # None
  /\ read' = [read EXCEPT !.hashed = proposal] /\ pc' = "ask"
  /\ UNCHANGED <<world, cache, profiles, request, route, consumed, todo, pack, feedback,
                 had, bounds>>

\* _file_sha256 raises when the file is gone, here and when it is hashed again.
HashFails ==
  /\ pc = "hash" /\ proposal = None
  /\ Return
  /\ UNCHANGED <<world, cache, profiles, request, bounds>>

Disapprove ==
  /\ pc = "ask"
  /\ Return
  /\ UNCHANGED <<world, cache, profiles, request, bounds>>

\* Mutant: the file is not hashed again.
UnchangedIfAsked == TRUE

UnchangedSinceHash == proposal = read.hashed

Approve ==
  /\ pc = "ask"
  /\ IF UnchangedSinceHash THEN GoTo("backup") ELSE Return
  /\ UNCHANGED <<world, cache, profiles, request, bounds>>

\* Mutant: no copy is made.
BackUpSkipped ==
  /\ pc = "backup"
  /\ GoTo("write")
  /\ UNCHANGED <<world, cache, profiles, request, bounds>>

\* The first profile is kept, and never replaced.
BackUp ==
  /\ pc = "backup"
  /\ backup' = IF backup = None THEN active ELSE backup
  /\ GoTo("write")
  /\ UNCHANGED <<world, cache, active, proposal, request, bounds>>

WriteActive ==
  /\ pc = "write"
  /\ active' = read.promoted
  /\ Return
  /\ UNCHANGED <<world, cache, backup, proposal, request, bounds>>

-----------------------------------------------------------------------------
(* What happens around the command.                                        *)

Change == changes < MaxChanges /\ changes' = changes + 1

EditSource(s, version) ==
  /\ Change /\ s \in Local /\ version # content[s]
  /\ content' = [content EXCEPT ![s] = version]
  /\ had' = IF pc = "idle" THEN had ELSE [had EXCEPT ![s] = @ \cup {version}]
  /\ UNCHANGED <<declared, latest, cache, profiles, request, pc, route, consumed, todo, pack,
                 feedback, read, kills, excuses>>

\* The project is read when the command begins: an edit while it runs counts
\* as one that comes after it.
DeclareSource(s) ==
  /\ Change /\ pc = "idle" /\ s \notin declared
  /\ declared' = declared \cup {s}
  /\ UNCHANGED <<content, latest, cache, profiles, request, pc, command, kills, excuses>>

\* A live run of a domain is recorded.
RecordRun(d, exit) ==
  /\ Change /\ latest[d] # exit
  /\ latest' = [latest EXCEPT ![d] = exit]
  /\ excuses' = IF pc \in {"promote", "hash", "ask", "backup", "write"}
                THEN excuses \cup {"run"} ELSE excuses
  /\ UNCHANGED <<content, declared, cache, profiles, request, pc, command, kills>>

\* The person edits, or removes, the proposal at any time.
EditProposal(document) ==
  /\ Change /\ proposal # None /\ document # proposal
  /\ proposal' = document
  /\ excuses' = excuses \cup (CASE pc = "promote"            -> {"unchecked"}
                                [] pc = "hash"               -> {"unhashed"}
                                [] pc \in {"backup", "write"} -> {"late"}
                                [] OTHER                     -> {})
  /\ UNCHANGED <<world, cache, active, backup, request, pc, command, kills>>

\* The person does what the command asks for: decisions are resolved, claims
\* that a run contradicts are dropped, and citations are of what there is.
Resolve(document) ==
  /\ pc = "idle" /\ proposal \in Drafts
  /\ ~(Readable(proposal) /\ proposal.scope \in Settled /\ ~Conflicts(proposal))
  /\ Readable(document) /\ document.scope \in Settled /\ ~Conflicts(document)
  /\ proposal' = document
  /\ UNCHANGED <<world, cache, active, backup, request, pc, command, bounds>>

\* The command is killed; the file it was writing is cut short.
Kill ==
  /\ pc # "idle" /\ kills < MaxKills
  /\ kills' = kills + 1
  /\ Return
  /\ \/ UNCHANGED <<cache, profiles, request, excuses>>
     \/ /\ pc = "sync"
        /\ \E s \in todo : records' = [records EXCEPT ![s] = Cut]
        /\ UNCHANGED <<index, profiles, request, excuses>>
     \/ /\ pc = "index" /\ index' = Cut
        /\ UNCHANGED <<records, profiles, request, excuses>>
     \/ /\ pc = "draft" /\ Exporting /\ request' = Cut
        /\ UNCHANGED <<cache, profiles, excuses>>
     \/ /\ pc = "propose" /\ proposal' = Cut
        /\ UNCHANGED <<cache, active, backup, request, excuses>>
     \/ /\ pc = "backup" /\ backup = None /\ backup' = Cut
        /\ excuses' = excuses \cup {"backup"}
        /\ UNCHANGED <<cache, active, proposal, request>>
     \/ /\ pc = "write" /\ active' = Cut
        /\ UNCHANGED <<cache, backup, proposal, request, excuses>>
  /\ UNCHANGED <<world, changes>>

-----------------------------------------------------------------------------

Answers == Drafts \cup Defects

\* After `gapctl init`, whose import of the context may have been stopped or
\* may have failed.
Init ==
  /\ content = [s \in Sources |-> First]
  /\ declared \in {Sources, Sources \cap Local}
  /\ latest = [d \in Domains |-> "none"]
  /\ \/ records = [s \in Sources |-> None] /\ index = None
     \/ /\ records = [s \in Sources |-> IF s \in declared THEN content[s] ELSE None]
        /\ index = [s \in declared |-> content[s]]
  /\ active = Initial /\ backup = None /\ proposal = None
  /\ request = None
  /\ pc = "idle" /\ route = "adapter" /\ consumed = FALSE /\ todo = {}
  /\ pack = None /\ feedback = {} /\ read = NoRead
  /\ had = HadNone /\ kills = 0 /\ changes = 0 /\ excuses = {}

\* The command between its start and its end, whatever route it takes.
Proceed ==
  \/ UseCache \/ BeginSync \/ RemoveUndeclared \/ WriteIndex \/ BuildPack
  \/ \E s \in Sources, record \in Records : SyncSource(s, record)
  \/ \E answer \in Answers : AdapterAnswers(answer) \/ Import(answer)
  \/ AdapterFails \/ Export \/ ImportRefused \/ WriteProposal
  \/ ReviewStops \/ Check \/ Promote \/ Hash \/ HashFails \/ Disapprove \/ Approve \/ BackUp
  \/ WriteActive

Around ==
  \/ \E s \in Sources, version \in Versions \cup {None} : EditSource(s, version)
  \/ \E s \in Sources : DeclareSource(s)
  \/ \E d \in Domains, exit \in {"passed", "failed"} : RecordRun(d, exit)
  \/ \E document \in Drafts \cup {None} : EditProposal(document)
  \/ Kill

Next ==
  \/ \E way \in {"adapter", "export", "import"} : Start(way)
  \/ Proceed
  \/ Around
  \/ \E document \in Drafts : Resolve(document)

Spec == Init /\ [][Next]_vars

\* The command is repeated and each one ends.  A person who resolves what is
\* asked and approves in the end, a page that can be reached in the end and an
\* adapter that gives a valid answer in the end, if asked often enough.
FairSpec ==
  /\ Spec
  /\ WF_vars(Proceed)
  /\ SF_vars(Start("adapter"))
  /\ \A s \in Sources : SF_vars(route = "adapter" /\ SyncSource(s, content[s]))
  /\ SF_vars(\E answer \in Drafts : AdapterAnswers(answer) /\ pc' = "propose")
  /\ SF_vars(\E document \in Drafts : Resolve(document))
  /\ SF_vars(Approve)

-----------------------------------------------------------------------------

Contexts == UNION {[known -> Versions] : known \in SUBSET Sources}

Packs == [context : Contexts, runs : [Domains -> {"none", "passed", "failed"}]]

Requests == [pack : Packs, feedback : SUBSET (Defects \cup {"citation", "domains"})]

\* The type invariant.
TypeOK ==
  /\ content \in [Sources -> Versions \cup {None}]
  /\ declared \subseteq Sources
  /\ latest \in [Domains -> {"none", "passed", "failed"}]
  /\ records \in [Sources -> Records \cup {None, Cut}]
  /\ Indexed => DOMAIN index \subseteq Sources /\ \A s \in DOMAIN index : index[s] \in Records
  /\ active \in Drafts \cup {Initial, Cut}
  /\ backup \in {None, Initial, Cut}
  /\ proposal \in Drafts \cup {None, Cut}
  /\ request \in Requests \cup {None, Cut}
  /\ pc \in {"idle", "cache", "sync", "index", "pack", "draft", "propose", "review",
             "promote", "hash", "ask", "backup", "write"}
  /\ route \in {"adapter", "export", "import"} /\ consumed \in BOOLEAN
  /\ todo \subseteq declared
  /\ pack \in Packs \cup {None}
  /\ feedback \subseteq Defects \cup {"citation", "domains"}
  /\ IsFiniteSet(feedback) /\ Cardinality(feedback) < MaxAttempts
  /\ read \in [checked : Drafts \cup {None}, promoted : Drafts \cup {None},
                hashed : Drafts \cup {None, Cut}]
  /\ had \in [Sources -> SUBSET (Versions \cup {None})]
  /\ kills \in 0 .. MaxKills /\ changes \in 0 .. MaxChanges
  /\ excuses \subseteq {"run", "unchecked", "unhashed", "late", "backup"}

\* "qualify refreshes that source instead of sending stale evidence to the
\* generator" (architecture.md): whatever an interrupted synchronisation left in
\* the cache, each file in a pack that a draft is made from is one the ISV had
\* since the command began.
NoStaleEvidence ==
  pc = "draft" =>
    \A s \in Local \cap DOMAIN pack.context : pack.context[s] \in had[s]

\* "Approval promotes the exact reviewed proposal" (README.md): the profile that
\* becomes active is the one whose hash was displayed, and the proposal still is
\* that one.  Two edits are excepted: between the reading and the hashing of the
\* proposal, and after the question was answered and its hash compared.
PromotedAsReviewed ==
  [][active' # active /\ active' # Cut =>
       \/ "unhashed" \in excuses
       \/ active' = read.hashed /\ ("late" \in excuses \/ proposal = read.hashed)]_vars

\* A profile that becomes active claims no domain covered whose latest run
\* failed, unless the proposal was edited or the run recorded after the claims
\* were compared with the runs.
NoRefutedClaim ==
  [][active' # active /\ active' # Cut =>
       \/ excuses \cap {"run", "unchecked", "unhashed"} # {}
       \/ ~Conflicts(active')]_vars

\* The profile of `gapctl init` can be restored at any time, unless a kill cut
\* its copy short: that copy is never made again.
InitialKept == "backup" \in excuses \/ Initial \in {active, backup}

\* A person who repeats the command gets a qualified profile, unless a kill
\* cut a profile short, a required file is gone, or a required source was
\* declared after the proposal was written: then every later command fails
\* until the proposal is removed.
RepeatQualifies ==
  <>[](\/ Qualified
       \/ Cut \in {active, proposal}
       \/ \E s \in Required \cap declared : content[s] = None
       \/ proposal # None /\ ~RequiredSynced)
=============================================================================

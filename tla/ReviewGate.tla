----------------------------- MODULE ReviewGate -----------------------------
(***************************************************************************)
(* `gapctl validate` up to the live run: for every owned domain in turn it *)
(* resumes the pending review or runs run_auto, asks a person to approve   *)
(* the combined patch, applies it bound to its hash and scans again; when  *)
(* no domain has a parked gap it asks to start the live run.               *)
(*                                                                         *)
(* The session keeps its state in files: the scratch copy, auto-review.json*)
(* and auto-review.patch of each domain, written and removed one after the *)
(* other.  The process may be killed between any two of these steps, the   *)
(* command may be repeated, and the ISV edits the provider in between.     *)
(*                                                                         *)
(* A patch is the set of its changes <<file, before, after>>, and stands   *)
(* for its text and its hash.  The loop of run_auto is the module AutoRun, *)
(* the replacement of the files the module ApplyTransaction: here they are *)
(* one step each, with the outcomes those modules allow.                   *)
(***************************************************************************)
EXTENDS Naturals

CONSTANTS
  D,            \* the owned domains are 1 .. D, in the order of the project
  Files,        \* provider files
  Versions,     \* contents of a file
  Scope,        \* the files a candidate of each domain may change
  Clean,        \* the provider contents in which each domain has no blocking gap
  None,         \* a file or directory that does not exist
  Partial,      \* a file whose writing was cut short
  MaxKills,     \* times the process is killed
  MaxEdits,     \* edits of the provider by the ISV
  EditPoints,   \* the places of the session at which these edits happen
  RejectsFresh, \* the person may decline a review that was never refused
  Insists       \* the person may approve a review again after it was refused

Domains == 1 .. D

Contents == [Files -> Versions]

ASSUME GateAssumption ==
  /\ D \in Nat \ {0}
  /\ Scope \in [Domains -> SUBSET Files]
  /\ Clean \in [Domains -> SUBSET Contents]
  /\ None \notin Contents
  /\ MaxKills \in Nat
  /\ MaxEdits \in Nat
  /\ RejectsFresh \in BOOLEAN
  /\ Insists \in BOOLEAN

VARIABLES
  pc,        \* where the session is; "idle" when no process runs
  domain,    \* the domain it works on
  provider,  \* the provider's files
  scratch,   \* scratch-provider of each domain, or None
  json,      \* auto-review.json of each domain
  patchFile, \* auto-review.patch of each domain
  review,    \* the AutoReview that is being recorded, or the one shown
  declined,  \* domains whose last review was declined and not regenerated
  refused,   \* domains whose pending review could not be applied
  left,      \* the provider as each domain's last scan left it in this session
  touched,   \* the ISV edited the provider since the session began
  kills,     \* how often the process was killed
  edits      \* how often the ISV edited the provider

diskVars == <<scratch, json, patchFile>>
peopleVars == <<declined, refused>>
seenVars == <<left, touched>>
envVars == <<seenVars, kills, edits>>
vars == <<pc, domain, provider, diskVars, review, peopleVars, envVars>>

Points ==
  {"idle", "enter", "discard", "copy", "generate", "record", "recordPatch",
   "ask", "reject", "apply", "askLive", "live"}

Patches == SUBSET (Files \X Versions \X Versions)

Statuses == {"no_changes", "awaiting_review", "applied"}

Reviews == [status : Statuses, patch : Patches, parked : BOOLEAN]

NoReview == [status |-> "no_changes", patch |-> {}, parked |-> FALSE]

\* _combined_patch over _changed_files.
Patch(from, to) == {<<f, from[f], to[f]>> : f \in {g \in Files : from[g] # to[g]}}

-----------------------------------------------------------------------------
(* Entering a domain: _pending_review.                                     *)

AwaitingOnDisk(d) ==
  /\ json[d] \notin {None, Partial}
  /\ json[d].status = "awaiting_review"
  /\ patchFile[d] # None
  /\ scratch[d] # None

Validate ==
  /\ pc = "idle"
  /\ pc' = "enter"
  /\ domain' = 1
  /\ left' = [d \in Domains |-> None]
  /\ touched' = FALSE
  /\ UNCHANGED <<provider, diskVars, review, peopleVars, kills, edits>>

\* The stored review is shown again, without its parked gaps.
Resume ==
  /\ pc = "enter"
  /\ AwaitingOnDisk(domain)
  /\ patchFile[domain] = json[domain].patch
  /\ review' = [status |-> "awaiting_review", patch |-> json[domain].patch, parked |-> FALSE]
  /\ pc' = "ask"
  /\ UNCHANGED <<domain, provider, diskVars, peopleVars, envVars>>

\* The patch file is not the recorded one: the command stops with an error.
Mismatch ==
  /\ pc = "enter"
  /\ AwaitingOnDisk(domain)
  /\ patchFile[domain] # json[domain].patch
  /\ pc' = "idle"
  /\ UNCHANGED <<domain, provider, diskVars, review, peopleVars, envVars>>

\* The error tells the person to remove the work directory.
RemoveWorkDir(d) ==
  /\ pc = "idle"
  /\ AwaitingOnDisk(d)
  /\ patchFile[d] # json[d].patch
  /\ scratch' = [scratch EXCEPT ![d] = None]
  /\ json' = [json EXCEPT ![d] = None]
  /\ patchFile' = [patchFile EXCEPT ![d] = None]
  /\ UNCHANGED <<pc, domain, provider, review, peopleVars, envVars>>

-----------------------------------------------------------------------------
(* run_auto(apply=False), between its effects on files.                    *)

\* _discard_review_artifacts: first the record, then the patch.
BeginAuto ==
  /\ pc = "enter"
  /\ ~AwaitingOnDisk(domain)
  /\ json' = [json EXCEPT ![domain] = None]
  /\ pc' = "discard"
  /\ UNCHANGED <<domain, provider, scratch, patchFile, review, peopleVars, envVars>>

DiscardPatch ==
  /\ pc = "discard"
  /\ patchFile' = [patchFile EXCEPT ![domain] = None]
  /\ pc' = "copy"
  /\ UNCHANGED <<domain, provider, scratch, json, review, peopleVars, envVars>>

\* Mutant: a scratch copy that exists is used as it is.
CopyProviderOnce ==
  /\ pc = "copy"
  /\ scratch' = [scratch EXCEPT ![domain] = IF @ = None THEN provider ELSE @]
  /\ pc' = "generate"
  /\ UNCHANGED <<domain, provider, json, patchFile, review, peopleVars, envVars>>

CopyProvider ==
  /\ pc = "copy"
  /\ scratch' = [scratch EXCEPT ![domain] = provider]
  /\ pc' = "generate"
  /\ UNCHANGED <<domain, provider, json, patchFile, review, peopleVars, envVars>>

\* The loop ends with a candidate in the scratch copy; the patch is taken
\* against the provider as it is now.
GenerateInto(candidate, parked) ==
  LET patch == Patch(provider, candidate) IN
  /\ scratch' = [scratch EXCEPT ![domain] = candidate]
  /\ review' = [status |-> IF patch = {} THEN "no_changes" ELSE "awaiting_review",
                patch |-> patch, parked |-> parked]
  /\ pc' = "record"
  /\ UNCHANGED <<domain, provider, json, patchFile, peopleVars, envVars>>

WithinScope(candidate) ==
  \A f \in Files \ Scope[domain] : candidate[f] = scratch[domain][f]

\* Blocking gaps of the scratch copy are parked; so are open audit findings.
Generate ==
  /\ pc = "generate"
  /\ \E candidate \in Contents, parked \in BOOLEAN :
       /\ WithinScope(candidate)
       /\ candidate \notin Clean[domain] => parked
       /\ GenerateInto(candidate, parked)

\* A generator at its best: it closes every gap, and leaves a clean domain be.
GenerateWell ==
  /\ pc = "generate"
  /\ \E candidate \in Clean[domain] :
       /\ WithinScope(candidate)
       /\ scratch[domain] \in Clean[domain] => candidate = scratch[domain]
       /\ GenerateInto(candidate, FALSE)

\* A timeout, an adapter failure or a scope error ends the command.
GenerateFails ==
  /\ pc = "generate"
  /\ pc' = "idle"
  /\ UNCHANGED <<domain, provider, diskVars, review, peopleVars, envVars>>

-----------------------------------------------------------------------------
(* _write_review and what the session does with the review.                *)

WriteRecord ==
  /\ pc = "record"
  /\ json' = [json EXCEPT ![domain] = review]
  /\ declined' = declined \ {domain}
  /\ refused' = refused \ {domain}
  /\ pc' = "recordPatch"
  /\ UNCHANGED <<domain, provider, scratch, patchFile, review, envVars>>

\* The session stays with the domain, at another point.
StayAt(point) == pc' = point /\ UNCHANGED <<domain, left>>

\* The next domain, or the question whether to start the live run; nothing
\* scans this domain again before that run.
Advance ==
  /\ IF domain < D THEN pc' = "enter" /\ domain' = domain + 1
                   ELSE pc' = "askLive" /\ UNCHANGED domain
  /\ left' = [left EXCEPT ![domain] = provider]

\* Mutant: an applied domain is not looked at again.
ContinueWithoutRescan ==
  CASE review.status = "awaiting_review" -> StayAt("ask")
    [] review.status = "applied"         -> Advance
    [] review.status = "no_changes"      ->
         IF review.parked THEN StayAt("idle") ELSE Advance

\* An applied patch is followed by another scan of the same domain.
Continue ==
  CASE review.status = "awaiting_review" -> StayAt("ask")
    [] review.status = "applied"         -> StayAt("enter")
    [] review.status = "no_changes"      ->
         IF review.parked THEN StayAt("idle") ELSE Advance

WritePatch ==
  /\ pc = "recordPatch"
  /\ patchFile' =
       [patchFile EXCEPT ![domain] = IF review.patch = {} THEN None ELSE review.patch]
  /\ Continue
  /\ UNCHANGED <<provider, scratch, json, review, peopleVars, touched, kills, edits>>

Accept ==
  /\ pc = "ask"
  /\ domain \in refused => Insists
  /\ pc' = "apply"
  /\ UNCHANGED <<domain, provider, diskVars, review, peopleVars, envVars>>

\* Mutant: a declined review stays pending.
RejectKeepingReview ==
  /\ pc = "ask"
  /\ RejectsFresh \/ (domain \in refused /\ ~Insists)
  /\ declined' = declined \cup {domain}
  /\ pc' = "idle"
  /\ UNCHANGED <<domain, provider, diskVars, review, refused, envVars>>

\* _discard_pending_review: first the record, then the patch.
Reject ==
  /\ pc = "ask"
  /\ RejectsFresh \/ (domain \in refused /\ ~Insists)
  /\ json' = [json EXCEPT ![domain] = None]
  /\ declined' = declined \cup {domain}
  /\ pc' = "reject"
  /\ UNCHANGED <<domain, provider, scratch, patchFile, review, refused, envVars>>

RejectPatch ==
  /\ pc = "reject"
  /\ patchFile' = [patchFile EXCEPT ![domain] = None]
  /\ pc' = "idle"
  /\ UNCHANGED <<domain, provider, scratch, json, review, peopleVars, envVars>>

-----------------------------------------------------------------------------
(* run_auto(apply=True): _apply_reviewed_scratch.                          *)

\* Mutant: the patch is not compared with the approved one.
ApprovedAlways == Patch(provider, scratch[domain]) # {}

\* The patch of the files as they are now has the approved hash.
Approved ==
  /\ Patch(provider, scratch[domain]) # {}
  /\ Patch(provider, scratch[domain]) = review.patch

\* Nothing left to apply, or another hash: the markers stay as they are.
ApplyRefused ==
  /\ pc = "apply"
  /\ ~Approved
  /\ refused' = refused \cup {domain}
  /\ pc' = "idle"
  /\ UNCHANGED <<domain, provider, diskVars, review, declined, envVars>>

Apply ==
  /\ pc = "apply"
  /\ Approved
  /\ provider' = scratch[domain]
  /\ review' = [status |-> "applied", patch |-> Patch(provider, scratch[domain]), parked |-> FALSE]
  /\ pc' = "record"
  /\ UNCHANGED <<domain, diskVars, peopleVars, envVars>>

\* What a transaction that did not commit can leave: nothing of the patch, if
\* it was rolled back, or some of its files.
PartlyApplied ==
  {[f \in Files |-> IF f \in done THEN scratch[domain][f] ELSE provider[f]] :
     done \in SUBSET Files}

ApplyFails ==
  /\ pc = "apply"
  /\ Approved
  /\ provider' \in PartlyApplied
  /\ pc' = "idle"
  /\ UNCHANGED <<domain, diskVars, review, peopleVars, envVars>>

StartLive ==
  /\ pc = "askLive"
  /\ pc' = "live"
  /\ UNCHANGED <<domain, provider, diskVars, review, peopleVars, envVars>>

DeclineLive ==
  /\ pc = "askLive"
  /\ pc' = "idle"
  /\ UNCHANGED <<domain, provider, diskVars, review, peopleVars, envVars>>

LiveEnds ==
  /\ pc = "live"
  /\ pc' = "idle"
  /\ UNCHANGED <<domain, provider, diskVars, review, peopleVars, envVars>>

-----------------------------------------------------------------------------
(* The process is killed; the ISV edits the provider.                      *)

\* What the kill leaves of the step it cuts short.
CutShort ==
  CASE pc = "record" ->
         /\ json' \in {json, [json EXCEPT ![domain] = Partial]}
         /\ UNCHANGED <<provider, patchFile>>
    [] pc = "recordPatch" ->
         /\ patchFile' \in {patchFile, [patchFile EXCEPT ![domain] = Partial]}
         /\ UNCHANGED <<provider, json>>
    [] pc = "apply" /\ Approved ->
         /\ provider' \in PartlyApplied
         /\ UNCHANGED <<json, patchFile>>
    [] OTHER -> UNCHANGED <<provider, json, patchFile>>

Kill ==
  /\ pc # "idle"
  /\ kills < MaxKills
  /\ kills' = kills + 1
  /\ pc' = "idle"
  /\ CutShort
  /\ UNCHANGED <<domain, scratch, review, peopleVars, seenVars, edits>>

EditProvider(f, v) ==
  /\ pc \in EditPoints
  /\ edits < MaxEdits
  /\ edits' = edits + 1
  /\ provider' = [provider EXCEPT ![f] = v]
  /\ touched' = TRUE
  /\ UNCHANGED <<pc, domain, diskVars, review, peopleVars, left, kills>>

-----------------------------------------------------------------------------
Init ==
  /\ pc = "idle"
  /\ domain = 1
  /\ provider \in Contents
  /\ scratch = [d \in Domains |-> None]
  /\ json = [d \in Domains |-> None]
  /\ patchFile = [d \in Domains |-> None]
  /\ review = NoReview
  /\ declined = {}
  /\ refused = {}
  /\ left = [d \in Domains |-> None]
  /\ touched = FALSE
  /\ kills = 0
  /\ edits = 0

\* What the program and the person who repeats the command do.
Session ==
  \/ Validate \/ Resume \/ Mismatch
  \/ BeginAuto \/ DiscardPatch \/ CopyProvider
  \/ WriteRecord \/ WritePatch
  \/ Accept \/ Reject \/ RejectPatch
  \/ Apply \/ ApplyRefused
  \/ StartLive \/ LiveEnds

\* The generator, the file system and the person may also fall short.
Setback == Generate \/ GenerateFails \/ ApplyFails \/ DeclineLive

CleanUp == \E d \in Domains : RemoveWorkDir(d)

Next ==
  \/ Session \/ Setback \/ CleanUp
  \/ Kill
  \/ \E f \in Files, v \in Versions : EditProvider(f, v)

Spec == Init /\ [][Next]_vars

\* The generator, the file system and the person do their part, and the
\* command is repeated for as long as it takes; the process may be killed.
Persevering == Session \/ GenerateWell

FairSpec ==
  /\ Init
  /\ [][Persevering \/ CleanUp \/ Kill]_vars
  /\ WF_vars(Persevering)
  /\ SF_vars(CleanUp)
-----------------------------------------------------------------------------
(* What the session promises.                                              *)

\* The type invariant.
TypeOK ==
  /\ pc \in Points
  /\ domain \in Domains
  /\ provider \in Contents
  /\ scratch \in [Domains -> Contents \cup {None}]
  /\ json \in [Domains -> Reviews \cup {None, Partial}]
  /\ patchFile \in [Domains -> Patches \cup {None, Partial}]
  /\ review \in Reviews
  /\ declined \subseteq Domains
  /\ refused \subseteq Domains
  /\ left \in [Domains -> Contents \cup {None}]
  /\ touched \in BOOLEAN
  /\ kills \in 0 .. MaxKills
  /\ edits \in 0 .. MaxEdits

\* Every change the tool makes to the provider, also one it makes of a call
\* that is cut short, is a change of the patch the person has approved.
OnlyReviewedChanges ==
  [][edits' = edits => Patch(provider, provider') \subseteq review.patch]_vars

\* A review changes no file outside the edit scope of its domain: it never
\* takes back what the ISV edited between two sessions.
OfferedWithinScope ==
  pc = "ask" => \A change \in review.patch : change[1] \in Scope[domain]

\* A declined review is never shown again: the domain is regenerated first.
DeclinedNotShownAgain == pc = "ask" => domain \notin declined

\* Unless the ISV has edited the provider since the session began, the live run
\* starts only when a scan of this session found each domain without a blocking
\* gap, and what has changed since that scan is within the edit scope of a later
\* domain: the last domain is clean, an earlier one as far as no later one may
\* change its files.  A script may be in the scope of every domain, and the
\* earlier domains are not scanned again.
LiveOnlyWhenClean ==
  pc = "live" /\ ~touched =>
    \A d \in Domains :
      /\ left[d] \in Clean[d]
      /\ \A f \in Files : provider[f] # left[d][f] => \E e \in d + 1 .. D : f \in Scope[e]

\* "Repeat the same command until every owned domain has no blocking gaps and
\* a successful live test" (README.md): repeating the command and approving
\* what it shows ends in a live run.
RepeatReachesLive == <>(pc = "live")
=============================================================================

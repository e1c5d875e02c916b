------------------------- MODULE ApplyTransaction -------------------------
(***************************************************************************)
(* _apply_to_provider: the files of an approved patch replace those of the *)
(* provider, as one transaction that is rolled back when a step fails.     *)
(*                                                                         *)
(* The call checks every target against the reviewed hashes, backs up and  *)
(* stages every file, replaces the targets one by one, and re-reads each   *)
(* after its replacement.  Any of these calls can be refused by the file   *)
(* system.  Meanwhile the ISV may edit the provider, and anything may      *)
(* change the scratch copy; the process may be interrupted or killed.      *)
(* A content stands for the hash of a file and for its bytes.              *)
(***************************************************************************)
EXTENDS Naturals

CONSTANTS
  N,        \* files of the patch, in the order of changed_files
  Versions, \* contents of a file
  Absent,   \* there is no file
  NotTaken, \* no backup has been taken
  Before,   \* before_sha256 of each changed file, Absent if it is created
  After,    \* after_sha256 of each changed file
  Shared    \* provider files that others may edit while the call runs

Files == 1 .. N

Contents == Versions \cup {Absent}

ASSUME PatchAssumption ==
  /\ N \in Nat
  /\ Absent \notin Versions
  /\ NotTaken \notin Contents
  /\ Before \in [Files -> Contents]
  /\ After \in [Files -> Versions]
  /\ \A f \in Files : Before[f] # After[f]
  /\ Shared \subseteq Files

VARIABLES
  pc,       \* the part of the function that runs, or how it ended
  file,     \* the file the current loop is at
  provider, \* the provider's files
  scratch,  \* the reviewed scratch copy
  backups,  \* the copies under backup_root; Absent if there was nothing to copy
  staged,   \* the temporary files beside their targets that the call lists
  stray,    \* files beside which there is a temporary file it does not list
  failures, \* files whose rollback failed
  refused,  \* files whose temporary the file system refused to remove
  edited,   \* files of the provider that others changed during the call
  early     \* what each file held last before it was backed up

tempVars == <<staged, stray, refused>>
fsVars == <<provider, scratch, backups, tempVars>>
editVars == <<edited, early>>
vars == <<pc, file, fsVars, failures, editVars>>

Running == {"check", "root", "stage", "replace", "verify", "rollback", "cleanup"}
Ended ==
  {"refused", "applied", "failed", "incomplete", "unclean", "interrupted", "killed"}

NoFiles == [f \in Files |-> Absent]

NoBackups == [f \in Files |-> NotTaken]

-----------------------------------------------------------------------------
(* Before the try block: nothing has been written.                         *)

\* A missing parent directory, or a target that is not what was reviewed.
Refuse ==
  /\ pc \in {"check", "root"}
  /\ pc' = "refused"
  /\ UNCHANGED <<file, fsVars, failures, editVars>>

Check ==
  /\ pc = "check"
  /\ file \in Files
  /\ provider[file] = Before[file]
  /\ file' = file + 1
  /\ UNCHANGED <<pc, fsVars, failures, editVars>>

Checked ==
  /\ pc = "check"
  /\ file = N + 1
  /\ pc' = "root"
  /\ UNCHANGED <<file, fsVars, failures, editVars>>

MakeBackupRoot ==
  /\ pc = "root"
  /\ pc' = "stage"
  /\ file' = 1
  /\ UNCHANGED <<fsVars, failures, editVars>>

-----------------------------------------------------------------------------
(* The try block.                                                          *)

\* Mutant: only the staged copy is made.
StageWithoutBackup ==
  /\ pc = "stage"
  /\ file \in Files
  /\ staged' = [staged EXCEPT ![file] = scratch[file]]
  /\ file' = file + 1
  /\ UNCHANGED <<pc, provider, scratch, backups, stray, refused, failures, editVars>>

\* An existing target is copied to the backup, the scratch file beside it.
Stage ==
  /\ pc = "stage"
  /\ file \in Files
  /\ scratch[file] # Absent
  /\ backups' = [backups EXCEPT ![file] = provider[file]]
  /\ staged' = [staged EXCEPT ![file] = scratch[file]]
  /\ file' = file + 1
  /\ UNCHANGED <<pc, provider, scratch, stray, refused, failures, editVars>>

Staged ==
  /\ pc = "stage"
  /\ file = N + 1
  /\ pc' = "replace"
  /\ file' = 1
  /\ UNCHANGED <<fsVars, failures, editVars>>

\* os.replace: the target changes in one step and joins `applied`.
Replace ==
  /\ pc = "replace"
  /\ file \in Files
  /\ pc' = "verify"
  /\ provider' = [provider EXCEPT ![file] = staged[file]]
  /\ staged' = [staged EXCEPT ![file] = Absent]
  /\ UNCHANGED <<file, scratch, backups, stray, refused, failures, editVars>>

\* The target is re-read: it must be what was reviewed.
Verify ==
  /\ pc = "verify"
  /\ provider[file] = After[file]
  /\ pc' = "replace"
  /\ file' = file + 1
  /\ UNCHANGED <<fsVars, failures, editVars>>

Commit ==
  /\ pc = "replace"
  /\ file = N + 1
  /\ pc' = "applied"
  /\ UNCHANGED <<file, fsVars, failures, editVars>>

-----------------------------------------------------------------------------
(* The except and finally blocks.                                          *)

\* `applied` holds the files up to `last`; they are undone in reverse.
RollbackFrom(last) ==
  /\ pc' = "rollback"
  /\ file' = last
  /\ UNCHANGED <<provider, scratch, backups, staged, failures, editVars>>

\* _stage_file fails once its temporary file exists: it removes it again, which
\* may be refused as well.
TemporaryStays ==
  /\ stray' = stray \cup {file}
  /\ refused' = refused \cup {file}

\* The file system refuses a copy, a temporary file or a replacement.
FileSystemRefuses ==
  \/ /\ pc = "stage" /\ file \in Files
     /\ RollbackFrom(0)
     /\ TemporaryStays \/ UNCHANGED <<stray, refused>>
  \/ /\ pc = "replace" /\ file \in Files
     /\ RollbackFrom(file - 1)
     /\ UNCHANGED <<stray, refused>>

\* Mutant: a target counts as applied only once it has been verified.
VerifyFailsBeforeCounting ==
  pc = "verify" /\ RollbackFrom(file - 1) /\ UNCHANGED <<stray, refused>>

\* The applied target is not what was reviewed, or cannot be read.
VerifyFails == pc = "verify" /\ RollbackFrom(file) /\ UNCHANGED <<stray, refused>>

\* A file that the patch created has no backup to go back.
HasBackup(f) == backups[f] # Absent

\* The backup goes back, through a temporary file of its own; a file that
\* the patch created is removed.  The removal of the temporary, which is no
\* longer there, counts as a failed rollback when it is refused.
Undo ==
  /\ pc = "rollback"
  /\ file \in Files
  /\ provider' = [provider EXCEPT ![file] = backups[file]]
  /\ \/ UNCHANGED failures
     \/ HasBackup(file) /\ failures' = failures \cup {file}
  /\ file' = file - 1
  /\ UNCHANGED <<pc, scratch, backups, tempVars, editVars>>

\* The backup cannot be copied or moved back, and then perhaps its temporary
\* file cannot be removed either; or the created file cannot be removed.
UndoFails ==
  /\ pc = "rollback"
  /\ file \in Files
  /\ failures' = failures \cup {file}
  /\ \/ HasBackup(file) /\ TemporaryStays
     \/ UNCHANGED <<stray, refused>>
  /\ file' = file - 1
  /\ UNCHANGED <<pc, provider, scratch, backups, staged, editVars>>

\* Mutant: no finally block.
RolledBackWithoutCleanup ==
  /\ pc = "rollback"
  /\ file = 0
  /\ pc' = IF failures = {} THEN "failed" ELSE "incomplete"
  /\ UNCHANGED <<file, fsVars, failures, editVars>>

\* The except block raises, and the finally block begins.
RolledBack ==
  /\ pc = "rollback"
  /\ file = 0
  /\ pc' = "cleanup"
  /\ file' = 1
  /\ UNCHANGED <<fsVars, failures, editVars>>

\* The temporary files that were not moved yet are removed one by one.
Remove ==
  /\ pc = "cleanup"
  /\ file \in Files
  /\ staged' = [staged EXCEPT ![file] = Absent]
  /\ file' = file + 1
  /\ UNCHANGED <<pc, provider, scratch, backups, stray, refused, failures, editVars>>

\* The first removal that is refused ends the loop: its error replaces the one
\* of the except block, and the later temporary files are not tried.
RemovalRefused ==
  /\ pc = "cleanup"
  /\ file \in Files
  /\ staged[file] # Absent
  /\ pc' = "unclean"
  /\ refused' = refused \cup {file}
  /\ UNCHANGED <<file, provider, scratch, backups, staged, stray, failures, editVars>>

Raise ==
  /\ pc = "cleanup"
  /\ file = N + 1
  /\ pc' = IF failures = {} THEN "failed" ELSE "incomplete"
  /\ UNCHANGED <<file, fsVars, failures, editVars>>

-----------------------------------------------------------------------------
(* What happens to the call from outside.                                  *)

\* KeyboardInterrupt is not an Exception: only the finally block runs, to its
\* end or to a removal that is refused, and a temporary file that is just being
\* written, beside a target or for a backup, stays.
Interrupt ==
  /\ pc \in Running
  /\ pc' = "interrupted"
  /\ \E tried \in 0 .. N :
       staged' = [f \in Files |-> IF f <= tried THEN Absent ELSE staged[f]]
  /\ stray' \in {stray} \cup
       IF pc \in {"stage", "rollback"} /\ file \in Files THEN {stray \cup {file}} ELSE {}
  /\ UNCHANGED <<file, provider, scratch, backups, refused, failures, editVars>>

Kill ==
  /\ pc \in Running
  /\ pc' = "killed"
  /\ UNCHANGED <<file, fsVars, failures, editVars>>

BackedUp(f) == backups[f] # NotTaken

\* The ISV saves or deletes a provider file while the call runs.
EditProvider(f, c) ==
  /\ pc \in Running
  /\ provider' = [provider EXCEPT ![f] = c]
  /\ edited' = edited \cup {f}
  /\ early' = IF BackedUp(f) THEN early ELSE [early EXCEPT ![f] = c]
  /\ UNCHANGED <<pc, file, scratch, backups, tempVars, failures>>

EditScratch(f, c) ==
  /\ pc \in Running
  /\ scratch' = [scratch EXCEPT ![f] = c]
  /\ UNCHANGED <<pc, file, provider, backups, tempVars, failures, editVars>>

-----------------------------------------------------------------------------
\* The approval compared hashes of this scratch copy and this provider.
Init ==
  /\ pc = "check"
  /\ file = 1
  /\ provider = Before
  /\ scratch = After
  /\ backups = NoBackups
  /\ staged = NoFiles
  /\ stray = {}
  /\ failures = {}
  /\ refused = {}
  /\ edited = {}
  /\ early = Before

Step ==
  \/ Check \/ Checked \/ Refuse \/ MakeBackupRoot
  \/ Stage \/ Staged \/ Replace \/ Verify \/ Commit
  \/ FileSystemRefuses \/ VerifyFails
  \/ Undo \/ UndoFails \/ RolledBack
  \/ Remove \/ RemovalRefused \/ Raise

Environment ==
  \/ Interrupt
  \/ Kill
  \/ \E c \in Contents :
       \/ \E f \in Shared : EditProvider(f, c)
       \/ \E f \in Files : EditScratch(f, c)

Next == Step \/ Environment

Spec == Init /\ [][Next]_vars

-----------------------------------------------------------------------------
(* What the transaction promises.                                          *)

\* The type invariant.
TypeOK ==
  /\ pc \in Running \cup Ended
  /\ file \in 0 .. N + 1
  /\ provider \in [Files -> Contents]
  /\ scratch \in [Files -> Contents]
  /\ backups \in [Files -> Contents \cup {NotTaken}]
  /\ staged \in [Files -> Contents]
  /\ stray \subseteq Files
  /\ failures \subseteq Files
  /\ refused \subseteq Files
  /\ edited \subseteq Files
  /\ early \in [Files -> Contents]

\* A call that reports success has put every file at its reviewed content,
\* whatever happened to the scratch copy; one that reports a failure, and
\* does not call its rollback incomplete, has changed no file.  Files that
\* others edited during the call are theirs.
AllOrNothing ==
  /\ pc = "applied" => \A f \in Files \ edited : provider[f] = After[f]
  /\ pc \in {"refused", "failed"} => \A f \in Files \ edited : provider[f] = Before[f]

\* At every moment, and so however the call ends, killed included, what a file
\* held last before it was backed up is in the provider or in the backup
\* directory: the reviewed original, or an edit that landed before the backup,
\* which the check may have been too early to see.
NothingLost ==
  \A f \in Files : early[f] # Absent => early[f] \in {provider[f], backups[f]}

\* A call that returns or raises leaves a temporary file in the provider only if
\* the file system refused to remove it, or a file before it in the last loop:
\* then the call ends with the error of that removal.  A call that succeeds
\* leaves none.
NoTemporaryLeft ==
  /\ pc \in Ended \ {"interrupted", "killed"} =>
       /\ stray \subseteq refused
       /\ \A f \in Files :
            staged[f] # Absent => pc = "unclean" /\ file \in refused /\ file <= f
  /\ pc = "applied" => stray = {}

\* Nobody changes the reviewed scratch copy while the call runs.
ScratchKept == [][UNCHANGED scratch]_vars

\* The provider holds a part of the patch: each file, but for those that others
\* edited, is as it was or as reviewed.
PartOfPatch == \A f \in Files \ edited : provider[f] \in {Before[f], After[f]}

\* The caller sees the provider as it was until the call has ended.
Outcome ==
  CASE pc \in Running                   -> "running"
    [] pc = "applied"                   -> "applied"
    [] pc \in {"refused", "failed"}     -> "failed"
    [] pc = "incomplete"                -> "incomplete"
    [] OTHER                            -> "cut"

Observed == IF pc \in Running THEN Before ELSE provider

Abstract == INSTANCE AtomicApply WITH outcome <- Outcome, content <- Observed

\* The transaction implements its abstract specification, whoever edits the
\* files of the patch meanwhile.
Implements == Abstract!Spec
=============================================================================

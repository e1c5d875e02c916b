----------------------- MODULE ApplyTransactionProofs -----------------------
(***************************************************************************)
(* What the apply transaction guarantees for every number of files and     *)
(* every patch, whatever the file system refuses and whoever edits.        *)
(***************************************************************************)
EXTENDS ApplyTransaction, TLAPS

\* Where the loops stand, and that only a rollback can fail to roll back.
PositionInv ==
  /\ pc \in {"check", "stage", "replace"} => file \in 1 .. N + 1
  /\ pc = "verify" => file \in Files
  /\ pc = "rollback" => file \in 0 .. N
  /\ pc = "cleanup" => file \in 1 .. N + 1
  /\ pc \notin {"rollback", "cleanup", "incomplete", "unclean", "interrupted", "killed"} =>
       failures = {}

\* Whatever may be replaced, or has to be undone, has been backed up.
TakenInv ==
  \A f \in Files :
    /\ pc = "stage" /\ f < file => backups[f] # NotTaken
    /\ pc \in {"replace", "verify"} => backups[f] # NotTaken
    /\ pc = "rollback" /\ f <= file => backups[f] # NotTaken

\* What the provider and the backups hold of a file that nobody else edited,
\* phase by phase: this is the inductive form of AllOrNothing.
ContentOf(f) ==
  /\ pc \in {"check", "root", "stage", "refused", "failed"} => provider[f] = Before[f]
  /\ pc = "stage" /\ f < file => backups[f] = Before[f]
  /\ pc \in {"replace", "verify"} => backups[f] = Before[f]
  /\ pc \in {"replace", "verify"} /\ f < file => provider[f] = After[f]
  /\ pc \in {"replace", "verify"} /\ f > file => provider[f] = Before[f]
  /\ pc = "replace" /\ f = file => provider[f] = Before[f]
  /\ pc = "rollback" /\ f <= file => backups[f] = Before[f]
  /\ pc = "rollback" /\ f > file /\ f \notin failures => provider[f] = Before[f]
  /\ pc = "cleanup" /\ f \notin failures => provider[f] = Before[f]
  /\ pc = "applied" => provider[f] = After[f]

ContentInv == \A f \in Files \ edited : ContentOf(f)

\* A file is backed up once, when its turn comes, and not written before.
EarlyInv ==
  \A f \in Files :
    /\ early[f] = IF backups[f] = NotTaken THEN provider[f] ELSE backups[f]
    /\ pc \in {"check", "root"} \/ (pc = "stage" /\ f >= file) => backups[f] = NotTaken

\* A temporary file exists from its staging to its replacement or removal, and
\* one that the call does not list because its removal was refused.
StagedInv ==
  \A f \in Files :
    /\ pc \in {"check", "root", "refused", "applied", "failed", "incomplete"} =>
         staged[f] = Absent
    /\ pc \in {"replace", "verify"} /\ f < file => staged[f] = Absent
    /\ pc = "verify" /\ f = file => staged[f] = Absent
    /\ pc \in {"cleanup", "unclean"} /\ f < file => staged[f] = Absent

StrayInv ==
  /\ pc # "interrupted" => stray \subseteq refused
  /\ pc \notin {"rollback", "cleanup", "failed", "incomplete", "unclean",
               "interrupted", "killed"} => stray = {}
  /\ pc = "unclean" => file \in refused

IInv ==
  /\ TypeOK /\ PositionInv /\ TakenInv /\ ContentInv /\ EarlyInv /\ StagedInv
  /\ StrayInv
  /\ edited \subseteq Shared

-----------------------------------------------------------------------------
LEMMA InitInv == Init => IInv
  BY PatchAssumption
  DEF Init, IInv, TypeOK, PositionInv, TakenInv, ContentInv, ContentOf, EarlyInv,
      StagedInv, StrayInv, Contents, Files, NoFiles, NoBackups, Running

LEMMA AbsentContent == Absent \in Contents
  BY DEF Contents

(* Every file keeps a content, in the provider and in each of its copies.  *)
LEMMA StepContents ==
  ASSUME TypeOK, PositionInv, TakenInv, [Next]_vars
  PROVE  /\ provider' \in [Files -> Contents]
         /\ scratch' \in [Files -> Contents]
         /\ backups' \in [Files -> Contents \cup {NotTaken}]
         /\ staged' \in [Files -> Contents]
         /\ early' \in [Files -> Contents]
<1> DEFINE Typed ==
       /\ provider \in [Files -> Contents]
       /\ scratch \in [Files -> Contents]
       /\ backups \in [Files -> Contents \cup {NotTaken}]
       /\ staged \in [Files -> Contents]
       /\ early \in [Files -> Contents]
<1> SUFFICES Typed'
  OBVIOUS
<1>1. Typed
  BY DEF TypeOK
<1>2. ASSUME UNCHANGED <<fsVars, editVars>> PROVE Typed'
  BY <1>1, <1>2 DEF fsVars, tempVars, editVars
<1>3. CASE Check \/ Checked \/ Refuse \/ MakeBackupRoot \/ Staged \/ Verify \/ Commit
  BY <1>3, <1>2 DEF Check, Checked, Refuse, MakeBackupRoot, Staged, Verify, Commit
<1>4. CASE FileSystemRefuses \/ VerifyFails \/ UndoFails \/ RemovalRefused \/ Kill
  BY <1>4, <1>1
  DEF FileSystemRefuses, VerifyFails, RollbackFrom, UndoFails, RemovalRefused, Kill,
      fsVars, tempVars, editVars
<1>5. CASE Stage
  BY <1>5, <1>1 DEF Stage, editVars
<1>6. CASE Replace
  BY <1>6, <1>1, AbsentContent DEF Replace, editVars
<1>7. CASE Undo
  <2>1. backups[file] \in Contents
    BY <1>7, <1>1 DEF Undo, TakenInv, Files
  <2> QED
    BY <1>7, <1>1, <2>1 DEF Undo, tempVars, editVars
<1>8. CASE RolledBack \/ Raise
  BY <1>8, <1>2 DEF RolledBack, Raise
<1>9. CASE Interrupt
  BY <1>9, <1>1, AbsentContent DEF Interrupt, editVars
<1>10. ASSUME NEW c \in Contents, NEW f \in Files, EditProvider(f, c) \/ EditScratch(f, c)
       PROVE  Typed'
  BY <1>10, <1>1 DEF EditProvider, EditScratch, tempVars, editVars
<1>11. CASE UNCHANGED vars
  BY <1>11, <1>2 DEF vars
<1>12. CASE Remove
  BY <1>12, <1>1, AbsentContent DEF Remove, editVars
<1> QED
  BY <1>3, <1>4, <1>5, <1>6, <1>7, <1>8, <1>9, <1>10, <1>11, <1>12, PatchAssumption
  DEF Next, Step, Environment

(* The loops keep their bounds, and a failed rollback keeps its name.      *)
LEMMA StepPosition ==
  ASSUME TypeOK, PositionInv, [Next]_vars
  PROVE  /\ pc' \in Running \cup Ended /\ file' \in 0 .. N + 1
         /\ failures' \subseteq Files
         /\ PositionInv'
<1> DEFINE Placed ==
       /\ pc \in Running \cup Ended
       /\ file \in 0 .. N + 1
       /\ failures \subseteq Files
       /\ PositionInv
<1> SUFFICES Placed'
  OBVIOUS
<1>1. Placed
  BY DEF TypeOK
<1>2. N \in Nat
  BY PatchAssumption
<1> USE <1>2 DEF PositionInv, Files, Running, Ended
<1>3. CASE Check \/ Checked \/ Refuse \/ MakeBackupRoot
  <2>1. CASE Check
    BY <1>1, <2>1 DEF Check
  <2>2. CASE Checked
    BY <1>1, <2>2 DEF Checked
  <2>3. CASE Refuse
    BY <1>1, <2>3 DEF Refuse
  <2>4. CASE MakeBackupRoot
    BY <1>1, <2>4 DEF MakeBackupRoot
  <2> QED
    BY <1>3, <2>1, <2>2, <2>3, <2>4
<1>4. CASE Stage
  BY <1>1, <1>4 DEF Stage
<1>5. CASE Staged
  BY <1>1, <1>5 DEF Staged
<1>6. CASE Replace
  BY <1>1, <1>6 DEF Replace
<1>7. CASE Verify
  BY <1>1, <1>7 DEF Verify
<1>8. CASE Commit
  BY <1>1, <1>8 DEF Commit
<1>9. CASE FileSystemRefuses
  <2>1. CASE pc = "stage" /\ file \in Files /\ RollbackFrom(0)
    BY <1>1, <2>1 DEF RollbackFrom
  <2>2. CASE pc = "replace" /\ file \in Files /\ RollbackFrom(file - 1)
    BY <1>1, <2>2 DEF RollbackFrom
  <2> QED
    BY <1>9, <2>1, <2>2 DEF FileSystemRefuses
<1>10. CASE VerifyFails
  BY <1>1, <1>10 DEF VerifyFails, RollbackFrom
<1>11. CASE Undo
  <2>1. pc' = pc /\ pc = "rollback" /\ file \in Files /\ file' = file - 1
    BY <1>11 DEF Undo
  <2>2. failures' \subseteq Files
    BY <1>1, <1>11 DEF Undo
  <2> QED
    BY <1>1, <2>1, <2>2
<1>12. CASE UndoFails
  BY <1>1, <1>12 DEF UndoFails
<1>13. CASE RolledBack
  BY <1>1, <1>13 DEF RolledBack
<1>14. CASE Interrupt
  BY <1>1, <1>14 DEF Interrupt
<1>15. CASE Kill
  BY <1>1, <1>15 DEF Kill
<1>16. ASSUME NEW c \in Contents, NEW f \in Files, EditProvider(f, c) \/ EditScratch(f, c)
      PROVE  Placed'
  BY <1>1, <1>16 DEF EditProvider, EditScratch
<1>17. CASE UNCHANGED vars
  BY <1>1, <1>17 DEF vars
<1>18. CASE Remove
  BY <1>1, <1>18 DEF Remove
<1>19. CASE RemovalRefused
  BY <1>1, <1>19 DEF RemovalRefused
<1>20. CASE Raise
  BY <1>1, <1>20 DEF Raise
<1> QED
  BY <1>3, <1>4, <1>5, <1>6, <1>7, <1>8, <1>9, <1>10, <1>11, <1>12, <1>13, <1>14, <1>15,
     <1>16, <1>17, <1>18, <1>19, <1>20, PatchAssumption DEF Next, Step, Environment

(* Nothing drops a backup that may still be needed.                        *)
LEMMA StepTaken ==
  ASSUME TypeOK, PositionInv, TakenInv, [Next]_vars
  PROVE  TakenInv'
<1> USE PatchAssumption DEF PositionInv, TakenInv, Files, fsVars, tempVars
<1>1. CASE Check \/ Checked \/ Refuse \/ MakeBackupRoot
  BY <1>1 DEF Check, Checked, Refuse, MakeBackupRoot
<1>2. CASE Stage
  <2>1. provider[file] # NotTaken
    BY <1>2 DEF Stage, TypeOK
  <2> QED
    BY <1>2, <2>1 DEF Stage, TypeOK
<1>3. CASE Staged
  BY <1>3 DEF Staged
<1>4. CASE Replace \/ Verify \/ Commit
  BY <1>4 DEF Replace, Verify, Commit
<1>5. CASE FileSystemRefuses \/ VerifyFails
  BY <1>5 DEF FileSystemRefuses, VerifyFails, RollbackFrom
<1>6. CASE Undo \/ UndoFails \/ RolledBack \/ Remove \/ RemovalRefused \/ Raise
  BY <1>6 DEF Undo, UndoFails, RolledBack, Remove, RemovalRefused, Raise
<1>7. CASE Interrupt \/ Kill
  BY <1>7 DEF Interrupt, Kill
<1>8. ASSUME NEW c \in Contents, NEW f \in Files, EditProvider(f, c) \/ EditScratch(f, c)
      PROVE  TakenInv'
  BY <1>8 DEF EditProvider, EditScratch
<1>9. CASE UNCHANGED vars
  BY <1>9 DEF vars
<1> QED
  BY <1>1, <1>2, <1>3, <1>4, <1>5, <1>6, <1>7, <1>8, <1>9 DEF Next, Step, Environment

(* Each phase hands a file nobody else edited over as the next expects it. *)
LEMMA StepContentInv ==
  ASSUME TypeOK, PositionInv, TakenInv, ContentInv, [Next]_vars
  PROVE  ContentInv'
<1> SUFFICES ASSUME NEW f \in Files, f \notin edited, ContentOf(f), f \notin edited'
             PROVE  ContentOf(f)'
  <2>1. edited \subseteq edited'
    BY DEF Next, Step, Environment, vars, editVars, Check, Checked, Refuse,
           MakeBackupRoot, Stage, Staged, Replace, Verify, Commit, FileSystemRefuses,
           VerifyFails, RollbackFrom, Undo, UndoFails, RolledBack, Remove, RemovalRefused,
           Raise, Interrupt, Kill, EditProvider, EditScratch
  <2> QED
    BY <2>1 DEF ContentInv
<1> USE PatchAssumption DEF ContentOf, Files, fsVars, tempVars
<1>1. CASE Check \/ Checked \/ Refuse \/ MakeBackupRoot
  BY <1>1 DEF Check, Checked, Refuse, MakeBackupRoot
<1>2. CASE Stage
  BY <1>2 DEF Stage, TypeOK
<1>3. CASE Staged
  BY <1>3 DEF Staged
<1>4. CASE Replace
  BY <1>4 DEF Replace, TypeOK
<1>5. CASE Verify
  BY <1>5, PatchAssumption DEF Verify, PositionInv
<1>6. CASE Commit
  BY <1>6 DEF Commit
<1>7. CASE FileSystemRefuses
  BY <1>7 DEF FileSystemRefuses, RollbackFrom, PositionInv
<1>8. CASE VerifyFails
  BY <1>8 DEF VerifyFails, RollbackFrom, PositionInv
<1>9. CASE Undo
  BY <1>9 DEF Undo, TypeOK
<1>10. CASE UndoFails \/ RolledBack \/ Remove \/ RemovalRefused \/ Raise
  BY <1>10 DEF UndoFails, RolledBack, Remove, RemovalRefused, Raise
<1>11. CASE Interrupt \/ Kill
  BY <1>11 DEF Interrupt, Kill
<1>12. ASSUME NEW c \in Contents, NEW g \in Files, EditProvider(g, c) \/ EditScratch(g, c)
       PROVE  ContentOf(f)'
  <2>1. provider'[f] = provider[f] /\ UNCHANGED <<pc, file, backups, failures>>
    BY <1>12 DEF EditProvider, EditScratch, TypeOK
  <2> QED
    BY <2>1
<1>13. CASE UNCHANGED vars
  BY <1>13 DEF vars
<1> QED
  BY <1>1, <1>2, <1>3, <1>4, <1>5, <1>6, <1>7, <1>8, <1>9, <1>10, <1>11, <1>12, <1>13
  DEF Next, Step, Environment

(* Only a file that has been backed up is replaced or undone.              *)
LEMMA StepEarlyInv ==
  ASSUME TypeOK, PositionInv, TakenInv, EarlyInv, [Next]_vars
  PROVE  EarlyInv'
<1> SUFFICES ASSUME NEW f \in Files
             PROVE  /\ early'[f] = IF backups'[f] = NotTaken THEN provider'[f] ELSE backups'[f]
                    /\ pc' \in {"check", "root"} \/ (pc' = "stage" /\ f >= file') =>
                         backups'[f] = NotTaken
  BY DEF EarlyInv
<1> USE PatchAssumption DEF EarlyInv, Files, fsVars, tempVars, editVars
<1>1. CASE Check \/ Checked \/ Refuse \/ MakeBackupRoot
  BY <1>1 DEF Check, Checked, Refuse, MakeBackupRoot
<1>2. CASE Stage
  <2>1. provider[file] # NotTaken
    BY <1>2 DEF Stage, TypeOK
  <2>2. CASE f = file
    BY <1>2, <2>1, <2>2 DEF Stage, TypeOK
  <2>3. CASE f # file
    BY <1>2, <2>3 DEF Stage, TypeOK
  <2> QED
    BY <2>2, <2>3
<1>3. CASE Staged \/ Verify \/ Commit
  BY <1>3 DEF Staged, Verify, Commit
<1>4. CASE Replace
  BY <1>4 DEF Replace, TypeOK, TakenInv
<1>5. CASE FileSystemRefuses \/ VerifyFails
  BY <1>5 DEF FileSystemRefuses, VerifyFails, RollbackFrom
<1>6. CASE Undo
  BY <1>6 DEF Undo, TypeOK, TakenInv
<1>7. CASE UndoFails \/ RolledBack \/ Remove \/ RemovalRefused \/ Raise
  BY <1>7 DEF UndoFails, RolledBack, Remove, RemovalRefused, Raise
<1>8. CASE Interrupt \/ Kill
  BY <1>8 DEF Interrupt, Kill
<1>9. ASSUME NEW c \in Contents, NEW g \in Files, EditProvider(g, c)
      PROVE  /\ early'[f] = IF backups'[f] = NotTaken THEN provider'[f] ELSE backups'[f]
             /\ UNCHANGED <<pc, file, backups>>
  BY <1>9 DEF EditProvider, BackedUp, TypeOK
<1>10. ASSUME NEW c \in Contents, NEW g \in Files, EditScratch(g, c)
       PROVE  UNCHANGED <<pc, file, provider, backups, early>>
  BY <1>10 DEF EditScratch
<1>11. CASE UNCHANGED vars
  BY <1>11 DEF vars
<1> QED
  BY <1>1, <1>2, <1>3, <1>4, <1>5, <1>6, <1>7, <1>8, <1>9, <1>10, <1>11
  DEF Next, Step, Environment

(* Each replacement uses a temporary file up, and the rollback all others. *)
LEMMA StepStagedInv ==
  ASSUME TypeOK, PositionInv, StagedInv, [Next]_vars
  PROVE  StagedInv'
<1> USE PatchAssumption DEF StagedInv, Files, fsVars, tempVars, editVars
<1>1. CASE Check \/ Checked \/ Refuse \/ MakeBackupRoot
  BY <1>1 DEF Check, Checked, Refuse, MakeBackupRoot
<1>2. CASE Stage \/ Staged
  BY <1>2 DEF Stage, Staged
<1>3. CASE Replace
  BY <1>3 DEF Replace, TypeOK
<1>4. CASE Verify
  BY <1>4 DEF Verify, PositionInv
<1>5. CASE Commit
  BY <1>5 DEF Commit
<1>6. CASE FileSystemRefuses \/ VerifyFails \/ Undo \/ UndoFails
  BY <1>6 DEF FileSystemRefuses, VerifyFails, RollbackFrom, Undo, UndoFails
<1>7. CASE RolledBack
  BY <1>7 DEF RolledBack
<1>11. CASE Remove
  BY <1>11 DEF Remove, PositionInv, TypeOK
<1>12. CASE RemovalRefused
  BY <1>12 DEF RemovalRefused
<1>13. CASE Raise
  BY <1>13 DEF Raise
<1>8. CASE Interrupt \/ Kill
  BY <1>8 DEF Interrupt, Kill
<1>9. ASSUME NEW c \in Contents, NEW g \in Files, EditProvider(g, c) \/ EditScratch(g, c)
      PROVE  StagedInv'
  BY <1>9 DEF EditProvider, EditScratch
<1>10. CASE UNCHANGED vars
  BY <1>10 DEF vars
<1> QED
  BY <1>1, <1>2, <1>3, <1>4, <1>5, <1>6, <1>7, <1>8, <1>9, <1>10, <1>11, <1>12, <1>13
  DEF Next, Step, Environment

(* A temporary file that the call does not list is one it could not remove, *)
(* or one that an interrupt left.                                           *)
LEMMA StepStrayInv ==
  ASSUME TypeOK, StrayInv, [Next]_vars
  PROVE  StrayInv' /\ stray' \subseteq Files /\ refused' \subseteq Files
<1> DEFINE Known == StrayInv /\ stray \subseteq Files /\ refused \subseteq Files
<1> SUFFICES Known'
  OBVIOUS
<1>1. Known
  BY DEF TypeOK
<1> USE DEF StrayInv, fsVars, tempVars
<1>2. CASE Check \/ Checked \/ Refuse \/ MakeBackupRoot
  BY <1>1, <1>2 DEF Check, Checked, Refuse, MakeBackupRoot
<1>3. CASE Stage \/ Staged \/ Replace \/ Verify \/ Commit
  BY <1>1, <1>3 DEF Stage, Staged, Replace, Verify, Commit
<1>4. CASE FileSystemRefuses
  BY <1>1, <1>4 DEF FileSystemRefuses, RollbackFrom, TemporaryStays
<1>5. CASE VerifyFails \/ Undo
  BY <1>1, <1>5 DEF VerifyFails, RollbackFrom, Undo
<1>6. CASE UndoFails
  BY <1>1, <1>6 DEF UndoFails, TemporaryStays
<1>7. CASE RolledBack \/ Remove \/ RemovalRefused \/ Raise
  BY <1>1, <1>7 DEF RolledBack, Remove, RemovalRefused, Raise
<1>8. CASE Interrupt \/ Kill
  <2>1. CASE Interrupt
    <3>1. pc' = "interrupted" /\ refused' = refused
      BY <2>1 DEF Interrupt
    <3>2. stray' = stray \/ (file \in Files /\ stray' = stray \cup {file})
      BY <2>1 DEF Interrupt
    <3> QED
      BY <1>1, <3>1, <3>2
  <2>2. CASE Kill
    BY <1>1, <2>2 DEF Kill, Running
  <2> QED
    BY <1>8, <2>1, <2>2
<1>9. ASSUME NEW c \in Contents, NEW g \in Files, EditProvider(g, c) \/ EditScratch(g, c)
      PROVE  Known'
  BY <1>1, <1>9 DEF EditProvider, EditScratch
<1>10. CASE UNCHANGED vars
  BY <1>1, <1>10 DEF vars
<1> QED
  BY <1>2, <1>3, <1>4, <1>5, <1>6, <1>7, <1>8, <1>9, <1>10, PatchAssumption
  DEF Next, Step, Environment

LEMMA InvHolds == Spec => []IInv
<1>1. IInv /\ [Next]_vars => IInv'
  <2> SUFFICES ASSUME IInv, [Next]_vars PROVE IInv'
    OBVIOUS
  <2>1. edited' \subseteq Shared
    BY DEF IInv, Next, Step, Environment, vars, editVars, Check, Checked, Refuse,
           MakeBackupRoot, Stage, Staged, Replace, Verify, Commit, FileSystemRefuses,
           VerifyFails, RollbackFrom, Undo, UndoFails, RolledBack, Remove, RemovalRefused,
           Raise, Interrupt, Kill, EditProvider, EditScratch
  <2>2. edited' \subseteq Files
    BY <2>1, PatchAssumption
  <2> QED
    BY <2>1, <2>2, StepContents, StepPosition, StepTaken, StepContentInv,
       StepEarlyInv, StepStagedInv, StepStrayInv
    DEF IInv, TypeOK
<1> QED
  BY <1>1, InitInv, PTL DEF Spec

-----------------------------------------------------------------------------
(* No file of the patch, copy or loop index ever leaves its type.          *)
THEOREM TypeCorrect == Spec => []TypeOK
<1>1. IInv => TypeOK
  BY DEF IInv
<1> QED
  BY <1>1, InvHolds, PTL

(* A call that reports success applied the whole patch, and one that       *)
(* reports a plain failure none of it, for every patch and every failure.  *)
THEOREM AllOrNothingHolds == Spec => []AllOrNothing
<1>1. IInv => AllOrNothing
  BY DEF IInv, ContentInv, ContentOf, AllOrNothing
<1> QED
  BY <1>1, InvHolds, PTL

(* At every moment, hence wherever the process is killed, the original of  *)
(* each file, or the edit that came before its backup, can be recovered.   *)
THEOREM NothingIsLost == Spec => []NothingLost
<1>1. IInv => NothingLost
  BY DEF IInv, EarlyInv, NothingLost
<1> QED
  BY <1>1, InvHolds, PTL

(* However many files are staged and whatever the file system refuses, a   *)
(* call that returns or raises leaves a temporary file behind only if a     *)
(* removal was refused.                                                     *)
THEOREM TemporariesRemoved == Spec => []NoTemporaryLeft
<1>1. IInv => NoTemporaryLeft
  <2> SUFFICES ASSUME IInv PROVE NoTemporaryLeft
    OBVIOUS
  <2>1. pc \in Ended \ {"interrupted", "killed"} =>
          pc \in {"refused", "applied", "failed", "incomplete", "unclean"}
    BY DEF Ended
  <2>2. \A f \in Files : ~(f < file) => file <= f
    BY PatchAssumption DEF IInv, TypeOK, Files
  <2> QED
    BY <2>1, <2>2 DEF NoTemporaryLeft, IInv, StagedInv, StrayInv
<1> QED
  BY <1>1, InvHolds, PTL

-----------------------------------------------------------------------------
(* What a call that does not come to its end leaves.                       *)

\* A file that nobody else edited is as it was or as reviewed.
Regular(f) == provider[f] \in {Before[f], After[f]}

\* Only a file that was replaced from a changed scratch copy, and is being
\* verified or could not be rolled back, is neither.
OneOdd == \E odd \in 0 .. N : \A f \in Files \ (edited \cup {odd}) : Regular(f)

\* Verification stops at the first such file, so there is never a second.
LEMMA OneOddStep ==
  ASSUME TypeOK, PositionInv, TakenInv, ContentInv, OneOdd, [Next]_vars
  PROVE  OneOdd'
<1> USE PatchAssumption DEF Files, fsVars, tempVars, editVars
<1>1. ASSUME provider' = provider, edited' = edited
      PROVE  OneOdd'
  BY <1>1 DEF OneOdd, Regular
<1>2. CASE Replace
  <2>1. file \in 1 .. N /\ pc = "replace" /\ edited' = edited
    BY <1>2 DEF Replace
  <2>2. \A f \in Files \ edited : f # file => provider'[f] = provider[f]
    BY <1>2 DEF Replace, TypeOK
  <2>3. \A f \in Files \ edited : f # file => Regular(f)
    BY <2>1 DEF ContentInv, ContentOf, Regular
  <2>4. \A f \in Files \ (edited' \cup {file}) : provider'[f] \in {Before[f], After[f]}
    BY <2>1, <2>2, <2>3 DEF Regular
  <2>5. file \in 0 .. N
    BY <2>1
  <2> QED
    BY <2>4, <2>5 DEF OneOdd, Regular
<1>3. CASE Undo
  <2>1. /\ pc = "rollback" /\ file \in Files /\ edited' = edited
        /\ provider' = [provider EXCEPT ![file] = backups[file]]
    BY <1>3 DEF Undo
  <2>2. file \notin edited => backups[file] = Before[file]
    BY <2>1 DEF ContentInv, ContentOf, PositionInv
  <2>3. \A f \in Files \ edited : f = file \/ provider'[f] = provider[f]
    BY <2>1 DEF TypeOK
  <2>4. file \notin edited => provider'[file] = Before[file]
    BY <2>1, <2>2 DEF TypeOK
  <2> PICK odd \in 0 .. N : \A f \in Files \ (edited \cup {odd}) : Regular(f)
    BY DEF OneOdd
  <2>5. \A f \in Files \ (edited' \cup {odd}) : provider'[f] \in {Before[f], After[f]}
    BY <2>1, <2>3, <2>4 DEF Regular
  <2> QED
    BY <2>5 DEF OneOdd, Regular
<1>4. ASSUME NEW f \in Files, NEW c \in Contents, EditProvider(f, c) PROVE OneOdd'
  BY <1>4 DEF EditProvider, OneOdd, Regular, TypeOK
<1>5. CASE UNCHANGED vars
  BY <1>1, <1>5 DEF vars
<1> QED
  BY <1>1, <1>2, <1>3, <1>4, <1>5
  DEF Next, Step, Environment, Check, Checked, Refuse, MakeBackupRoot, Stage, Staged, Verify,
      Commit, FileSystemRefuses, VerifyFails, RollbackFrom, UndoFails, RolledBack, Remove,
      RemovalRefused, Raise, Interrupt, Kill, EditScratch

\* At every moment at most one file is neither as it was nor as reviewed.
LEMMA OneOddHolds == Spec => []OneOdd
<1>1. Init => OneOdd
  <2> SUFFICES ASSUME Init PROVE \A f \in Files \ (edited \cup {0}) : Regular(f)
    BY PatchAssumption DEF OneOdd
  <2> QED
    BY DEF Init, Regular
<1>2. IInv /\ OneOdd /\ [Next]_vars => OneOdd'
  BY OneOddStep DEF IInv
<1> QED
  BY <1>1, <1>2, InvHolds, PTL DEF Spec

\* As long as the scratch copy is what was reviewed, so is what is staged.
StagedFromPatch ==
  /\ scratch = After
  /\ \A f \in Files :
       /\ pc = "stage" /\ f < file => staged[f] = After[f]
       /\ pc = "replace" /\ f >= file => staged[f] = After[f]
       /\ pc = "verify" /\ f > file => staged[f] = After[f]

\* Whenever the process is killed or the rollback fails, the provider holds a
\* part of the patch, if nobody changed the scratch copy during the call: this
\* is what a session can find after it (PartlyApplied in ReviewGate).
THEOREM OnlyPartsOfThePatch == Spec /\ ScratchKept => []PartOfPatch
<1>1. Init => StagedFromPatch /\ PartOfPatch
  BY DEF Init, StagedFromPatch, PartOfPatch
<1>2. IInv /\ StagedFromPatch /\ PartOfPatch /\ [Next]_vars /\ [UNCHANGED scratch]_vars
        => StagedFromPatch' /\ PartOfPatch'
  <2> SUFFICES ASSUME IInv, StagedFromPatch, PartOfPatch, [Next]_vars, scratch' = scratch
               PROVE  StagedFromPatch' /\ PartOfPatch'
    BY DEF vars, fsVars, tempVars
  <2> USE PatchAssumption DEF Files, fsVars, tempVars, editVars, IInv, TypeOK
  <2> USE DEF PositionInv
  <2>1. StagedFromPatch'
    <3> USE DEF StagedFromPatch
    <3>1. CASE Stage
      BY <3>1 DEF Stage
    <3>2. CASE Staged
      BY <3>2 DEF Staged
    <3>3. CASE Replace
      BY <3>3 DEF Replace
    <3>4. CASE Verify
      BY <3>4 DEF Verify
    <3>5. ASSUME NEW f \in Files, NEW c \in Contents, EditProvider(f, c)
          PROVE  StagedFromPatch'
      BY <3>5 DEF EditProvider
    <3>6. CASE Check \/ Checked \/ Refuse \/ MakeBackupRoot \/ Commit
      BY <3>6 DEF Check, Checked, Refuse, MakeBackupRoot, Commit
    <3>7. CASE FileSystemRefuses \/ VerifyFails \/ Undo \/ UndoFails \/ RolledBack
      BY <3>7 DEF FileSystemRefuses, VerifyFails, RollbackFrom, Undo, UndoFails, RolledBack
    <3>11. CASE Remove \/ RemovalRefused \/ Raise
      BY <3>11 DEF Remove, RemovalRefused, Raise
    <3>8. CASE Interrupt \/ Kill
      BY <3>8 DEF Interrupt, Kill
    <3>9. ASSUME NEW f \in Files, NEW c \in Contents, EditScratch(f, c)
          PROVE  StagedFromPatch'
      BY <3>9 DEF EditScratch
    <3>10. CASE UNCHANGED vars
      BY <3>10 DEF vars
    <3> QED
      BY <3>1, <3>2, <3>3, <3>4, <3>5, <3>6, <3>7, <3>8, <3>9, <3>10, <3>11
      DEF Next, Step, Environment
  <2>2. CASE Replace
    <3>1. pc = "replace" /\ file \in Files /\ edited' = edited
      BY <2>2 DEF Replace
    <3>2. staged[file] = After[file]
      BY <3>1 DEF StagedFromPatch
    <3>3. provider' = [provider EXCEPT ![file] = After[file]]
      BY <2>2, <3>2 DEF Replace
    <3> QED
      BY <2>1, <3>1, <3>3 DEF PartOfPatch
  <2>3. CASE Undo
    <3>1. /\ provider' = [provider EXCEPT ![file] = backups[file]] /\ edited' = edited
          /\ pc = "rollback" /\ file \in Files
      BY <2>3 DEF Undo
    <3>2. file \notin edited => backups[file] = Before[file]
      BY <3>1 DEF ContentInv, ContentOf, PositionInv
    <3> QED
      BY <2>1, <3>1, <3>2 DEF PartOfPatch
  <2>4. ASSUME NEW f \in Files, NEW c \in Contents, EditProvider(f, c) PROVE PartOfPatch'
    BY <2>4 DEF EditProvider, PartOfPatch
  <2>5. ASSUME provider' = provider, edited' = edited PROVE PartOfPatch'
    BY <2>5 DEF PartOfPatch
  <2> QED
    BY <2>1, <2>2, <2>3, <2>4, <2>5
    DEF Next, Step, Environment, vars, Check, Checked, Refuse, MakeBackupRoot, Stage, Staged,
        Verify, Commit, FileSystemRefuses, VerifyFails, RollbackFrom, UndoFails, RolledBack,
        Remove, RemovalRefused, Raise, Interrupt, Kill, EditScratch
<1> QED
  BY <1>1, <1>2, InvHolds, PTL DEF Spec, ScratchKept

-----------------------------------------------------------------------------
(* The transaction is its abstract specification: one commit, one abort, or *)
(* a call cut short with at most one file that is neither as it was nor as  *)
(* reviewed; nothing is promised of the files that others edit.             *)
THEOREM TransactionIsAtomic == Spec => Implements
<1>1. Init => Abstract!Init
  BY DEF Init, Abstract!Init, Outcome, Observed, Running
<1>2. IInv /\ IInv' /\ OneOdd' /\ [Next]_vars
        => [Abstract!Next]_<<Outcome, Observed, edited>>
  <2> SUFFICES ASSUME IInv, IInv', OneOdd', [Next]_vars
               PROVE  [Abstract!Next]_<<Outcome, Observed, edited>>
    OBVIOUS
  <2>1. provider' \in Abstract!Contents /\ Abstract!Files = Files
    BY DEF IInv, TypeOK, Contents, Files, Abstract!Contents, Abstract!Files
  <2>2. CASE UNCHANGED vars
    BY <2>2 DEF vars, fsVars, tempVars, editVars, Outcome, Observed
  <2>3. CASE Next
    <3>1. pc \in Running
      BY <2>3 DEF Next, Step, Environment, Check, Checked, Refuse, MakeBackupRoot, Stage,
          Staged, Replace, Verify, Commit, FileSystemRefuses, VerifyFails, Undo, UndoFails,
          RollbackFrom, RolledBack, Remove, RemovalRefused, Raise, Interrupt, Kill, EditProvider, EditScratch, Running
    <3>2. Outcome = "running" /\ Observed = Before
      BY <3>1 DEF Outcome, Observed, Running
    <3>3. CASE \E f \in Shared, c \in Contents : EditProvider(f, c)
      <4>1. pc' = pc /\ \E f \in Files : edited' = edited \cup {f}
        BY <3>3, PatchAssumption DEF EditProvider
      <4> QED
        BY <3>1, <3>2, <4>1, <2>1 DEF Outcome, Observed, Running, Abstract!Next, Abstract!Edit
    <3>4. CASE UNCHANGED edited
      <4>1. CASE pc' \in Running
        BY <3>2, <3>4, <4>1 DEF Outcome, Observed, Running
      <4>2. CASE pc' = "applied"
        <5>1. \A f \in Files \ edited : provider'[f] = After[f]
          BY <3>4, <4>2 DEF IInv, ContentInv, ContentOf
        <5>2. Outcome' = "applied" /\ Observed' = provider'
          BY <4>2 DEF Outcome, Observed, Running
        <5> QED
          BY <2>1, <3>2, <3>4, <5>1, <5>2 DEF Abstract!Next, Abstract!Commit, Abstract!EndsWith
      <4>3. CASE pc' \in {"refused", "failed"}
        <5>1. \A f \in Files \ edited : provider'[f] = Before[f]
          BY <3>4, <4>3 DEF IInv, ContentInv, ContentOf
        <5>2. Outcome' = "failed" /\ Observed' = provider'
          BY <4>3 DEF Outcome, Observed, Running
        <5> QED
          BY <2>1, <3>2, <3>4, <5>1, <5>2 DEF Abstract!Next, Abstract!Abort, Abstract!EndsWith
      <4>4. CASE pc' \in {"incomplete", "unclean", "interrupted", "killed"}
        <5>1. Outcome' \in {"incomplete", "cut"} /\ Observed' = provider'
          BY <4>4 DEF Outcome, Observed, Running
        <5>2. \E odd \in 0 .. N :
                \A f \in Files \ (edited \cup {odd}) : provider'[f] \in {Before[f], After[f]}
          BY <3>4 DEF OneOdd, Regular
        <5> QED
          BY <2>1, <3>2, <3>4, <5>1, <5>2 DEF Abstract!Next, Abstract!Break
      <4> QED
        BY <4>1, <4>2, <4>3, <4>4 DEF IInv, TypeOK, Ended
    <3> QED
      BY <2>3, <3>3, <3>4
      DEF Next, Step, Environment, Check, Checked, Refuse, MakeBackupRoot, Stage,
          Staged, Replace, Verify, Commit, FileSystemRefuses, VerifyFails, Undo, UndoFails,
          RollbackFrom, RolledBack, Remove, RemovalRefused, Raise, Interrupt, Kill, EditScratch, editVars
  <2> QED
    BY <2>2, <2>3
<1> QED
  BY <1>1, <1>2, InvHolds, OneOddHolds, PTL DEF Spec, Implements, Abstract!Spec
=============================================================================

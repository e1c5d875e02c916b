---------------------------- MODULE AtomicApply ----------------------------
(***************************************************************************)
(* What applying a reviewed patch promises its caller: the call returns    *)
(* with every file of the patch at its reviewed content, or fails with     *)
(* every file as it was.  Only a call that is cut short, or whose rollback *)
(* is itself refused by the file system and says so, may end in between:   *)
(* with every file as it was or as reviewed, but for one that was written  *)
(* and found not to be what was reviewed.  Nothing is promised of a file   *)
(* that somebody else edits meanwhile.                                     *)
(***************************************************************************)
EXTENDS Naturals

CONSTANTS
  N,        \* files of the patch, in the order of changed_files
  Versions, \* contents of a file
  Absent,   \* there is no file
  Before,   \* the content each file was reviewed against
  After     \* the reviewed content of each file

Files == 1 .. N

VARIABLES
  outcome,  \* how the call ended
  content,  \* the provider's files, as the caller finds them
  edited    \* files that others edited during the call

Outcomes == {"running", "applied", "failed", "incomplete", "cut"}

Contents == [Files -> Versions \cup {Absent}]

Init == outcome = "running" /\ content = Before /\ edited = {}

\* Somebody saves or deletes a file; the caller sees it after the call.
Edit ==
  /\ \E f \in Files : edited' = edited \cup {f}
  /\ UNCHANGED <<outcome, content>>

EndsWith(target) ==
  /\ content' \in Contents
  /\ \A f \in Files \ edited : content'[f] = target[f]
  /\ UNCHANGED edited

Commit == outcome' = "applied" /\ EndsWith(After)

Abort == outcome' = "failed" /\ EndsWith(Before)

\* Interrupted, killed, or an incomplete rollback; `odd` is the file that is
\* not what was reviewed, if there is one.
Break ==
  /\ outcome' \in {"incomplete", "cut"}
  /\ content' \in Contents
  /\ \E odd \in 0 .. N :
       \A f \in Files \ (edited \cup {odd}) : content'[f] \in {Before[f], After[f]}
  /\ UNCHANGED edited

Next == outcome = "running" /\ (Edit \/ Commit \/ Abort \/ Break)

Spec == Init /\ [][Next]_<<outcome, content, edited>>
=============================================================================

------------------------ MODULE QualificationProofs ------------------------
(***************************************************************************)
(* What `gapctl qualify` guarantees for every project, every cache and     *)
(* every draft, whoever answers, edits or kills, and when.                 *)
(***************************************************************************)
EXTENDS Qualification, FiniteSetTheorems, TLAPS

\* What the command has in memory at each place.
CarryInv ==
  /\ pc = "draft" => pack \in Packs
  /\ pc = "propose" => read.checked \in Drafts
  /\ pc \in {"hash", "ask", "backup", "write"} => read.promoted \in Drafts

\* Each source that was synchronised has a record, in the cache of this command.
SyncInv ==
  /\ pc = "sync" => \A s \in declared \ todo : records[s] \in Records
  /\ pc = "index" => \A s \in declared : records[s] \in Records

\* A record of a file that will go into the pack holds what the file was at
\* some time since the command began.
Fresh(s) == records[s] \in Versions => records[s] \in had[s]

FreshInv ==
  /\ pc # "idle" => \A s \in Sources : content[s] \in had[s]
  /\ pc = "sync" => \A s \in (declared \ todo) \cap Local : Fresh(s)
  /\ pc \in {"index", "pack"} => \A s \in declared \cap Local : Fresh(s)
  /\ pc = "draft" => \A s \in Local \cap DOMAIN pack.context : pack.context[s] \in had[s]

\* What is written is what was hashed, and what was hashed is in the file.
ReviewedInv ==
  /\ pc = "hash" => "unhashed" \in excuses \/ proposal = read.promoted
  /\ pc \in {"ask", "backup", "write"} =>
       "unhashed" \in excuses \/ read.hashed = read.promoted
  /\ pc \in {"backup", "write"} => "late" \in excuses \/ proposal = read.hashed

Excused == excuses \cap {"run", "unchecked", "unhashed"} # {}

\* No run has contradicted what is on its way to the active profile.
ClaimInv ==
  /\ pc = "promote" => Excused \/ ~Conflicts(proposal)
  /\ pc \in {"hash", "ask", "backup", "write"} => Excused \/ ~Conflicts(read.promoted)

\* Before the active profile is written for the first time, it is copied.
BackupInv ==
  /\ backup = None => active = Initial
  /\ backup = Cut => "backup" \in excuses
  /\ pc = "write" => backup # None

IInv ==
  TypeOK /\ CarryInv /\ SyncInv /\ FreshInv /\ ReviewedInv /\ ClaimInv /\ BackupInv

-----------------------------------------------------------------------------
(* The steps of the command and around it.                                 *)

\* A step after which the command is not running.
Idles == pc' = "idle"

(* An answer becomes the proposal, goes into the next request, or ends the *)
(* command.                                                                *)
LEMMA AnsweredIs ==
  ASSUME TypeOK, NEW answer \in Answers, Answered(answer)
  PROVE  \/ Return
         \/ /\ answer \in Drafts /\ pc' = "propose"
            /\ read' = [checked |-> answer, promoted |-> None, hashed |-> None]
            /\ UNCHANGED <<route, todo, pack, feedback, had>>
         \/ /\ \E defect \in (Defects \cup {"citation", "domains"}) \ feedback :
                 feedback' = feedback \cup {defect} /\ Cardinality(feedback) + 1 < MaxAttempts
            /\ UNCHANGED <<pc, route, todo, pack, read, had>>
<1>1. CASE DefectOf(answer) = None
  <2>1. answer \in Drafts
    BY <1>1, ScopeAssumption DEF DefectOf, Answers
  <2> QED
    BY <1>1, <2>1 DEF Answered, NoRead
<1>2. CASE DefectOf(answer) # None /\ TryAgain(DefectOf(answer))
  <2>1. DefectOf(answer) \in Defects \cup {"citation", "domains"}
    BY <1>2 DEF DefectOf
  <2> QED
    BY <1>2, <2>1 DEF Answered, TryAgain
<1>3. CASE DefectOf(answer) # None /\ ~TryAgain(DefectOf(answer))
  BY <1>3 DEF Answered
<1> QED
  BY <1>1, <1>2, <1>3

LEMMA ReturnTyped ==
  ASSUME Return
  PROVE  /\ pc' = "idle" /\ route' = "adapter" /\ consumed' = FALSE /\ todo' = {}
         /\ pack' = None /\ feedback' = {} /\ IsFiniteSet(feedback')
         /\ Cardinality(feedback') < MaxAttempts
         /\ read' \in [checked : Drafts \cup {None}, promoted : Drafts \cup {None},
                       hashed : Drafts \cup {None, Cut}]
         /\ had' \in [Sources -> SUBSET (Versions \cup {None})]
<1>1. feedback' = {} /\ IsFiniteSet({}) /\ Cardinality({}) = 0
  BY FS_EmptySet DEF Return
<1>2. Cardinality(feedback') < MaxAttempts
  BY <1>1, ScopeAssumption
<1> QED
  BY <1>1, <1>2 DEF Return, NoRead, HadNone

LEMMA PackTyped ==
  ASSUME TypeOK
  PROVE  PackOf \in Packs
<1>1. Synced \subseteq Sources /\ \A s \in Synced : records[s] \in Versions
  BY DEF TypeOK, Synced
<1> DEFINE known == [s \in Synced |-> records[s]]
<1>2. known \in Contexts
  BY <1>1 DEF Contexts
<1>3. latest \in [Domains -> {"none", "passed", "failed"}]
  BY DEF TypeOK
<1> QED
  BY <1>2, <1>3 DEF PackOf, Packs

LEMMA FeedbackTyped ==
  ASSUME TypeOK, NEW defect, defect \notin feedback, Cardinality(feedback) + 1 < MaxAttempts
  PROVE  IsFiniteSet(feedback \cup {defect}) /\ Cardinality(feedback \cup {defect}) < MaxAttempts
<1>1. IsFiniteSet(feedback)
  BY DEF TypeOK
<1>2. /\ IsFiniteSet(feedback \cup {defect})
      /\ Cardinality(feedback \cup {defect}) = Cardinality(feedback) + 1
  BY <1>1, FS_AddElement
<1> QED
  BY <1>2

\* The type of what the command remembers.
MemoryOK ==
  /\ pc \in {"idle", "cache", "sync", "index", "pack", "draft", "propose", "review",
             "promote", "hash", "ask", "backup", "write"}
  /\ route \in {"adapter", "export", "import"} /\ consumed \in BOOLEAN
  /\ todo \subseteq declared
  /\ pack \in Packs \cup {None}
  /\ feedback \subseteq Defects \cup {"citation", "domains"}
  /\ IsFiniteSet(feedback) /\ Cardinality(feedback) < MaxAttempts
  /\ read \in [checked : Drafts \cup {None}, promoted : Drafts \cup {None},
                hashed : Drafts \cup {None, Cut}]
  /\ had \in [Sources -> SUBSET (Versions \cup {None})]

LEMMA ReturnMemory == Return => MemoryOK'
  BY ReturnTyped DEF MemoryOK

(* What the command remembers keeps its type.                              *)
LEMMA MemoryStep ==
  ASSUME TypeOK, [Next]_vars
  PROVE  MemoryOK'
<1>0. MemoryOK
  BY DEF TypeOK, MemoryOK
<1>1. CASE Return
  BY <1>1, ReturnMemory
<1>2. ASSUME NEW way \in {"adapter", "export", "import"}, Start(way) PROVE MemoryOK'
  BY <1>0, <1>2 DEF Start, MemoryOK, TypeOK, world
<1>3. CASE UseCache
  BY <1>0, <1>3 DEF UseCache, GoTo, command, world, MemoryOK
<1>4. CASE BeginSync
  BY <1>0, <1>4 DEF BeginSync, world, MemoryOK
<1>5. ASSUME NEW s \in Sources, NEW record \in Records, SyncSource(s, record) PROVE MemoryOK'
  BY <1>0, <1>5 DEF SyncSource, world, MemoryOK
<1>6. CASE RemoveUndeclared
  BY <1>0, <1>6 DEF RemoveUndeclared, GoTo, command, world, MemoryOK
<1>7. CASE WriteIndex
  BY <1>0, <1>1, <1>7 DEF WriteIndex, GoTo, command, world, MemoryOK
<1>8. CASE BuildPack
  BY <1>0, <1>1, <1>8, PackTyped DEF BuildPack, world, MemoryOK
<1>9. ASSUME NEW answer \in Answers, Answered(answer), UNCHANGED world,
             consumed' \in BOOLEAN
      PROVE  MemoryOK'
  <2>1. CASE answer \in Drafts /\ pc' = "propose"
             /\ read' = [checked |-> answer, promoted |-> None, hashed |-> None]
             /\ UNCHANGED <<route, todo, pack, feedback, had>>
    BY <1>0, <1>9, <2>1 DEF MemoryOK, world
  <2>2. ASSUME NEW defect \in (Defects \cup {"citation", "domains"}) \ feedback,
               feedback' = feedback \cup {defect}, Cardinality(feedback) + 1 < MaxAttempts,
               UNCHANGED <<pc, route, todo, pack, read, had>>
        PROVE  MemoryOK'
    BY <1>0, <1>9, <2>2, FeedbackTyped DEF MemoryOK, world
  <2> QED
    BY <1>1, <1>9, <2>1, <2>2, AnsweredIs
<1>10. ASSUME NEW answer \in Answers, AdapterAnswers(answer) \/ Import(answer) PROVE MemoryOK'
  <2>1. Answered(answer) /\ UNCHANGED world
    BY <1>10 DEF AdapterAnswers, Import
  <2>2. Answered(answer) => consumed' \in BOOLEAN
    BY DEF Answered, Return
  <2> QED
    BY <1>9, <2>1, <2>2
<1>11. CASE AdapterFails \/ Export \/ ImportRefused \/ ReviewStops \/ HashFails
             \/ Disapprove \/ WriteActive
            \/ Kill
  BY <1>1, <1>11 DEF AdapterFails, Export, ImportRefused, ReviewStops, HashFails, Disapprove,
         WriteActive, Kill
<1>12. CASE WriteProposal
  BY <1>0, <1>12 DEF WriteProposal, NoRead, world, MemoryOK
<1>13. CASE Check
  BY <1>0, <1>13, PackTyped DEF Check, Reviewable, Readable, Evidence, world, MemoryOK
<1>14. CASE Promote
  BY <1>0, <1>1, <1>14 DEF Promote, Readable, world, MemoryOK
<1>15. CASE Hash
  BY <1>0, <1>15 DEF Hash, world, MemoryOK, TypeOK
<1>16. CASE Approve
  BY <1>0, <1>1, <1>16 DEF Approve, GoTo, command, world, MemoryOK
<1>17. CASE BackUp
  BY <1>0, <1>17 DEF BackUp, GoTo, command, world, MemoryOK
<1>18. ASSUME NEW s \in Sources, NEW version \in Versions \cup {None}, EditSource(s, version)
       PROVE  MemoryOK'
  <2>1. [had EXCEPT ![s] = @ \cup {version}] \in [Sources -> SUBSET (Versions \cup {None})]
    BY <1>0 DEF MemoryOK
  <2> QED
    BY <1>0, <1>18, <2>1 DEF EditSource, MemoryOK
<1>19. ASSUME NEW s \in Sources, DeclareSource(s) PROVE MemoryOK'
  BY <1>0, <1>19 DEF DeclareSource, command, MemoryOK
<1>20. ASSUME NEW d \in Domains, NEW exit, RecordRun(d, exit) PROVE MemoryOK'
  BY <1>0, <1>20 DEF RecordRun, command, MemoryOK
<1>21. ASSUME NEW document, EditProposal(document) \/ Resolve(document) PROVE MemoryOK'
  BY <1>0, <1>21 DEF EditProposal, Resolve, command, world, MemoryOK
<1>22. CASE UNCHANGED vars
  BY <1>0, <1>22 DEF vars, command, world, MemoryOK
<1> QED
  BY <1>2, <1>3, <1>4, <1>5, <1>6, <1>7, <1>8, <1>10, <1>11, <1>12, <1>13, <1>14, <1>15, <1>16,
     <1>17, <1>18, <1>19, <1>20, <1>21, <1>22
  DEF Next, Proceed, Around

\* The type of what is around the command, and of its files.
AroundOK ==
  /\ content \in [Sources -> Versions \cup {None}]
  /\ declared \subseteq Sources
  /\ latest \in [Domains -> {"none", "passed", "failed"}]
  /\ kills \in 0 .. MaxKills /\ changes \in 0 .. MaxChanges
  /\ excuses \subseteq {"run", "unchecked", "unhashed", "late", "backup"}

CacheOK ==
  /\ records \in [Sources -> Records \cup {None, Cut}]
  /\ Indexed => DOMAIN index \subseteq Sources /\ \A s \in DOMAIN index : index[s] \in Records
  /\ request \in Requests \cup {None, Cut}

ProfilesOK ==
  /\ active \in Drafts \cup {Initial, Cut}
  /\ backup \in {None, Initial, Cut}
  /\ proposal \in Drafts \cup {None, Cut}

LEMMA TypeParts == TypeOK <=> MemoryOK /\ AroundOK /\ CacheOK /\ ProfilesOK
  BY DEF TypeOK, MemoryOK, AroundOK, CacheOK, ProfilesOK

(* What is around the command keeps its type.                              *)
LEMMA AroundStep ==
  ASSUME TypeOK, [Next]_vars
  PROVE  AroundOK'
<1>0. AroundOK
  BY TypeParts
<1>1. CASE UNCHANGED <<world, bounds>>
  BY <1>0, <1>1 DEF world, bounds, AroundOK
<1>2. ASSUME NEW way \in {"adapter", "export", "import"}, Start(way) PROVE AroundOK'
  BY <1>0, <1>2 DEF Start, AroundOK, world
<1>3. CASE Kill
  <2>1. kills' \in 0 .. MaxKills
    BY <1>0, <1>3, ScopeAssumption DEF Kill, AroundOK
  <2>2. excuses' \subseteq {"run", "unchecked", "unhashed", "late", "backup"}
    BY <1>0, <1>3 DEF Kill, AroundOK
  <2> QED
    BY <1>0, <1>3, <2>1, <2>2 DEF Kill, AroundOK, world
<1>4. Change => changes' \in 0 .. MaxChanges
  BY <1>0, ScopeAssumption DEF Change, AroundOK
<1>5. ASSUME NEW s \in Sources, NEW version \in Versions \cup {None}, EditSource(s, version)
      PROVE  AroundOK'
  BY <1>0, <1>4, <1>5 DEF EditSource, AroundOK
<1>6. ASSUME NEW s \in Sources, DeclareSource(s) PROVE AroundOK'
  BY <1>0, <1>4, <1>6 DEF DeclareSource, AroundOK
<1>7. ASSUME NEW d \in Domains, NEW exit \in {"passed", "failed"}, RecordRun(d, exit)
      PROVE  AroundOK'
  <2>1. excuses' \subseteq {"run", "unchecked", "unhashed", "late", "backup"}
    BY <1>0, <1>7 DEF RecordRun, AroundOK
  <2>2. latest' \in [Domains -> {"none", "passed", "failed"}]
    BY <1>0, <1>7 DEF RecordRun, AroundOK
  <2> QED
    BY <1>0, <1>4, <1>7, <2>1, <2>2 DEF RecordRun, AroundOK
<1>8. ASSUME NEW document, EditProposal(document) PROVE AroundOK'
  <2>1. excuses' \subseteq {"run", "unchecked", "unhashed", "late", "backup"}
    <3>1. CASE pc = "promote"
      BY <1>0, <1>8, <3>1 DEF EditProposal, AroundOK
    <3>2. CASE pc = "hash"
      BY <1>0, <1>8, <3>2 DEF EditProposal, AroundOK
    <3>3. CASE pc \in {"backup", "write"}
      BY <1>0, <1>8, <3>3 DEF EditProposal, AroundOK
    <3>4. CASE pc \notin {"promote", "hash", "backup", "write"}
      BY <1>0, <1>8, <3>4 DEF EditProposal, AroundOK
    <3> QED
      BY <3>1, <3>2, <3>3, <3>4
  <2> QED
    BY <1>0, <1>4, <1>8, <2>1 DEF EditProposal, AroundOK, world
<1>9. ASSUME NEW document, Resolve(document) PROVE AroundOK'
  BY <1>1, <1>9 DEF Resolve
<1>10. Proceed => UNCHANGED <<world, bounds>>
  BY DEF Proceed, UseCache, BeginSync, RemoveUndeclared, WriteIndex, BuildPack, SyncSource,
         AdapterAnswers, Import, AdapterFails, Export, ImportRefused, WriteProposal,
         ReviewStops, Check, Promote, Hash, HashFails, Disapprove, Approve, BackUp, WriteActive
<1>11. UNCHANGED vars => UNCHANGED <<world, bounds>>
  BY DEF vars
<1> QED
  BY <1>1, <1>2, <1>3, <1>5, <1>6, <1>7, <1>8, <1>9, <1>10, <1>11 DEF Next, Around

(* The cache and the exported request keep their types.                    *)
LEMMA CacheStep ==
  ASSUME TypeOK, CarryInv, SyncInv, [Next]_vars
  PROVE  CacheOK'
<1>0. CacheOK
  BY TypeParts
<1>1. CASE UNCHANGED <<cache, request>>
  BY <1>0, <1>1 DEF cache, CacheOK, Indexed
<1>2. ASSUME NEW s \in Sources, NEW record \in Records, SyncSource(s, record) PROVE CacheOK'
  BY <1>0, <1>2 DEF SyncSource, CacheOK, Indexed
<1>3. CASE RemoveUndeclared
  BY <1>0, <1>3 DEF RemoveUndeclared, CacheOK, Indexed
<1>4. CASE WriteIndex
  <2>1. declared \subseteq Sources /\ \A s \in declared : records[s] \in Records
    BY <1>4 DEF WriteIndex, SyncInv, TypeOK
  <2> QED
    BY <1>0, <1>4, <2>1 DEF WriteIndex, CacheOK, Indexed
<1>5. CASE Export
  <2>1. pack \in Packs /\ feedback \in SUBSET (Defects \cup {"citation", "domains"})
    BY <1>5 DEF Export, CarryInv, TypeOK
  <2>2. Request \in Requests
    BY <2>1 DEF Request, Requests
  <2> QED
    BY <1>0, <1>5, <2>2 DEF Export, cache, CacheOK, Indexed
<1>6. CASE Kill
  BY <1>0, <1>6 DEF Kill, cache, CacheOK, Indexed
<1>7. ASSUME NEW way \in {"adapter", "export", "import"}, Start(way) PROVE UNCHANGED <<cache, request>>
  BY <1>7 DEF Start
<1>8. Around => Kill \/ UNCHANGED <<cache, request>>
  BY DEF Around, EditSource, DeclareSource, RecordRun, EditProposal
<1>9. ASSUME NEW document, Resolve(document) PROVE UNCHANGED <<cache, request>>
  BY <1>9 DEF Resolve
<1>10. UNCHANGED vars => UNCHANGED <<cache, request>>
  BY DEF vars
<1> QED
  BY <1>1, <1>2, <1>3, <1>4, <1>5, <1>6, <1>7, <1>8, <1>9, <1>10
  DEF Next, Proceed, UseCache, BeginSync, BuildPack, AdapterAnswers, Import, AdapterFails,
      ImportRefused, WriteProposal, ReviewStops, Check, Promote, Hash, HashFails, Disapprove,
      Approve,
      BackUp, WriteActive

(* The profile documents keep their types.                                 *)
LEMMA ProfilesStep ==
  ASSUME TypeOK, CarryInv, BackupInv, [Next]_vars
  PROVE  ProfilesOK'
<1>0. ProfilesOK
  BY TypeParts
<1>1. CASE UNCHANGED profiles
  BY <1>0, <1>1 DEF profiles, ProfilesOK
<1>2. CASE WriteProposal
  BY <1>0, <1>2 DEF WriteProposal, CarryInv, ProfilesOK
<1>3. CASE BackUp
  BY <1>0, <1>3 DEF BackUp, BackupInv, ProfilesOK
<1>4. CASE WriteActive
  BY <1>0, <1>4 DEF WriteActive, CarryInv, ProfilesOK
<1>5. CASE Kill
  BY <1>0, <1>5 DEF Kill, profiles, ProfilesOK
<1>6. ASSUME NEW document \in Drafts \cup {None}, EditProposal(document) PROVE ProfilesOK'
  BY <1>0, <1>6 DEF EditProposal, ProfilesOK
<1>7. ASSUME NEW document \in Drafts, Resolve(document) PROVE ProfilesOK'
  BY <1>0, <1>7 DEF Resolve, ProfilesOK
<1>8. ASSUME NEW way \in {"adapter", "export", "import"}, Start(way) PROVE UNCHANGED profiles
  BY <1>8 DEF Start
<1>9. Proceed => WriteProposal \/ BackUp \/ WriteActive \/ UNCHANGED profiles
  BY DEF Proceed, UseCache, BeginSync, RemoveUndeclared, WriteIndex, BuildPack, SyncSource,
         AdapterAnswers, Import, AdapterFails, Export, ImportRefused,
         ReviewStops, Check, Promote, Hash, HashFails, Disapprove, Approve
<1>10. Around => Kill \/ UNCHANGED profiles
                 \/ \E document \in Drafts \cup {None} : EditProposal(document)
  BY DEF Around, EditSource, DeclareSource, RecordRun
<1>11. UNCHANGED vars => UNCHANGED profiles
  BY DEF vars
<1> QED
  BY <1>1, <1>2, <1>3, <1>4, <1>5, <1>6, <1>7, <1>8, <1>9, <1>10, <1>11 DEF Next

-----------------------------------------------------------------------------
(* The memory and the files together.                                      *)

\* A step after which no command runs changes none of the places below.
LEMMA IdlePlaces ==
  ASSUME pc' = "idle"
  PROVE  CarryInv' /\ SyncInv' /\ FreshInv' /\ ReviewedInv' /\ ClaimInv'
  BY DEF CarryInv, SyncInv, FreshInv, ReviewedInv, ClaimInv

\* The kinds of steps that leave the command running.
Moves ==
  \/ UseCache \/ BeginSync \/ RemoveUndeclared \/ WriteProposal
  \/ Check \/ Hash \/ BackUp
  \/ (WriteIndex /\ GoTo("pack")) \/ (BuildPack /\ pack' = PackOf /\ pc' = "draft"
                                       /\ UNCHANGED had)
  \/ (Promote /\ proposal \in Drafts /\ read' = [read EXCEPT !.promoted = proposal]
               /\ pc' = "hash" /\ UNCHANGED <<pack, had>>)
  \/ (Approve /\ UnchangedSinceHash /\ GoTo("backup"))

Drafted(answer) ==
  /\ answer \in Drafts /\ pc = "draft" /\ pc' = "propose"
  /\ read' = [checked |-> answer, promoted |-> None, hashed |-> None]
  /\ UNCHANGED <<world, cache, profiles, todo, pack, had, excuses>>

AsksAgain ==
  /\ pc = "draft"
  /\ UNCHANGED <<world, cache, profiles, pc, todo, pack, read, had, excuses>>

LEMMA StepKinds ==
  ASSUME TypeOK, [Next]_vars
  PROVE  \/ pc' = "idle"
         \/ \E way \in {"adapter", "export", "import"} : Start(way)
         \/ \E s \in Sources, record \in Records : SyncSource(s, record)
         \/ Moves
         \/ (\E answer \in Answers : Drafted(answer)) \/ AsksAgain
         \/ \E s \in Sources, version \in Versions \cup {None} : EditSource(s, version)
         \/ \E d \in Domains, exit \in {"passed", "failed"} : RecordRun(d, exit)
         \/ \E document \in Drafts \cup {None} : EditProposal(document)
         \/ UNCHANGED vars
<1>1. ASSUME NEW answer \in Answers, AdapterAnswers(answer) \/ Import(answer)
      PROVE  pc' = "idle" \/ Drafted(answer) \/ AsksAgain
  <2>1. pc = "draft" /\ Answered(answer)
        /\ UNCHANGED <<world, cache, profiles, excuses>>
    BY <1>1 DEF AdapterAnswers, Import, bounds
  <2> QED
    BY <2>1, AnsweredIs DEF Return, Drafted, AsksAgain
<1>2. AdapterFails \/ Export \/ ImportRefused \/ ReviewStops \/ HashFails
             \/ Disapprove \/ WriteActive \/ Kill
        => pc' = "idle"
  BY DEF AdapterFails, Export, ImportRefused, ReviewStops, HashFails, Disapprove,
         WriteActive, Kill, Return
<1>3. WriteIndex \/ BuildPack \/ Promote \/ Approve => pc' = "idle" \/ Moves
  BY DEF WriteIndex, BuildPack, Promote, Approve, Return, Moves, Readable
<1>4. UseCache \/ BeginSync \/ RemoveUndeclared \/ WriteProposal \/ Check \/ Hash \/ BackUp => Moves
  BY DEF Moves
<1>5. ASSUME NEW s \in Sources, DeclareSource(s) PROVE pc' = "idle"
  BY <1>5 DEF DeclareSource
<1>6. ASSUME NEW document, Resolve(document) PROVE pc' = "idle"
  BY <1>6 DEF Resolve
<1> QED
  BY <1>1, <1>2, <1>3, <1>4, <1>5, <1>6 DEF Next, Proceed, Around

LEMMA CarryStep ==
  ASSUME TypeOK, CarryInv, [Next]_vars
  PROVE  CarryInv'
<1>1. ASSUME NEW way, Start(way) PROVE CarryInv'
  BY <1>1 DEF Start, CarryInv
<1>2. ASSUME NEW s \in Sources, NEW record \in Records, SyncSource(s, record) PROVE CarryInv'
  BY <1>2 DEF SyncSource, CarryInv
<1>3. CASE Moves
  <2>1. CASE UseCache \/ BeginSync \/ RemoveUndeclared \/ (WriteIndex /\ GoTo("pack"))
    BY <2>1 DEF UseCache, BeginSync, RemoveUndeclared, GoTo, CarryInv
  <2>2. CASE WriteProposal \/ Check
    BY <2>2 DEF WriteProposal, Check, CarryInv
  <2>3. CASE Hash
    BY <2>3 DEF Hash, CarryInv, TypeOK
  <2>4. CASE BackUp \/ (Approve /\ GoTo("backup"))
    BY <2>4 DEF BackUp, Approve, GoTo, command, CarryInv
  <2>5. CASE pack' = PackOf /\ pc' = "draft"
    BY <2>5, PackTyped DEF CarryInv
  <2>6. CASE proposal \in Drafts /\ read' = [read EXCEPT !.promoted = proposal] /\ pc' = "hash"
    BY <2>6 DEF CarryInv, TypeOK
  <2> QED
    BY <1>3, <2>1, <2>2, <2>3, <2>4, <2>5, <2>6 DEF Moves
<1>4. ASSUME NEW answer, Drafted(answer) PROVE CarryInv'
  BY <1>4 DEF Drafted, CarryInv
<1>5. CASE AsksAgain
  BY <1>5 DEF AsksAgain, CarryInv
<1>6. CASE UNCHANGED <<pc, pack, read>>
  BY <1>6 DEF CarryInv
<1>7. ASSUME NEW s, NEW version, EditSource(s, version) PROVE UNCHANGED <<pc, pack, read>>
  BY <1>7 DEF EditSource
<1>8. ASSUME NEW d, NEW exit, RecordRun(d, exit) PROVE UNCHANGED <<pc, pack, read>>
  BY <1>8 DEF RecordRun, command
<1>9. ASSUME NEW document, EditProposal(document) PROVE UNCHANGED <<pc, pack, read>>
  BY <1>9 DEF EditProposal, command
<1>10. UNCHANGED vars => UNCHANGED <<pc, pack, read>>
  BY DEF vars, command
<1> QED
  BY <1>1, <1>2, <1>3, <1>4, <1>5, <1>6, <1>7, <1>8, <1>9, <1>10, IdlePlaces, StepKinds

-----------------------------------------------------------------------------
(* The evidence.                                                           *)

LEMMA SyncStep ==
  ASSUME TypeOK, SyncInv, [Next]_vars
  PROVE  SyncInv'
<1>1. ASSUME NEW way \in {"adapter", "export", "import"}, Start(way) PROVE SyncInv'
  BY <1>1 DEF Start, SyncInv
<1>2. ASSUME NEW s \in Sources, NEW record \in Records, SyncSource(s, record) PROVE SyncInv'
  BY <1>2 DEF SyncSource, SyncInv, TypeOK, world
<1>3. CASE Moves
  <2>1. CASE pc' \notin {"sync", "index"}
    BY <2>1 DEF SyncInv
  <2>2. CASE BeginSync
    BY <2>2 DEF BeginSync, SyncInv, world
  <2>3. CASE RemoveUndeclared
    BY <2>3 DEF RemoveUndeclared, GoTo, SyncInv, world, TypeOK
  <2>4. UseCache \/ WriteProposal \/ Check \/ Hash \/ BackUp => pc' \notin {"sync", "index"}
    BY DEF UseCache, WriteProposal, Check, Hash, BackUp, GoTo
  <2> QED
    BY <1>3, <2>1, <2>2, <2>3, <2>4 DEF Moves, GoTo
<1>4. CASE UNCHANGED <<pc, declared, todo, records>>
  BY <1>4 DEF SyncInv
<1>5. ASSUME NEW answer, Drafted(answer) PROVE SyncInv'
  BY <1>5 DEF Drafted, SyncInv
<1>6. CASE AsksAgain
  BY <1>6 DEF AsksAgain, SyncInv
<1>7. ASSUME NEW s, NEW version, EditSource(s, version) PROVE UNCHANGED <<pc, declared, todo, records>>
  BY <1>7 DEF EditSource, cache
<1>8. ASSUME NEW d, NEW exit, RecordRun(d, exit) PROVE UNCHANGED <<pc, declared, todo, records>>
  BY <1>8 DEF RecordRun, command, cache
<1>9. ASSUME NEW document, EditProposal(document) PROVE UNCHANGED <<pc, declared, todo, records>>
  BY <1>9 DEF EditProposal, command, cache, world
<1>10. UNCHANGED vars => UNCHANGED <<pc, declared, todo, records>>
  BY DEF vars, command, cache, world
<1> QED
  BY <1>1, <1>2, <1>3, <1>4, <1>5, <1>6, <1>7, <1>8, <1>9, <1>10, IdlePlaces, StepKinds

LEMMA FreshStep ==
  ASSUME TypeOK, FreshInv, [Next]_vars
  PROVE  FreshInv'
<1> DEFINE Known == \A s \in Sources : content[s] \in had[s]
<1>0. had \in [Sources -> SUBSET (Versions \cup {None})] /\ declared \subseteq Sources
      /\ records \in [Sources -> Records \cup {None, Cut}] /\ Local \subseteq Sources
  BY ScopeAssumption DEF TypeOK
<1>1. ASSUME NEW way \in {"adapter", "export", "import"}, Start(way) PROVE FreshInv'
  BY <1>1 DEF Start, FreshInv, world
<1>2. ASSUME NEW s \in Sources, NEW record \in Records, SyncSource(s, record) PROVE FreshInv'
  <2>1. Known /\ UNCHANGED <<content, declared, had>> /\ pc = "sync" /\ pc' = "sync"
    BY <1>2 DEF SyncSource, FreshInv, world
  <2>2. record \in Versions => record = content[s]
    BY <1>2, ScopeAssumption DEF SyncSource, Unread
  <2>3. Fresh(s)'
    BY <1>0, <1>2, <2>1, <2>2 DEF SyncSource, Fresh
  <2>4. \A t \in Sources : t # s /\ Fresh(t) => Fresh(t)'
    BY <1>0, <1>2, <2>1 DEF SyncSource, Fresh
  <2>5. todo' = todo \ {s}
    BY <1>2 DEF SyncSource
  <2>6. \A t \in (declared' \ todo') \cap Local : Fresh(t)'
    BY <1>0, <2>1, <2>3, <2>4, <2>5 DEF FreshInv
  <2> QED
    BY <2>1, <2>6 DEF FreshInv
<1>3. CASE Moves
  <2>1. Known /\ UNCHANGED <<content, declared, had>>
    BY <1>3 DEF Moves, UseCache, BeginSync, RemoveUndeclared, WriteProposal, Check, Hash, BackUp,
                WriteIndex, BuildPack, Promote, Approve, GoTo, command, world, FreshInv
  <2>2. CASE BeginSync
    BY <2>1, <2>2 DEF BeginSync, FreshInv
  <2>3. CASE UseCache
    <3>1. \A s \in declared \cap Local : Fresh(s)
      BY <1>0, <2>1, <2>3 DEF UseCache, CacheIsCurrent, Fresh
    <3>2. pc' = "pack" /\ records' = records
      BY <2>3 DEF UseCache, GoTo, cache
    <3> QED
      BY <2>1, <3>1, <3>2 DEF FreshInv, Fresh
  <2>4. CASE RemoveUndeclared
    <3>1. \A s \in declared \cap Local : Fresh(s) /\ records'[s] = records[s]
      BY <1>0, <2>4 DEF RemoveUndeclared, FreshInv
    <3>2. pc' = "index"
      BY <2>4 DEF RemoveUndeclared, GoTo
    <3> QED
      BY <2>1, <3>1, <3>2 DEF FreshInv, Fresh
  <2>5. CASE WriteIndex /\ GoTo("pack")
    <3>1. \A s \in declared \cap Local : Fresh(s)
      BY <2>5 DEF WriteIndex, FreshInv
    <3>2. pc' = "pack" /\ records' = records
      BY <2>5 DEF WriteIndex, GoTo
    <3> QED
      BY <2>1, <3>1, <3>2 DEF FreshInv, Fresh
  <2>6. CASE BuildPack /\ pack' = PackOf /\ pc' = "draft"
    <3>1. \A s \in declared \cap Local : Fresh(s)
      BY <2>6 DEF BuildPack, FreshInv
    <3>2. pack'.context = [s \in Synced |-> records[s]]
      BY <2>6 DEF PackOf
    <3>3. DOMAIN pack'.context = Synced /\ \A s \in Synced : pack'.context[s] = records[s]
      BY <3>2
    <3>4. \A s \in Local \cap Synced : records[s] \in had'[s]
      BY <2>1, <3>1 DEF Synced, Fresh
    <3> QED
      BY <2>1, <2>6, <3>3, <3>4 DEF FreshInv
  <2>7. CASE pc' \notin {"sync", "index", "pack", "draft"}
    BY <2>1, <2>7 DEF FreshInv
  <2>8. WriteProposal \/ Check \/ Hash \/ BackUp => pc' \notin {"sync", "index", "pack", "draft"}
    BY DEF WriteProposal, Check, Hash, BackUp, GoTo
  <2> QED
    BY <1>3, <2>2, <2>3, <2>4, <2>5, <2>6, <2>7, <2>8 DEF Moves, GoTo
<1>4. CASE UNCHANGED <<pc, content, declared, records, todo, pack, had>>
  BY <1>4 DEF FreshInv, Fresh
<1>5. ASSUME NEW answer, Drafted(answer) PROVE FreshInv'
  BY <1>5 DEF Drafted, FreshInv, world
<1>6. CASE AsksAgain
  BY <1>4, <1>6 DEF AsksAgain, world, cache
<1>7. ASSUME NEW s \in Sources, NEW version \in Versions \cup {None}, EditSource(s, version)
      PROVE  FreshInv'
  <2>1. CASE pc = "idle"
    BY <1>7, <2>1, IdlePlaces DEF EditSource
  <2>2. CASE pc # "idle"
    <3>1. UNCHANGED <<pc, declared, records, todo, pack>>
          /\ had' = [had EXCEPT ![s] = @ \cup {version}]
          /\ content' = [content EXCEPT ![s] = version]
      BY <1>7, <2>2 DEF EditSource, cache
    <3>2. \A t \in Sources : had[t] \subseteq had'[t]
      BY <1>0, <3>1
    <3>3. Known'
      BY <1>0, <2>2, <3>1, <3>2 DEF FreshInv, TypeOK
    <3>4. \A t \in Sources : Fresh(t) => Fresh(t)'
      BY <3>1, <3>2 DEF Fresh
    <3> QED
      BY <1>0, <3>1, <3>2, <3>3, <3>4 DEF FreshInv
  <2> QED
    BY <2>1, <2>2
<1>8. ASSUME NEW d, NEW exit, RecordRun(d, exit)
      PROVE  UNCHANGED <<pc, content, declared, records, todo, pack, had>>
  BY <1>8 DEF RecordRun, command, cache
<1>9. ASSUME NEW document, EditProposal(document)
      PROVE  UNCHANGED <<pc, content, declared, records, todo, pack, had>>
  BY <1>9 DEF EditProposal, command, cache, world
<1>10. UNCHANGED vars => UNCHANGED <<pc, content, declared, records, todo, pack, had>>
  BY DEF vars, command, cache, world
<1> QED
  BY <1>1, <1>2, <1>3, <1>4, <1>5, <1>6, <1>7, <1>8, <1>9, <1>10, IdlePlaces, StepKinds

-----------------------------------------------------------------------------
(* The review.                                                             *)

\* The places between the reading of the proposal and the last write.
Late == {"promote", "hash", "ask", "backup", "write"}

(* Steps that come before the review, and those that change nothing in it. *)
LEMMA EarlyPlaces ==
  ASSUME pc' \notin Late
  PROVE  ReviewedInv' /\ ClaimInv'
  BY DEF Late, ReviewedInv, ClaimInv

LEMMA BeforeReview ==
  /\ \A way : Start(way) => pc' \notin Late
  /\ \A s, record : SyncSource(s, record) => pc' \notin Late
  /\ UseCache \/ BeginSync \/ RemoveUndeclared \/ WriteProposal => pc' \notin Late
  /\ GoTo("pack") \/ pc' = "draft" => pc' \notin Late
  /\ \A answer : Drafted(answer) => pc' \notin Late
  /\ AsksAgain => pc' \notin Late
  BY DEF Late, Start, SyncSource, UseCache, BeginSync, RemoveUndeclared, WriteProposal, GoTo,
         Drafted, AsksAgain

LEMMA ReviewedStep ==
  ASSUME TypeOK, ReviewedInv, [Next]_vars
  PROVE  ReviewedInv'
<1>1. CASE pc' \notin Late
  BY <1>1, EarlyPlaces
<1>2. CASE Moves
  <2>1. CASE Check
    BY <2>1 DEF Check, ReviewedInv
  <2>2. CASE Promote /\ read' = [read EXCEPT !.promoted = proposal] /\ pc' = "hash"
    BY <2>2 DEF Promote, profiles, ReviewedInv, TypeOK
  <2>3. CASE Hash
    BY <2>3 DEF Hash, profiles, bounds, ReviewedInv, TypeOK
  <2>4. CASE Approve /\ UnchangedSinceHash /\ GoTo("backup")
    BY <2>4 DEF Approve, UnchangedSinceHash, GoTo, command, profiles, bounds, ReviewedInv
  <2>5. CASE BackUp
    BY <2>5 DEF BackUp, GoTo, command, bounds, ReviewedInv
  <2> QED
    BY <1>1, <1>2, <2>1, <2>2, <2>3, <2>4, <2>5, BeforeReview DEF Moves
<1>3. ASSUME NEW s, NEW version, EditSource(s, version) PROVE ReviewedInv'
  BY <1>3 DEF EditSource, profiles, ReviewedInv
<1>4. ASSUME NEW d, NEW exit, RecordRun(d, exit) PROVE ReviewedInv'
  <2>1. excuses \subseteq excuses' /\ UNCHANGED <<pc, read, proposal>>
    BY <1>4 DEF RecordRun, command, profiles
  <2> QED
    BY <2>1 DEF ReviewedInv
<1>5. ASSUME NEW document, EditProposal(document) PROVE ReviewedInv'
  <2>1. excuses \subseteq excuses' /\ UNCHANGED <<pc, read>>
    BY <1>5 DEF EditProposal, command
  <2>2. pc = "hash" => "unhashed" \in excuses'
    BY <1>5 DEF EditProposal
  <2>3. pc \in {"backup", "write"} => "late" \in excuses'
    BY <1>5 DEF EditProposal
  <2> QED
    BY <2>1, <2>2, <2>3 DEF ReviewedInv
<1>6. CASE UNCHANGED vars
  BY <1>6 DEF vars, command, profiles, bounds, ReviewedInv
<1> QED
  BY <1>1, <1>2, <1>3, <1>4, <1>5, <1>6, IdlePlaces, BeforeReview, StepKinds

LEMMA ClaimStep ==
  ASSUME TypeOK, ClaimInv, [Next]_vars
  PROVE  ClaimInv'
<1>1. CASE pc' \notin Late
  BY <1>1, EarlyPlaces
<1>2. CASE Moves
  <2>1. CASE Check
    BY <2>1 DEF Check, Reviewable, Conflicts, world, profiles, bounds, ClaimInv
  <2>2. CASE Promote /\ read' = [read EXCEPT !.promoted = proposal] /\ pc' = "hash"
    <3>1. pc = "promote" /\ read'.promoted = proposal /\ UNCHANGED <<latest, excuses>>
      BY <2>2 DEF Promote, world, bounds, TypeOK
    <3> QED
      BY <2>2, <3>1 DEF ClaimInv, Excused, Conflicts
  <2>3. CASE Hash
    <3>1. pc = "hash" /\ pc' = "ask" /\ read'.promoted = read.promoted /\ UNCHANGED <<latest, excuses>>
      BY <2>3 DEF Hash, world, bounds, TypeOK
    <3> QED
      BY <3>1 DEF ClaimInv, Excused, Conflicts
  <2>4. CASE Approve /\ UnchangedSinceHash /\ GoTo("backup")
    BY <2>4 DEF Approve, GoTo, command, world, bounds, ClaimInv, Excused, Conflicts
  <2>5. CASE BackUp
    BY <2>5 DEF BackUp, GoTo, command, world, bounds, ClaimInv, Excused, Conflicts
  <2> QED
    BY <1>1, <1>2, <2>1, <2>2, <2>3, <2>4, <2>5, BeforeReview DEF Moves
<1>3. ASSUME NEW s, NEW version, EditSource(s, version) PROVE ClaimInv'
  BY <1>3 DEF EditSource, profiles, ClaimInv, Excused, Conflicts
<1>4. ASSUME NEW d, NEW exit, RecordRun(d, exit) PROVE ClaimInv'
  <2>1. pc \in Late => Excused'
    BY <1>4 DEF RecordRun, Late, Excused
  <2>2. pc' = pc
    BY <1>4 DEF RecordRun
  <2> QED
    BY <2>1, <2>2 DEF ClaimInv, Late
<1>5. ASSUME NEW document, EditProposal(document) PROVE ClaimInv'
  <2>1. excuses \subseteq excuses' /\ UNCHANGED <<pc, read, latest>>
    BY <1>5 DEF EditProposal, command, world
  <2>2. pc = "promote" => Excused'
    BY <1>5 DEF EditProposal, Excused
  <2> QED
    BY <2>1, <2>2 DEF ClaimInv, Excused, Conflicts
<1>6. CASE UNCHANGED vars
  BY <1>6 DEF vars, command, world, profiles, bounds, ClaimInv, Excused, Conflicts
<1> QED
  BY <1>1, <1>2, <1>3, <1>4, <1>5, <1>6, IdlePlaces, BeforeReview, StepKinds

LEMMA BackupStep ==
  ASSUME TypeOK, BackupInv, [Next]_vars
  PROVE  BackupInv'
<1>0. Initial \notin {None, Cut} /\ None # Cut
  BY ScopeAssumption
<1>1. ("backup" \in excuses => "backup" \in excuses') /\ UNCHANGED <<active, backup>>
      /\ pc' # "write" => BackupInv'
  BY DEF BackupInv
<1>2. ASSUME NEW way, Start(way) PROVE BackupInv'
  BY <1>1, <1>2 DEF Start, profiles
<1>3. CASE BackUp
  BY <1>0, <1>3 DEF BackUp, bounds, BackupInv, TypeOK
<1>4. CASE WriteActive
  BY <1>4 DEF WriteActive, Return, bounds, BackupInv
<1>5. CASE Kill
  <2>1. pc' = "idle"
    BY <1>5 DEF Kill, Return
  <2>2. CASE UNCHANGED <<active, backup, excuses>>
    BY <2>1, <2>2 DEF BackupInv
  <2>3. CASE backup' = Cut /\ "backup" \in excuses'
    BY <1>0, <2>1, <2>3 DEF BackupInv
  <2>4. CASE pc = "write" /\ UNCHANGED <<backup, excuses>>
    BY <2>1, <2>4 DEF BackupInv
  <2> QED
    BY <1>5, <2>2, <2>3, <2>4 DEF Kill, profiles
<1>6. ASSUME NEW d, NEW exit, RecordRun(d, exit) PROVE BackupInv'
  BY <1>6 DEF RecordRun, profiles, BackupInv
<1>7. ASSUME NEW document, EditProposal(document) PROVE BackupInv'
  <2>1. excuses \subseteq excuses' /\ UNCHANGED <<active, backup, pc>>
    BY <1>7 DEF EditProposal
  <2> QED
    BY <2>1 DEF BackupInv
<1>8. ASSUME NEW s, NEW version, EditSource(s, version) PROVE BackupInv'
  BY <1>8 DEF EditSource, profiles, BackupInv
<1>9. ASSUME NEW s, DeclareSource(s) PROVE BackupInv'
  BY <1>9 DEF DeclareSource, profiles, BackupInv
<1>10. ASSUME NEW document, Resolve(document) PROVE BackupInv'
  BY <1>10 DEF Resolve, bounds, BackupInv
<1>11. UNCHANGED vars => BackupInv'
  BY DEF vars, profiles, bounds, BackupInv
<1>12. CASE Proceed
  <2>1. BackUp \/ WriteActive \/ UNCHANGED <<active, backup, excuses>>
    BY <1>12 DEF Proceed, UseCache, BeginSync, RemoveUndeclared, WriteIndex, BuildPack, SyncSource,
         AdapterAnswers, Import, AdapterFails, Export, ImportRefused, WriteProposal,
         ReviewStops, Check, Promote, Hash, HashFails, Disapprove, Approve, profiles, bounds
  <2>2. BackUp \/ pc' # "write"
    <3>1. ASSUME NEW answer \in Answers, AdapterAnswers(answer) \/ Import(answer)
          PROVE  pc' # "write"
      BY <3>1, AnsweredIs DEF AdapterAnswers, Import, Return
    <3> QED
      BY <1>12, <3>1 DEF Proceed, UseCache, BeginSync, RemoveUndeclared, WriteIndex, BuildPack,
           SyncSource, AdapterFails, Export, ImportRefused, WriteProposal, ReviewStops, Check,
           Promote, Hash, HashFails, Disapprove, Approve, WriteActive, GoTo, Return
  <2> QED
    BY <1>1, <1>3, <1>4, <2>1, <2>2
<1> QED
  BY <1>2, <1>5, <1>6, <1>7, <1>8, <1>9, <1>10, <1>11, <1>12 DEF Next, Around

-----------------------------------------------------------------------------
(* The theorems.                                                           *)

LEMMA InitInv == Init => IInv
<1> SUFFICES ASSUME Init PROVE IInv
  OBVIOUS
<1>1. MemoryOK
  <2>1. IsFiniteSet(feedback) /\ Cardinality(feedback) < MaxAttempts
    BY FS_EmptySet, ScopeAssumption DEF Init
  <2> QED
    BY <2>1 DEF Init, MemoryOK, NoRead, HadNone
<1>2. AroundOK
  BY ScopeAssumption DEF Init, AroundOK
<1>3. CacheOK
  <2>1. declared \subseteq Sources /\ content = [s \in Sources |-> First] /\ First \in Records
    BY ScopeAssumption DEF Init, Records
  <2>2. CASE records = [s \in Sources |-> None] /\ index = None
    BY <2>2 DEF Init, CacheOK, Indexed
  <2>3. CASE /\ records = [s \in Sources |-> IF s \in declared THEN content[s] ELSE None]
             /\ index = [s \in declared |-> content[s]]
    BY <2>1, <2>3 DEF Init, CacheOK, Indexed
  <2> QED
    BY <2>2, <2>3 DEF Init
<1>4. ProfilesOK
  BY DEF Init, ProfilesOK
<1>5. BackupInv
  BY ScopeAssumption DEF Init, BackupInv
<1> QED
  BY <1>1, <1>2, <1>3, <1>4, <1>5, TypeParts
  DEF Init, IInv, CarryInv, SyncInv, FreshInv, ReviewedInv, ClaimInv

LEMMA InvStep == IInv /\ [Next]_vars => IInv'
<1> SUFFICES ASSUME IInv, [Next]_vars PROVE IInv'
  OBVIOUS
<1>1. TypeOK'
  BY MemoryStep, AroundStep, CacheStep, ProfilesStep, TypeParts DEF IInv, TypeOK, MemoryOK,
     AroundOK, CacheOK, ProfilesOK
<1> QED
  BY <1>1, CarryStep, SyncStep, FreshStep, ReviewedStep, ClaimStep, BackupStep DEF IInv

LEMMA InvHolds == Spec => []IInv
  BY InitInv, InvStep, PTL DEF Spec

(* The type invariant, for every project, cache and draft.                 *)
THEOREM TypeCorrect == Spec => []TypeOK
<1>1. IInv => TypeOK
  BY DEF IInv
<1> QED
  BY <1>1, InvHolds, PTL

(* No draft is made from a file as it was before the command began         *)
(* (context.py), whatever an interrupted synchronisation left behind.      *)
THEOREM EvidenceIsFresh == Spec => []NoStaleEvidence
<1>1. IInv => NoStaleEvidence
  BY DEF IInv, FreshInv, NoStaleEvidence
<1> QED
  BY <1>1, InvHolds, PTL

(* The first profile can be restored (journey.py), unless its only copy was *)
(* cut short.                                                              *)
THEOREM InitialIsKept == Spec => []InitialKept
<1>1. IInv => InitialKept
  BY DEF IInv, TypeOK, BackupInv, InitialKept
<1> QED
  BY <1>1, InvHolds, PTL

(* The only step that makes another profile active.                        *)
LEMMA ActiveSteps ==
  ASSUME [Next]_vars, active' # active, active' # Cut
  PROVE  WriteActive
  BY DEF Next, Proceed, Around, Start, UseCache, BeginSync, RemoveUndeclared, WriteIndex,
         BuildPack, SyncSource, AdapterAnswers, Import, AdapterFails, Export, ImportRefused,
         WriteProposal, ReviewStops, Check, Promote, Hash, HashFails, Disapprove, Approve, BackUp,
         EditSource, DeclareSource, RecordRun, EditProposal, Resolve, Kill, profiles, vars

(* What becomes active is what was hashed and displayed (journey.py).      *)
THEOREM PromotionIsReviewed == Spec => PromotedAsReviewed
<1> DEFINE A == active' # active /\ active' # Cut =>
                  \/ "unhashed" \in excuses
                  \/ active' = read.hashed /\ ("late" \in excuses \/ proposal = read.hashed)
<1>1. ASSUME IInv, [Next]_vars PROVE A
  BY <1>1, ActiveSteps DEF WriteActive, IInv, ReviewedInv
<1>2. IInv /\ [Next]_vars => [A]_vars
  BY <1>1
<1> QED
  BY <1>2, InvHolds, PTL DEF Spec, PromotedAsReviewed

(* What becomes active claims no domain that the latest run refutes        *)
(* (journey.py, qualify.py).                                               *)
THEOREM ClaimsStand == Spec => NoRefutedClaim
<1> DEFINE A == active' # active /\ active' # Cut =>
                  \/ excuses \cap {"run", "unchecked", "unhashed"} # {}
                  \/ ~Conflicts(active')
<1>1. ASSUME IInv, [Next]_vars PROVE A
  BY <1>1, ActiveSteps DEF WriteActive, IInv, ClaimInv, Excused, Conflicts
<1>2. IInv /\ [Next]_vars => [A]_vars
  BY <1>1
<1> QED
  BY <1>2, InvHolds, PTL DEF Spec, NoRefutedClaim

=============================================================================

--------------------------- MODULE GitVaultProofs ---------------------------
(***************************************************************************)
(* Proofs about GitVault, for any files, paths, contents and bounds: its   *)
(* variables keep their types; every file the server has staged and not    *)
(* committed is named by a durable marker, through crashes and failed      *)
(* stages and commits; commits, timers and recoveries keep their promises; *)
(* and all of it implements VaultHistory.  Recovery drops the marker of a  *)
(* directory, so the theorems it bears on assume that events name files;   *)
(* that nothing else drops one is a theorem without that assumption.       *)
(* Last, git_status and git_diff agree on a repository (GitInspection).    *)
(***************************************************************************)
EXTENDS GitVault, TLAPS

\* Events name files, never directories.
FilesOnly == Path = File

\* What each phase of the server knows about its own control state.
PhaseInv ==
    /\ pc \in {"staging", "committing", "restaging", "diffing"} => snap \in Tree
    /\ pc = "staging" => job \in {"write", "delete", "move"}
    /\ pc \in {"restaging", "diffing"} => job = "recover"
    /\ job \in {"write", "delete", "move"} => stages < MaxStage

TypeInv == TypeOK /\ PhaseInv

\* A path enters the copy of the index only after its marker is on disk.
StagedIsRecorded == done \subseteq marker

OnlyStagingStages == pc # "staging" => done = {}

\* initialise has committed everything before it removes the markers.
InitOwnsNothing == job = "init" => owned = {}

IInv ==
    /\ TypeInv
    /\ StagedWorkRecorded
    /\ StagedIsRecorded
    /\ OnlyStagingStages
    /\ InitOwnsNothing

-----------------------------------------------------------------------------

\* A file is under a set of paths when one of them has it below.
LEMMA UnderAnyDef ==
    ASSUME NEW ps, NEW f
    PROVE  f \in UnderAny(ps) <=> \E p \in ps : f \in Below[p]
BY DEF UnderAny

\* More paths cover more files.
LEMMA UnderAnyMonotone ==
    ASSUME NEW ps, NEW qs, ps \subseteq qs
    PROVE  UnderAny(ps) \subseteq UnderAny(qs)
BY DEF UnderAny

\* The files under some paths are files.
LEMMA UnderAnyFiles ==
    ASSUME NEW ps \in SUBSET Path
    PROVE  UnderAny(ps) \subseteq File
BY PathAssumption DEF UnderAny

\* Overlaying one tree on another gives a tree.
LEMMA OverlayIsTree ==
    ASSUME NEW s \in Tree, NEW t \in Tree, NEW ps
    PROVE  Overlay(s, t, ps) \in Tree
BY DEF Overlay, Tree

\* An event is of one of three kinds and names a sequence of paths.
LEMMA EventsShape ==
    ASSUME NEW e \in Events
    PROVE  e.kind \in {"write", "delete", "move"} /\ e.names \in Seq(Path)
<1>1. CASE e \in {[kind |-> k, names |-> <<p>>] : k \in {"write", "delete"}, p \in Path}
  <2>1. PICK k \in {"write", "delete"}, p \in Path : e = [kind |-> k, names |-> <<p>>]
    BY <1>1
  <2>2. e.kind = k /\ e.names = <<p>>
    BY <2>1
  <2>3. QED
    BY <2>1, <2>2
<1>2. CASE e \in {[kind |-> "move", names |-> <<p, q>>] : p, q \in Path}
  <2>1. PICK p \in Path, q \in Path : e = [kind |-> "move", names |-> <<p, q>>]
    BY <1>2
  <2>2. e.kind = "move" /\ e.names = <<p, q>>
    BY <2>1
  <2>3. QED
    BY <2>1, <2>2
<1>3. QED
  BY <1>1, <1>2 DEF Events

\* The tree without files, HEAD of an unborn repository, is a tree.
LEMMA NothingIsTree == Nothing \in Tree
BY DEF Nothing, Tree

-----------------------------------------------------------------------------

\* A repository at its start is well typed.
LEMMA TypeInit == Init => TypeInv
<1>1. << >> \in Seq(Path)
  OBVIOUS
<1>2. 0 \in 0..0 /\ 0 \in 0..MaxStage /\ 0 \in 0..MaxCrash /\ 0 \in 0..MaxAct
  BY ValueAssumption
<1>3. ASSUME Init PROVE TypeOK
  BY <1>1, <1>2, <1>3, NothingIsTree DEF Init, TypeOK, Phases, Jobs
<1>4. ASSUME Init PROVE PhaseInv
  BY <1>4 DEF Init, PhaseInv
<1>5. QED
  BY <1>3, <1>4 DEF TypeInv

\* Every step of server, timers and operator keeps the types.
LEMMA TypeStep == TypeInv /\ [Next]_vars => TypeInv'
<1> SUFFICES ASSUME TypeInv, [Next]_vars
             PROVE  TypeInv'
  OBVIOUS
<1> USE ValueAssumption, NotATree DEF TypeInv, TypeOK, PhaseInv, Phases, Jobs, disk, history
<1>1. ASSUME NEW e \in Events, Mutate(e)
      PROVE  TypeInv'
  <2>1. work' \in Tree
    BY <1>1 DEF Mutate, Landed
  <2>2. e.kind \in {"write", "delete", "move"} /\ e.names \in Seq(Path)
    BY EventsShape
  <2>3. /\ job' = e.kind /\ todo' = e.names /\ stages < MaxStage
        /\ pc \in {"idle", "committing"}
        /\ UNCHANGED <<head, index, marker, paths, gen, timers, pc, done, snap, parent,
                       owned, stages, fault, rebased, crashes, acts>>
    BY <1>1 DEF Mutate
  <2>4. job' \in Jobs /\ todo' \in Seq(Path)
    BY <2>2, <2>3
  <2>5. fault' \in BOOLEAN /\ rebased' \in BOOLEAN
    BY <2>3
  <2>6. timers' \in SUBSET [gen : 1..MaxStage, at : 1..MaxStage]
    BY <2>3
  <2>7. /\ head' = head /\ index' = index /\ marker' = marker /\ paths' = paths
        /\ gen' = gen /\ pc' = pc /\ done' = done /\ snap' = snap /\ parent' = parent
        /\ owned' = owned /\ stages' = stages /\ crashes' = crashes /\ acts' = acts
    BY <2>3
  <2>8. TypeOK'
    BY <2>1, <2>4, <2>5, <2>6, <2>7
  <2>9. PhaseInv'
    BY <2>2, <2>3
  <2>10. QED
    BY <2>8, <2>9
<1>2. CASE StageBegin
  BY <1>2 DEF StageBegin
<1>3. CASE StagePath
  <2>1. Head(todo) \in Path /\ Tail(todo) \in Seq(Path)
    BY <1>3 DEF StagePath
  <2>2. snap' \in Tree
    BY <1>3, OverlayIsTree, NothingIsTree DEF StagePath
  <2>3. QED
    BY <1>3, <2>1, <2>2 DEF StagePath, Record
<1>4. CASE StagePathFails
  <2>1. Head(todo) \in Path
    BY <1>4 DEF StagePathFails
  <2>2. << >> \in Seq(Path)
    OBVIOUS
  <2>3. QED
    BY <1>4, <2>1, <2>2 DEF StagePathFails, Record
<1>5. CASE StageFinish
  <2>1. owned' \in SUBSET File
    BY <1>5, UnderAnyFiles DEF StageFinish
  <2>2. /\ gen + 1 \in 1..MaxStage /\ gen + 1 <= stages + 1
        /\ stages + 1 \in 1..MaxStage
    BY <1>5 DEF StageFinish
  <2>3. timers' \in SUBSET [gen : 1..MaxStage, at : 1..MaxStage]
    BY <1>5, <2>2 DEF StageFinish, Arm
  <2>4. QED
    BY <1>5, <2>1, <2>2, <2>3 DEF StageFinish
<1>6. CASE StageFinishFails
  BY <1>6 DEF StageFinishFails
<1>7. CASE CommitWrites
  BY <1>7 DEF CommitWrites
<1>8. CASE CommitFails
  BY <1>8 DEF CommitFails
<1>9. ASSUME ReadForCommit, paths \in SUBSET Path, pc = "idle"
      PROVE  /\ pc' \in {"idle", "committing"}
             /\ fault' \in BOOLEAN
             /\ snap' \in Tree \cup {Nil} /\ parent' \in Tree \cup {Nil}
             /\ pc' = "committing" => snap' \in Tree
  <2>1. fault' \in BOOLEAN
    BY <1>9, Zenon DEF ReadForCommit
  <2>2. CASE paths = {} \/ head = Unborn
    BY <1>9, <2>1, <2>2 DEF ReadForCommit, OwnedTree
  <2>3. CASE ~(paths = {} \/ head = Unborn)
    <3>1. head \in Tree /\ Overlay(head, index, paths) \in Tree
      BY <2>3, OverlayIsTree
    <3>2. QED
      BY <1>9, <2>1, <2>3, <3>1 DEF ReadForCommit, OwnedTree
  <2>4. QED
    BY <2>2, <2>3
<1>10. CASE CommitNow
  BY <1>10, <1>9 DEF CommitNow
<1>11. ASSUME NEW t \in timers, TimerFires(t)
       PROVE  TypeInv'
  <2>1. CASE ReadForCommit
    BY <1>11, <1>9, <2>1 DEF TimerFires
  <2>2. CASE UNCHANGED <<pc, parent, snap, fault>>
    BY <1>11, <2>2 DEF TimerFires
  <2>3. QED
    BY <1>11, <2>1, <2>2 DEF TimerFires
<1>12. CASE InitCommit
  BY <1>12 DEF InitCommit
<1>13. CASE InitReset
  BY <1>13 DEF InitReset
<1>14. CASE InitResetFails
  BY <1>14 DEF InitResetFails
<1>15. CASE Crash
  <2>1. << >> \in Seq(Path)
    OBVIOUS
  <2>2. gen' \in 0..stages' /\ stages' \in 0..MaxStage /\ crashes' \in 0..MaxCrash
    BY <1>15 DEF Crash, GenAfterRestart
  <2>3. UNCHANGED <<head, index, work, marker, owned, fault, acts>>
    BY <1>15 DEF Crash
  <2>4. /\ paths' = {} /\ timers' = {} /\ pc' = "down" /\ job' = "none"
        /\ todo' = << >> /\ done' = {} /\ snap' = Nil /\ parent' = Nil
        /\ rebased' = FALSE
    BY <1>15 DEF Crash
  <2>5. QED
    BY <2>1, <2>2, <2>3, <2>4
<1>16. CASE Start
  BY <1>16 DEF Start
<1>17. CASE Restage
  <2>1. index' \in Tree
    BY <1>17, OverlayIsTree DEF Restage
  <2>2. owned' \in SUBSET File
    BY <1>17, UnderAnyFiles DEF Restage
  <2>3. QED
    BY <1>17, <2>1, <2>2 DEF Restage
<1>18. CASE RecoverBatch
  <2>1. StillStaged(marker) \in SUBSET Path
    BY DEF StillStaged
  <2>2. head \in Tree /\ snap' \in Tree \cup {Nil}
    BY <1>18, OverlayIsTree DEF RecoverBatch, OwnedTree
  <2>3. pc' = "committing" => snap' \in Tree
    BY <1>18, <2>2, OverlayIsTree DEF RecoverBatch, OwnedTree
  <2>4. QED
    BY <1>18, <2>1, <2>2, <2>3 DEF RecoverBatch
<1>19. CASE OperatorEdits
  <2>1. work' \in Tree
    BY <1>19 DEF OperatorEdits, Tree
  <2>2. QED
    BY <1>19, <2>1 DEF OperatorEdits, OperatorActs
<1>20. CASE OperatorAdds
  <2>1. index' \in Tree
    BY <1>20 DEF OperatorAdds, Tree
  <2>2. QED
    BY <1>20, <2>1 DEF OperatorAdds, OperatorActs
<1>21. CASE OperatorCommits
  BY <1>21 DEF OperatorCommits, OperatorActs
<1>22. CASE UNCHANGED vars
  BY <1>22 DEF vars
<1>23. QED
  BY <1>1, <1>2, <1>3, <1>4, <1>5, <1>6, <1>7, <1>8, <1>10, <1>11, <1>12, <1>13,
     <1>14, <1>15, <1>16, <1>17, <1>18, <1>19, <1>20, <1>21, <1>22
     DEF Next, Server, Operator

\* Every variable of the Git vault keeps its type in every reachable state.
THEOREM GitTypeCorrect == Spec => []TypeOK
<1>1. TypeInv => TypeOK
  BY DEF TypeInv
<1>2. QED
  BY TypeInit, TypeStep, <1>1, PTL DEF Spec

-----------------------------------------------------------------------------

\* At the start nothing is staged, so nothing lacks a marker.
LEMMA RecordedInit == Init => IInv
<1>1. UnderAny({}) = {}
  BY DEF UnderAny
<1>2. QED
  BY <1>1, TypeInit DEF Init, IInv, StagedWorkRecorded, StagedIsRecorded,
     OnlyStagingStages, InitOwnsNothing

\* Files the server has staged that no marker names.
Unrecorded == owned \ UnderAny(marker)

\* recover_staged drops the marker of a directory that has file f below it.
ForgetsDirectory(f) == RecoverBatch /\ \E p \in marker \ File : f \in Below[p]

\* What relates the markers to the phases of a stage and an initialisation.
Books == StagedIsRecorded /\ OnlyStagingStages /\ InitOwnsNothing

\* Only the actions that stage, commit, initialise or recover can disturb the
\* markers, the owned files or the half-staged paths; and only a recovery can
\* leave a file without a marker that had one.
LEMMA MarkersStep ==
    TypeInv /\ Books /\ [Next]_vars =>
        /\ Books'
        /\ \A f \in Unrecorded' : f \in Unrecorded \/ ForgetsDirectory(f)
<1> SUFFICES ASSUME TypeInv, Books, [Next]_vars
             PROVE  /\ Books'
                    /\ \A f \in Unrecorded' : f \in Unrecorded \/ ForgetsDirectory(f)
  OBVIOUS
<1> DEFINE Named(f, ms) == \E p \in ms : f \in Below[p]
<1> DEFINE Lost(f) == ~Named(f, marker')
<1> DEFINE Rest == /\ \A f \in owned' : Lost(f) =>
                         (f \in owned /\ ~Named(f, marker)) \/ ForgetsDirectory(f)
                   /\ StagedIsRecorded'
                   /\ OnlyStagingStages'
                   /\ InitOwnsNothing'
<1>b. StagedIsRecorded /\ OnlyStagingStages /\ InitOwnsNothing
  BY DEF Books
<1>c. SUFFICES Rest
  <2>1. ASSUME Rest, NEW f \in Unrecorded' PROVE f \in Unrecorded \/ ForgetsDirectory(f)
    <3>1. f \in owned' /\ Lost(f)
      BY <2>1 DEF Unrecorded, UnderAny
    <3>2. CASE f \in owned /\ ~Named(f, marker)
      BY <3>2, UnderAnyDef DEF Unrecorded
    <3>3. QED
      BY <2>1, <3>1, <3>2
  <2>2. QED
    BY <2>1 DEF Books
<1> USE <1>b DEF StagedIsRecorded, OnlyStagingStages, InitOwnsNothing, disk, history
<1>1. ASSUME NEW e \in Events, Mutate(e)
      PROVE  Rest
  <2>1. job' # "init"
    BY <1>1, EventsShape DEF Mutate
  <2>2. UNCHANGED <<marker, pc, done, owned>>
    BY <1>1 DEF Mutate
  <2>3. QED
    BY <2>1, <2>2
<1>2. CASE StageBegin
  BY <1>2 DEF StageBegin
<1>3. CASE StagePath
  <2>1. marker \subseteq marker' /\ done' \subseteq marker'
    BY <1>3 DEF StagePath, Record
  <2>2. UNCHANGED <<owned, pc, job>> /\ pc = "staging"
    BY <1>3 DEF StagePath
  <2>3. QED
    BY <2>1, <2>2
<1>4. CASE StagePathFails
  <2>1. marker \subseteq marker' /\ done' = {} /\ job' = "none" /\ owned' = owned
    BY <1>4 DEF StagePathFails, Record
  <2>2. QED
    BY <2>1
<1>5. CASE StageFinish
  <2>1. owned' = owned \cup UnderAny(done) /\ UNCHANGED marker
    BY <1>5 DEF StageFinish
  <2>2. ASSUME NEW f \in owned', Lost(f) PROVE f \in owned /\ ~Named(f, marker)
    BY <2>1, <2>2, UnderAnyDef
  <2>3. done' = {} /\ job' = "none"
    BY <1>5 DEF StageFinish
  <2>4. QED
    BY <2>2, <2>3
<1>6. CASE StageFinishFails
  BY <1>6 DEF StageFinishFails
<1>7. CASE CommitWrites
  <2>1. PICK kept \in SUBSET paths : marker' = marker \ (paths \ kept)
    BY <1>7 DEF CommitWrites
  <2>2. owned' = owned \ UnderAny(paths) /\ pc = "committing" /\ done' = done
    BY <1>7 DEF CommitWrites
  <2>3. ASSUME NEW f \in owned', Named(f, marker) PROVE Named(f, marker')
    <3>1. PICK p \in marker : f \in Below[p]
      BY <2>3
    <3>2. p \notin paths
      BY <2>2, <2>3, <3>1, UnderAnyDef
    <3>3. p \in marker'
      BY <2>1, <3>1, <3>2
    <3>4. QED
      BY <3>1, <3>3
  <2>4. job' = "init" => job = "init"
    BY <1>7 DEF CommitWrites
  <2>5. QED
    BY <2>2, <2>3, <2>4
<1>8. CASE CommitFails
  BY <1>8 DEF CommitFails
<1>9. CASE CommitNow
  BY <1>9 DEF CommitNow, ReadForCommit
<1>10. ASSUME NEW t \in timers, TimerFires(t)
       PROVE  Rest
  BY <1>10 DEF TimerFires, ReadForCommit
<1>11. CASE InitCommit
  BY <1>11 DEF InitCommit
<1>12. CASE InitReset
  BY <1>12 DEF InitReset
<1>13. CASE InitResetFails
  BY <1>13 DEF InitResetFails
<1>14. CASE Crash
  BY <1>14 DEF Crash
<1>15. CASE Start
  BY <1>15 DEF Start
<1>16. CASE Restage
  <2>1. owned' = owned \cup UnderAny(marker) /\ UNCHANGED <<marker, done, job>>
    BY <1>16 DEF Restage
  <2>2. pc # "staging" /\ job # "init"
    BY <1>16 DEF Restage, TypeInv, PhaseInv
  <2>3. ASSUME NEW f \in owned', Lost(f) PROVE f \in owned /\ ~Named(f, marker)
    BY <2>1, <2>3, UnderAnyDef
  <2>4. QED
    BY <2>1, <2>2, <2>3
<1>17. CASE RecoverBatch
  <2>1. marker' = marker \cap Differing /\ owned' = owned \cap Differing
    BY <1>17 DEF RecoverBatch, StillStaged
  <2>2. ASSUME NEW f \in owned', Lost(f), Named(f, marker) PROVE ForgetsDirectory(f)
    <3>1. PICK p \in marker : f \in Below[p]
      BY <2>2
    <3>2. p \notin marker'
      BY <2>2, <3>1
    <3>3. ASSUME p \in File PROVE FALSE
      <4>1. f = p
        BY <3>1, <3>3, PathAssumption
      <4>2. QED
        BY <2>1, <2>2, <3>1, <3>2, <4>1
    <3>4. QED
      BY <1>17, <3>1, <3>3 DEF ForgetsDirectory
  <2>3. \A f \in owned' : f \in owned
    BY <2>1
  <2>4. done' = {} /\ job' # "init"
    BY <1>17 DEF RecoverBatch, TypeInv, PhaseInv
  <2>5. QED
    BY <2>2, <2>3, <2>4
<1>18. CASE OperatorEdits \/ OperatorAdds \/ OperatorCommits
  BY <1>18 DEF OperatorEdits, OperatorAdds, OperatorCommits, OperatorActs
<1>19. CASE UNCHANGED vars
  BY <1>19 DEF vars
<1>20. QED
  BY <1>1, <1>2, <1>3, <1>4, <1>5, <1>6, <1>7, <1>8, <1>9, <1>10, <1>11, <1>12,
     <1>13, <1>14, <1>15, <1>16, <1>17, <1>18, <1>19
     DEF Next, Server, Operator

\* Where every path is a file, a recovery forgets nothing either.
LEMMA RecordedStep == FilesOnly /\ IInv /\ [Next]_vars => IInv'
<1> SUFFICES ASSUME FilesOnly, IInv, [Next]_vars
             PROVE  IInv'
  OBVIOUS
<1>1. TypeInv /\ Books
  BY DEF IInv, Books
<1>2. TypeInv'
  BY <1>1, TypeStep
<1>3. Books' /\ \A f \in Unrecorded' : f \in Unrecorded \/ ForgetsDirectory(f)
  BY <1>1, MarkersStep
<1>4. Unrecorded = {}
  BY DEF IInv, StagedWorkRecorded, Unrecorded
<1>5. marker \ File = {}
  BY <1>1 DEF FilesOnly, TypeInv, TypeOK
<1>6. Unrecorded' = {}
  BY <1>3, <1>4, <1>5 DEF ForgetsDirectory
<1>7. StagedWorkRecorded'
  BY <1>6 DEF StagedWorkRecorded, Unrecorded
<1>8. QED
  BY <1>2, <1>3, <1>7 DEF IInv, Books

\* Directories too: a file that is staged, not committed and has a marker keeps
\* one through every step of tools, timers, failures, crashes and the operator;
\* only recover_staged can drop it, and only where a directory's marker stood for it.
THEOREM OnlyDirectoriesAreForgotten ==
    Spec => [][\A f \in Unrecorded' : f \in Unrecorded \/ ForgetsDirectory(f)]_vars
<1>1. Init => Books
  BY RecordedInit DEF IInv, Books
<1>2. TypeInv /\ Books /\ [Next]_vars =>
        TypeInv' /\ Books' /\ [\A f \in Unrecorded' : f \in Unrecorded \/ ForgetsDirectory(f)]_vars
  BY TypeStep, MarkersStep
<1>3. QED
  BY TypeInit, <1>1, <1>2, PTL DEF Spec

\* Crash safety for every vault and every interleaving: at any moment each file
\* the server has staged but not committed is named by a durable marker.
THEOREM StagedWorkSurvives == FilesOnly => (Spec => []StagedWorkRecorded)
<1>1. IInv => StagedWorkRecorded
  BY DEF IInv
<1>2. ASSUME FilesOnly PROVE Spec => []StagedWorkRecorded
  <2>1. IInv /\ [Next]_vars => IInv'
    BY <1>2, RecordedStep
  <2>2. QED
    BY RecordedInit, <2>1, <1>1, PTL DEF Spec
<1>3. QED
  BY <1>2

-----------------------------------------------------------------------------

\* The tree about to be committed is the parent outside the batch.
BatchInv ==
    pc = "committing" =>
      /\ parent \in Tree
      /\ \A f \in File \ UnderAny(paths) : snap[f] = parent[f]

\* While a commit is under way, only its end or a crash releases the mutex.
LEMMA CommittingEnds ==
    ASSUME [Next]_vars, pc = "committing", pc' # pc
    PROVE  CommitWrites \/ CommitFails \/ Crash
<1>1. ~(\E e \in Events : Mutate(e))
  BY DEF Mutate
<1>2. ~(\E t \in timers : TimerFires(t))
  BY DEF TimerFires
<1>3. ~Operator
  BY DEF Operator, OperatorEdits, OperatorAdds, OperatorCommits, OperatorActs
<1>4. /\ ~StageBegin /\ ~StagePath /\ ~StagePathFails /\ ~StageFinish
      /\ ~StageFinishFails /\ ~CommitNow /\ ~InitCommit /\ ~InitReset
      /\ ~InitResetFails /\ ~Start /\ ~Restage /\ ~RecoverBatch
  BY DEF StageBegin, StagePath, StagePathFails, StageFinish, StageFinishFails, CommitNow,
     InitCommit, InitReset, InitResetFails, Start, Restage, RecoverBatch
<1>5. vars' # vars
  BY DEF vars
<1>6. QED
  BY <1>1, <1>2, <1>3, <1>4, <1>5 DEF Next, Server

\* Reading for a commit overlays the batch's files on HEAD's tree.
LEMMA ReadGivesBatch ==
    ASSUME TypeInv, ReadForCommit, pc = "idle", UNCHANGED paths
    PROVE  BatchInv'
<1>1. CASE paths = {} \/ head = Unborn
  BY <1>1 DEF ReadForCommit, OwnedTree, BatchInv
<1>2. CASE ~(paths = {} \/ head = Unborn)
  <2>1. head \in Tree
    BY <1>2 DEF TypeInv, TypeOK
  <2>2. parent' = head /\ snap' = Overlay(head, index, paths)
    BY <1>2 DEF ReadForCommit, OwnedTree
  <2>3. \A f \in File \ UnderAny(paths) : snap'[f] = parent'[f]
    BY <2>2 DEF Overlay
  <2>4. QED
    BY <2>1, <2>2, <2>3 DEF BatchInv, UnderAny
<1>3. QED
  BY <1>1, <1>2

\* A prepared commit stays within its paths, whatever else happens.
LEMMA BatchStep == TypeInv /\ BatchInv /\ [Next]_vars => BatchInv'
<1> SUFFICES ASSUME TypeInv, BatchInv, [Next]_vars, pc' = "committing"
             PROVE  BatchInv'
  BY DEF BatchInv
<1>1. CASE pc = "committing"
  <2>1. UNCHANGED <<paths, parent, snap>>
    BY <1>1 DEF Next, Server, Operator, vars, history, disk, Mutate, StageBegin, StagePath,
       StagePathFails, StageFinish, StageFinishFails, CommitWrites, CommitFails, CommitNow,
       TimerFires, InitCommit, InitReset, InitResetFails, Crash, Start, Restage,
       RecoverBatch, OperatorEdits, OperatorAdds, OperatorCommits, OperatorActs
  <2>2. QED
    BY <1>1, <2>1 DEF BatchInv, UnderAny
<1>2. CASE pc # "committing"
  <2>1. ASSUME NEW t \in timers, TimerFires(t)
        PROVE  BatchInv'
    <3>1. pc = "idle" /\ UNCHANGED paths /\ (ReadForCommit \/ UNCHANGED pc)
      BY <2>1 DEF TimerFires
    <3>2. QED
      BY <3>1, <1>2, ReadGivesBatch
  <2>2. CASE CommitNow
    BY <2>2, ReadGivesBatch DEF CommitNow
  <2>3. CASE RecoverBatch
    <3>1. head \in Tree
      BY <2>3 DEF RecoverBatch, OwnedTree, TypeInv, TypeOK
    <3>2. /\ parent' = head /\ paths' = StillStaged(marker)
          /\ snap' = Overlay(head, index, StillStaged(marker))
      BY <2>3 DEF RecoverBatch, OwnedTree
    <3>3. \A f \in File \ UnderAny(StillStaged(marker)) : snap'[f] = parent'[f]
      BY <3>2 DEF Overlay
    <3>4. UnderAny(paths)' = UnderAny(StillStaged(marker))
      BY <3>2 DEF UnderAny
    <3>5. QED
      BY <3>1, <3>2, <3>3, <3>4 DEF BatchInv
  <2>4. (\E t \in timers : TimerFires(t)) \/ CommitNow \/ RecoverBatch
    BY <1>2 DEF Next, Server, Operator, vars, history, disk, Mutate, StageBegin, StagePath,
       StagePathFails, StageFinish, StageFinishFails, CommitWrites, CommitFails,
       InitCommit, InitReset, InitResetFails, Crash, Start, Restage,
       OperatorEdits, OperatorAdds, OperatorCommits, OperatorActs
  <2>5. QED
    BY <2>1, <2>2, <2>3, <2>4
<1>3. QED
  BY <1>1, <1>2

\* A commit of the server changes only the files under its batch's paths, for
\* every interleaving with tools, timers and the operator's own git commands.
THEOREM CommitIsScoped == Spec => CommitTouchesOwnedOnly
<1>1. Init => BatchInv
  BY DEF Init, BatchInv
<1>2. ASSUME BatchInv, [Next]_vars, pc = "committing", head' # head, pc' # pc
      PROVE  \A f \in File \ UnderAny(paths) : head'[f] = head[f]
  <2>1. CommitWrites
    BY <1>2, CommittingEnds DEF CommitFails, Crash, disk
  <2>2. QED
    BY <1>2, <2>1 DEF CommitWrites, TipUnmoved, BatchInv
<1>3. BatchInv /\ [Next]_vars =>
        [(pc = "committing" /\ head' # head /\ index' = index /\ pc' # pc)
           => \A f \in File \ UnderAny(paths) : head'[f] = head[f]]_vars
  BY <1>2
<1>4. QED
  BY TypeInit, TypeStep, <1>1, BatchStep, <1>3, PTL DEF Spec, CommitTouchesOwnedOnly

-----------------------------------------------------------------------------

\* Unless initialise restarted the count, generations and events keep pace.
PaceInv == ~rebased => gen = stages /\ \A t \in timers : t.at = t.gen

\* No step but the reset lets generations and events drift apart.
LEMMA PaceStep == TypeInv /\ PaceInv /\ [Next]_vars => PaceInv'
<1> SUFFICES ASSUME TypeInv, PaceInv, [Next]_vars, ~rebased'
             PROVE  gen' = stages' /\ \A t \in timers' : t.at = t.gen
  BY DEF PaceInv
<1>1. CASE StageFinish
  <2>1. ~rebased
    BY <1>1 DEF StageFinish
  <2>2. gen = stages /\ \A t \in timers : t.at = t.gen
    BY <2>1 DEF PaceInv
  <2>3. /\ gen' = gen + 1 /\ stages' = stages + 1
        /\ timers' = timers \cup {[gen |-> gen + 1, at |-> stages + 1]}
    BY <1>1 DEF StageFinish, Arm
  <2>4. QED
    BY <2>2, <2>3
<1>2. CASE Crash
  BY <1>2 DEF Crash, GenAfterRestart
<1>3. CASE ~StageFinish /\ ~Crash
  <2>1. ~InitReset
    BY DEF InitReset
  <2>2. UNCHANGED <<gen, stages, rebased>> /\ timers' \subseteq timers
    BY <1>3, <2>1 DEF Next, Server, Operator, vars, history, disk, Mutate, StageBegin, StagePath,
       StagePathFails, StageFinishFails, CommitWrites, CommitFails, CommitNow,
       TimerFires, InitCommit, InitResetFails, Start, Restage,
       RecoverBatch, OperatorEdits, OperatorAdds, OperatorCommits, OperatorActs
  <2>3. ~rebased
    BY <2>2
  <2>4. QED
    BY <2>2, <2>3 DEF PaceInv
<1>4. QED
  BY <1>1, <1>2, <1>3

\* A debounce timer commits only when no event was staged after it was armed,
\* whatever the number of events, sleeping timers and commits between them.
THEOREM DebounceIsQuiet == Spec => QuietPeriod
<1>1. Init => PaceInv
  BY DEF Init, PaceInv
<1>2. ASSUME PaceInv, [Next]_vars, NEW t \in timers \ timers',
             pc' = "committing", ~rebased
      PROVE  t.at = stages
  <2>1. ~Crash
    BY <1>2 DEF Crash
  <2>2. \E u \in timers : TimerFires(u)
    BY <1>2, <2>1 DEF Next, Server, Operator, vars, history, disk, Mutate, StageBegin, StagePath,
       StagePathFails, StageFinish, StageFinishFails, CommitWrites, CommitFails, CommitNow,
       InitCommit, InitReset, InitResetFails, Start, Restage, Arm,
       RecoverBatch, OperatorEdits, OperatorAdds, OperatorCommits, OperatorActs
  <2>3. TimerFires(t)
    BY <1>2, <2>2 DEF TimerFires
  <2>4. t.gen = gen
    BY <1>2, <2>3 DEF TimerFires, SameGeneration
  <2>5. QED
    BY <1>2, <2>4 DEF PaceInv
<1>3. PaceInv /\ [Next]_vars =>
        [\A t \in timers \ timers' :
           (pc' = "committing" /\ ~rebased) => t.at = stages]_vars
  BY <1>2
<1>4. QED
  BY TypeInit, TypeStep, <1>1, PaceStep, <1>3, PTL DEF Spec, QuietPeriod

-----------------------------------------------------------------------------

\* A recovery runs to its commit, and commits every marked file.
RecoverInv ==
    job = "recover" =>
      /\ pc \in {"restaging", "diffing", "committing"}
      /\ pc = "committing" => marker = paths

\* A recovery only goes forward, and commits with every marker in its batch.
LEMMA RecoverStep == FilesOnly /\ IInv /\ RecoverInv /\ [Next]_vars => RecoverInv'
<1> SUFFICES ASSUME FilesOnly, IInv, RecoverInv, [Next]_vars, job' = "recover"
             PROVE  /\ pc' \in {"restaging", "diffing", "committing"}
                    /\ pc' = "committing" => marker' = paths'
  BY DEF RecoverInv
<1>1. CASE Start
  BY <1>1 DEF Start, IInv, TypeInv, TypeOK, Jobs, PhaseInv, RecoverInv
<1>2. CASE Restage
  BY <1>2 DEF Restage
<1>3. CASE RecoverBatch
  BY <1>3 DEF RecoverBatch
<1>4. CASE ~Start /\ ~Restage /\ ~RecoverBatch
  <2>1. ASSUME NEW e \in Events, Mutate(e) PROVE FALSE
    BY <2>1, EventsShape DEF Mutate
  <2>2. job = "recover"
    BY <1>4, <2>1 DEF Next, Server, Operator, vars, history, disk, StageBegin, StagePath,
       StagePathFails, StageFinish, StageFinishFails, CommitWrites, CommitFails, CommitNow,
       TimerFires, InitCommit, InitReset, InitResetFails, Crash,
       OperatorEdits, OperatorAdds, OperatorCommits, OperatorActs
  <2>3. pc \in {"restaging", "diffing", "committing"}
    BY <2>2 DEF RecoverInv
  <2>4. UNCHANGED <<pc, marker, paths>>
    BY <1>4, <2>1, <2>2, <2>3
       DEF Next, Server, Operator, vars, history, disk, StageBegin, StagePath,
       StagePathFails, StageFinish, StageFinishFails, CommitWrites, CommitFails, CommitNow,
       TimerFires, InitCommit, InitReset, InitResetFails, Crash,
       OperatorEdits, OperatorAdds, OperatorCommits, OperatorActs
  <2>5. QED
    BY <2>2, <2>3, <2>4 DEF RecoverInv
<1>5. QED
  BY <1>1, <1>2, <1>3, <1>4

\* When recover_staged returns to a running server, every file an earlier
\* process staged is committed, as long as events name files.
THEOREM RecoveryFinishes == FilesOnly => (Spec => RecoveryComplete)
<1>1. Init => RecoverInv
  BY DEF Init, RecoverInv
<1>2. ASSUME IInv, RecoverInv, FilesOnly, [Next]_vars, job = "recover", pc' = "idle"
      PROVE  owned' = {}
  <2>1. owned \subseteq UnderAny(marker)
    BY <1>2 DEF IInv, StagedWorkRecorded
  <2>2. pc \in {"restaging", "diffing", "committing"}
    BY <1>2 DEF RecoverInv
  <2>3. ASSUME NEW e \in Events, Mutate(e) PROVE FALSE
    BY <2>3, <1>2 DEF Mutate
  <2>4. CommitWrites \/ RecoverBatch
    BY <1>2, <2>2, <2>3
       DEF Next, Server, Operator, vars, history, disk, StageBegin, StagePath,
       StagePathFails, StageFinish, StageFinishFails, CommitFails, CommitNow,
       TimerFires, InitCommit, InitReset, InitResetFails, Crash, Start, Restage,
       OperatorEdits, OperatorAdds, OperatorCommits, OperatorActs
  <2>5. CASE CommitWrites
    <3>1. pc = "committing" /\ owned' = owned \ UnderAny(paths)
      BY <2>5 DEF CommitWrites
    <3>2. marker = paths
      BY <1>2, <3>1 DEF RecoverInv
    <3>3. QED
      BY <2>1, <3>1, <3>2
  <2>6. CASE RecoverBatch
    <3>1. StillStaged(marker) = {} /\ owned' = owned \cap Differing
      BY <1>2, <2>6 DEF RecoverBatch
    <3>2. ASSUME NEW f \in owned PROVE f \in marker
      <4>1. PICK p \in marker : f \in Below[p]
        BY <2>1, UnderAnyDef
      <4>2. p \in File
        BY <1>2 DEF FilesOnly, IInv, TypeInv, TypeOK
      <4>3. QED
        BY <4>1, <4>2, PathAssumption
    <3>3. QED
      BY <3>1, <3>2 DEF StillStaged
  <2>7. QED
    BY <2>4, <2>5, <2>6
<1>3. ASSUME FilesOnly PROVE Spec => RecoveryComplete
  <2>1. IInv /\ [Next]_vars => IInv'
    BY <1>3, RecordedStep
  <2>2. IInv /\ RecoverInv /\ [Next]_vars => RecoverInv'
    BY <1>3, RecoverStep
  <2>3. IInv /\ RecoverInv /\ [Next]_vars =>
          [(job = "recover" /\ pc' = "idle") => owned' = {}]_vars
    BY <1>2, <1>3
  <2>4. QED
    BY RecordedInit, <2>1, <1>1, <2>2, <2>3, PTL DEF Spec, RecoveryComplete
<1>4. QED
  BY <1>3

-----------------------------------------------------------------------------
(* GitVault implements VaultHistory.                                        *)

\* Whatever the running server has staged is in its batch: a stage fills the
\* batch before the index, and a recovery takes over what the markers name.
CoverInv ==
    /\ done \subseteq paths
    /\ pc \in {"idle", "staging", "committing"} => owned \subseteq UnderAny(paths)

\* No step leaves a staged file out of the batch.
LEMMA CoverStep == FilesOnly /\ IInv /\ CoverInv /\ [Next]_vars => CoverInv'
<1> SUFFICES ASSUME FilesOnly, IInv, CoverInv, [Next]_vars
             PROVE  CoverInv'
  OBVIOUS
<1> DEFINE Covered(fs, ps) == \A f \in fs : \E p \in ps : f \in Below[p]
<1> DEFINE Rest == /\ done' \subseteq paths'
                   /\ pc' \in {"idle", "staging", "committing"} => Covered(owned', paths')
<1>a. /\ done \subseteq paths
      /\ pc \in {"idle", "staging", "committing"} => Covered(owned, paths)
  BY UnderAnyDef DEF CoverInv
<1>b. Covered(owned, marker)
  BY UnderAnyDef DEF IInv, StagedWorkRecorded
<1>c. SUFFICES Rest
  <2>1. ASSUME Rest PROVE CoverInv'
    BY <2>1 DEF CoverInv, UnderAny
  <2>2. QED
    BY <2>1
<1> USE <1>a, <1>b DEF disk, history
<1>1. CASE UNCHANGED <<paths, owned, done, pc>>
  BY <1>1
<1>2. CASE StageBegin \/ StageFinishFails \/ CommitFails
  BY <1>2 DEF StageBegin, StageFinishFails, CommitFails, IInv, OnlyStagingStages
<1>3. CASE StagePath
  BY <1>3 DEF StagePath
<1>4. CASE StagePathFails
  BY <1>4 DEF StagePathFails
<1>5. CASE StageFinish
  <2>1. owned' = owned \cup UnderAny(done) /\ UNCHANGED paths /\ done' = {} /\ pc = "staging"
    BY <1>5 DEF StageFinish
  <2>2. Covered(owned', paths')
    BY <2>1, UnderAnyDef
  <2>3. QED
    BY <2>1, <2>2
<1>6. CASE CommitWrites
  <2>1. /\ pc = "committing" /\ paths' = {} /\ done' = done
        /\ owned' = owned \ UnderAny(paths)
    BY <1>6 DEF CommitWrites
  <2>2. owned' = {} /\ done' = {}
    BY <2>1, UnderAnyDef DEF IInv, OnlyStagingStages
  <2>3. QED
    BY <2>2
<1>7. ASSUME NEW t \in timers, TimerFires(t)
      PROVE  Rest
  BY <1>7 DEF TimerFires, ReadForCommit
<1>8. CASE CommitNow
  BY <1>8 DEF CommitNow, ReadForCommit
<1>9. CASE InitCommit \/ InitReset \/ InitResetFails
  BY <1>9 DEF InitCommit, InitReset, InitResetFails, IInv, InitOwnsNothing, OnlyStagingStages
<1>10. CASE Crash
  BY <1>10 DEF Crash
<1>11. CASE Start
  BY <1>11 DEF Start
<1>12. CASE Restage
  BY <1>12 DEF Restage
<1>13. CASE RecoverBatch
  <2>1. /\ paths' = marker \cap Differing /\ owned' = owned \cap Differing /\ done' = {}
    BY <1>13 DEF RecoverBatch, StillStaged, IInv, OnlyStagingStages
  <2>2. ASSUME NEW f \in owned' PROVE f \in paths' /\ f \in Below[f]
    <3>1. PICK p \in marker : f \in Below[p]
      BY <2>1
    <3>2. p \in File
      BY DEF FilesOnly, IInv, TypeInv, TypeOK
    <3>3. Below[p] = {p}
      BY <3>2, PathAssumption
    <3>4. QED
      BY <2>1, <3>1, <3>3
  <2>3. QED
    BY <2>1, <2>2
<1>14. ASSUME NEW e \in Events, Mutate(e)
       PROVE  Rest
  BY <1>14 DEF Mutate
<1>15. CASE OperatorEdits \/ OperatorAdds \/ OperatorCommits
  BY <1>15 DEF OperatorEdits, OperatorAdds, OperatorCommits, OperatorActs
<1>16. CASE UNCHANGED vars
  BY <1>16 DEF vars
<1>17. QED
  BY <1>2, <1>3, <1>4, <1>5, <1>6, <1>7, <1>8, <1>9, <1>10, <1>11, <1>12, <1>13, <1>14,
     <1>15, <1>16 DEF Next, Server, Operator

HistoryInv == IInv /\ BatchInv /\ CoverInv

\* What a commit takes is a tree, before and after a step.
LEMMA StagingIsTree == HistoryInv' => Staging' \in Tree
<1> SUFFICES ASSUME HistoryInv' PROVE Staging' \in Tree
  OBVIOUS
<1>1. index' \in Tree /\ (pc' \in {"committing", "diffing"} => snap' \in Tree)
  BY DEF HistoryInv, IInv, TypeInv, TypeOK, PhaseInv
<1>2. pc' = "committing" => Overlay(index', snap', paths') \in Tree
  BY <1>1, OverlayIsTree
<1>3. QED
  BY <1>1, <1>2 DEF Staging, Overlay, UnderAny

\* A step that only adds to the batch and to what waits is a Stage.
LEMMA GrowsIsStage ==
    ASSUME HistoryInv', paths \subseteq paths', owned \subseteq owned',
           UNCHANGED <<head, acts>>
    PROVE  History!Next
<1>1. UnderAny(paths) \subseteq UnderAny(paths)'
  BY UnderAnyMonotone DEF UnderAny
<1>2. QED
  BY <1>1, StagingIsTree DEF History!Next, History!Stage, History!Tree, Tree

\* A step that only takes names from the batch is a Restart.
LEMMA ShrinksIsRestart ==
    ASSUME HistoryInv', paths' \subseteq paths, UNCHANGED <<head, owned, acts>>
    PROVE  History!Next
<1>1. UnderAny(paths)' \subseteq UnderAny(paths)
  BY UnderAnyMonotone DEF UnderAny
<1>2. QED
  BY <1>1, StagingIsTree DEF History!Next, History!Restart, History!Tree, Tree

\* commit_pending's commit is VaultHistory's: the whole batch, as staged, on the
\* tree HEAD has when it moves, and nothing waits any more.
LEMMA CommitIsCommit ==
    ASSUME HistoryInv, HistoryInv', CommitWrites
    PROVE  History!Next
<1> DEFINE batch == UnderAny(paths)
<1>1. /\ pc = "committing" /\ head = parent /\ head' = snap /\ acts' = acts
      /\ owned' = owned \ batch /\ paths' = {}
  BY DEF CommitWrites, TipUnmoved
<1>2. owned \subseteq batch /\ owned' = {}
  BY <1>1 DEF HistoryInv, CoverInv
<1>3. head \in Tree /\ snap \in Tree /\ \A f \in File \ batch : snap[f] = head[f]
  BY <1>1 DEF HistoryInv, BatchInv, IInv, TypeInv, PhaseInv
<1>4. \A f \in batch : f \in File /\ Staging[f] = snap[f]
  <2>1. batch \subseteq File
    BY UnderAnyFiles DEF HistoryInv, IInv, TypeInv, TypeOK
  <2>2. Staging = Overlay(index, snap, paths)
    BY <1>1 DEF Staging
  <2>3. QED
    BY <2>1, <2>2 DEF Overlay
<1>5. head' = [f \in File |-> IF f \in batch THEN Staging[f] ELSE head[f]]
  <2>1. snap = [f \in File |-> snap[f]]
    BY <1>3 DEF Tree
  <2>2. QED
    BY <1>1, <1>3, <1>4, <2>1
<1>6. UnderAny(paths)' = {}
  BY <1>1 DEF UnderAny
<1>7. head # Unborn
  BY <1>3, NotATree
<1>8. History!Commit
  BY <1>1, <1>2, <1>5, <1>6, <1>7 DEF History!Commit
<1>9. QED
  BY <1>8, StagingIsTree DEF History!Next, History!Tree, Tree

\* recover_staged's batch is VaultHistory's: it gives up only what HEAD has.
LEMMA RecoverIsRecover ==
    ASSUME FilesOnly, HistoryInv, HistoryInv', RecoverBatch
    PROVE  History!Next
<1>1. /\ pc = "diffing" /\ head # Unborn /\ head' = head /\ acts' = acts
      /\ owned' = owned \cap Differing /\ paths' = marker \cap Differing
  BY DEF RecoverBatch, StillStaged
<1>2. Staging = snap /\ owned \subseteq File
  BY <1>1 DEF Staging, HistoryInv, IInv, TypeInv, TypeOK
<1>3. owned' = {f \in owned : Staging[f] # head[f]}
  BY <1>1, <1>2 DEF Differing
<1>4. owned' \subseteq UnderAny(paths)'
  <2>1. ASSUME NEW f \in owned' PROVE f \in paths' /\ f \in Below[f]
    <3>1. PICK p \in marker : f \in Below[p]
      BY <1>1, <2>1, UnderAnyDef DEF HistoryInv, IInv, StagedWorkRecorded
    <3>2. p \in File
      BY DEF FilesOnly, HistoryInv, IInv, TypeInv, TypeOK
    <3>3. Below[p] = {p}
      BY <3>2, PathAssumption
    <3>4. QED
      BY <1>1, <2>1, <3>1, <3>3
  <2>2. QED
    BY <2>1 DEF UnderAny
<1>5. History!Recover
  BY <1>1, <1>3, <1>4 DEF History!Recover
<1>6. QED
  BY <1>5, StagingIsTree DEF History!Next, History!Tree, Tree

\* A commit of the whole working tree is VaultHistory's first commit.
LEMMA InitIsInitialise ==
    ASSUME HistoryInv', head = Unborn, head' \in Tree, owned' = {}, acts' = acts,
           paths' = paths
    PROVE  History!Next
<1>1. UnderAny(paths)' = UnderAny(paths)
  BY DEF UnderAny
<1>2. QED
  BY <1>1, StagingIsTree DEF History!Next, History!Initialise, History!Tree, Tree

\* Every step of the vault is a step of VaultHistory or none.
LEMMA StepIsHistory ==
    ASSUME FilesOnly, HistoryInv, HistoryInv', [Next]_vars
    PROVE  [History!Next]_(History!vars)
<1> USE DEF disk, history
<1>1. CASE UNCHANGED <<head, paths, owned, acts>>
  BY <1>1, GrowsIsStage
<1>2. CASE StagePath \/ StagePathFails
  <2>1. paths \subseteq paths' /\ UNCHANGED <<head, owned, acts>>
    BY <1>2 DEF StagePath, StagePathFails
  <2>2. QED
    BY <2>1, GrowsIsStage
<1>3. CASE StageFinish \/ Restage
  <2>1. owned \subseteq owned' /\ UNCHANGED <<head, paths, acts>>
    BY <1>3 DEF StageFinish, Restage
  <2>2. QED
    BY <2>1, GrowsIsStage
<1>4. CASE InitReset \/ InitResetFails \/ Crash \/ CommitFails
  <2>1. paths' \subseteq paths /\ UNCHANGED <<head, owned, acts>>
    BY <1>4 DEF InitReset, InitResetFails, Crash, CommitFails
  <2>2. QED
    BY <2>1, ShrinksIsRestart
<1>5. CASE InitCommit
  BY <1>5, InitIsInitialise DEF InitCommit, HistoryInv, IInv, TypeInv, TypeOK
<1>6. CASE Start
  <2>1. CASE head = Unborn
    <3>1. head' = work /\ owned' = {} /\ UNCHANGED <<paths, acts>>
      BY <1>6, <2>1 DEF Start
    <3>2. work \in Tree
      BY DEF HistoryInv, IInv, TypeInv, TypeOK
    <3>3. QED
      BY <2>1, <3>1, <3>2, InitIsInitialise
  <2>2. CASE head # Unborn
    <3>1. UNCHANGED <<head, paths, owned, acts>>
      BY <1>6, <2>2 DEF Start
    <3>2. QED
      BY <3>1, GrowsIsStage
  <2>3. QED
    BY <2>1, <2>2
<1>7. CASE CommitWrites
  BY <1>7, CommitIsCommit
<1>8. CASE RecoverBatch
  BY <1>8, RecoverIsRecover
<1>9. CASE Operator
  <2>1. /\ acts' = acts + 1 /\ head' \in Tree \cup {head}
        /\ UNCHANGED <<paths, owned>>
    BY <1>9 DEF Operator, OperatorEdits, OperatorAdds, OperatorCommits, OperatorActs,
       HistoryInv, IInv, TypeInv, TypeOK
  <2>2. UnderAny(paths)' = UnderAny(paths)
    BY <2>1 DEF UnderAny
  <2>3. QED
    BY <2>1, <2>2, StagingIsTree
       DEF History!Next, History!OperatorActs, History!Tree, Tree
<1>10. CASE \/ StageBegin \/ StageFinishFails \/ CommitNow
            \/ (\E t \in timers : TimerFires(t)) \/ (\E e \in Events : Mutate(e))
  <2>1. UNCHANGED <<head, paths, owned, acts>>
    BY <1>10 DEF StageBegin, StageFinishFails, CommitNow, TimerFires, Mutate
  <2>2. QED
    BY <2>1, <1>1
<1>11. CASE UNCHANGED vars
  BY <1>1, <1>11 DEF vars
<1>12. QED
  BY <1>2, <1>3, <1>4, <1>5, <1>6, <1>7, <1>8, <1>9, <1>10, <1>11 DEF Next, Server

\* At the start the vault's history is VaultHistory's.
LEMMA InitIsHistory == Init => History!Init
<1> SUFFICES ASSUME Init PROVE History!Init
  OBVIOUS
<1>1. Staging = Nothing
  BY DEF Init, Staging
<1>2. UnderAny(paths) = {}
  BY DEF Init, UnderAny
<1>3. QED
  BY <1>1, <1>2 DEF Init, History!Init, Nothing

\* Tools, timers, failures, crashes, recoveries and the operator make a history
\* that VaultHistory allows, as long as events name files.
THEOREM VaultImplementsHistory == FilesOnly => (Spec => ImplementsVaultHistory)
<1>1. SUFFICES ASSUME FilesOnly PROVE Spec => ImplementsVaultHistory
  OBVIOUS
<1>2. Init => HistoryInv
  <2>1. Init => BatchInv /\ CoverInv
    BY DEF Init, BatchInv, CoverInv
  <2>2. QED
    BY <2>1, RecordedInit DEF HistoryInv
<1>3. HistoryInv /\ [Next]_vars => HistoryInv'
  BY <1>1, RecordedStep, BatchStep, CoverStep DEF HistoryInv, IInv
<1>4. HistoryInv /\ HistoryInv' /\ [Next]_vars => [History!Next]_(History!vars)
  BY <1>1, StepIsHistory
<1>5. QED
  BY <1>2, <1>3, <1>4, InitIsHistory, PTL DEF Spec, ImplementsVaultHistory, History!Spec
-----------------------------------------------------------------------------
(* What git_status and git_diff say of a repository (GitInspection).        *)

Inspection == INSTANCE GitInspection

\* A path is among the changed ones where the trees have different things under it.
LEMMA ChangedAt ==
    ASSUME NEW old, NEW new, NEW p, p \in DOMAIN old \cup DOMAIN new
    PROVE  p \in Inspection!Changed(old, new) <=> Inspection!At(old, p) # Inspection!At(new, p)
  BY DEF Inspection!Changed

\* Whatever a diff to the working tree shows git_status has as staged or unstaged, and
\* what it does not list is the same in the commit, the index and the files, or is
\* ignored: for every repository whose files have a content.
THEOREM NothingGoesUnlisted ==
    ASSUME NEW repo, \A tree \in {repo.head, repo.index, repo.files} : \A p \in DOMAIN tree : tree[p] # "none"
    PROVE  Inspection!StatusAccounts(repo)
<1> DEFINE staged == Inspection!Changed(repo.head, repo.index)
           unstaged == Inspection!Changed(repo.index, repo.files) \cap DOMAIN repo.index
           untracked == {p \in DOMAIN repo.files \ DOMAIN repo.index : p \notin repo.ignored}
           at(tree, p) == Inspection!At(tree, p)
<1>1. \A tree, p : p \notin DOMAIN tree => at(tree, p) = "none"
  BY DEF Inspection!At
<1>2. \A tree \in {repo.head, repo.index, repo.files} : \A p \in DOMAIN tree : at(tree, p) # "none"
  BY DEF Inspection!At
<1>3. ASSUME NEW p \in Inspection!Diff(repo.head, Inspection!WorkTree(repo), "none")
      PROVE  p \in staged \cup unstaged
  <2>1. /\ p \in DOMAIN repo.head \cup (DOMAIN repo.files \cap DOMAIN repo.index)
        /\ at(repo.head, p) # at(Inspection!WorkTree(repo), p)
    BY <1>3 DEF Inspection!Diff, Inspection!Changed, Inspection!WorkTree
  <2>2. p \in DOMAIN repo.index => at(Inspection!WorkTree(repo), p) = at(repo.files, p)
    BY DEF Inspection!At, Inspection!WorkTree
  <2>3. p \notin DOMAIN repo.index => at(Inspection!WorkTree(repo), p) = "none"
    BY DEF Inspection!At, Inspection!WorkTree
  <2>4. CASE p \in DOMAIN repo.index
    <3>1. at(repo.head, p) # at(repo.index, p) \/ at(repo.index, p) # at(repo.files, p)
      BY <2>1, <2>2, <2>4
    <3>2. QED
      BY <2>4, <3>1, ChangedAt
  <2>5. CASE p \notin DOMAIN repo.index
    <3>1. at(repo.head, p) # at(repo.index, p) /\ p \in DOMAIN repo.head
      BY <1>1, <2>1, <2>3, <2>5
    <3>2. QED
      BY <3>1, ChangedAt
  <2>6. QED
    BY <2>4, <2>5
<1>4. ASSUME NEW p \in (DOMAIN repo.head \cup DOMAIN repo.index \cup DOMAIN repo.files) \ (staged \cup unstaged \cup untracked)
      PROVE  \/ at(repo.head, p) = at(repo.index, p) /\ at(repo.index, p) = at(repo.files, p)
             \/ p \in repo.ignored /\ p \notin DOMAIN repo.head \cup DOMAIN repo.index
  <2>1. CASE p \in DOMAIN repo.index
    <3>1. p \notin staged /\ p \notin Inspection!Changed(repo.index, repo.files)
      BY <1>4, <2>1
    <3>2. QED
      BY <2>1, <3>1, ChangedAt
  <2>2. CASE p \notin DOMAIN repo.index
    <3>1. p \notin DOMAIN repo.head
      BY <1>1, <1>2, <1>4, <2>2, ChangedAt
    <3>2. p \in DOMAIN repo.files /\ p \in repo.ignored
      BY <1>4, <2>2, <3>1
    <3>3. QED
      BY <2>2, <3>1, <3>2
  <2>3. QED
    BY <2>1, <2>2
<1>5. Inspection!Status(repo) = [staged |-> staged, unstaged |-> unstaged, untracked |-> untracked]
  BY DEF Inspection!Status
<1> HIDE DEF staged, unstaged, untracked
<1>6. QED
  BY <1>3, <1>4, <1>5 DEF Inspection!StatusAccounts
=============================================================================

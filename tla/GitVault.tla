------------------------------ MODULE GitVault ------------------------------
(***************************************************************************)
(* One vault's local Git history as contextos-git keeps it: tool mutations *)
(* land in the working tree, their events are staged (a durable marker per *)
(* path, an index entry, the in-memory batch), and a quiet-period timer, a *)
(* tool call or the shutdown flush commits the batch.  The server may      *)
(* crash at any step; the next start completes an unborn repository and    *)
(* recovers what the markers record.  The operator uses the same           *)
(* repository with the git command line at any time.                       *)
(*                                                                         *)
(* The pending mutex makes staging and committing exclude each other; the  *)
(* root lock makes tools exclude each other, but not the timers.           *)
(***************************************************************************)
EXTENDS Naturals, Sequences

CONSTANTS File,      \* files a commit can hold
          Path,      \* paths an event can name: every file, and directories
          Below,     \* Below[p]: the files at or under path p
          Content,   \* contents of a file, as far as anything here compares them
          Absent,    \* a tree has no such file
          Unborn,    \* HEAD names a branch with no commit
          Nil,       \* no snapshot is held
          MaxStage,  \* bound: events staged by one server process
          MaxCrash,  \* bound: crashes of the server
          MaxAct     \* bound: things the operator does

ASSUME PathAssumption ==
    /\ File \subseteq Path
    /\ Below \in [Path -> SUBSET File]
    /\ \A f \in File : Below[f] = {f}

ASSUME ValueAssumption ==
    /\ Absent \notin Content
    /\ MaxStage \in Nat
    /\ MaxCrash \in Nat
    /\ MaxAct \in Nat

Tree == [File -> Content \cup {Absent}]

ASSUME NotATree == Unborn \notin Tree /\ Nil \notin Tree /\ Nil # Unborn

Jobs == {"none", "write", "delete", "move", "init", "recover"}
Phases == {"down", "idle", "staging", "committing", "restaging", "diffing"}

VARIABLES head,     \* tree of the commit HEAD names, or Unborn
          index,    \* the staging area on disk
          work,     \* the working tree
          marker,   \* paths with a durable .pending file
          paths,    \* PendingBatch.paths
          gen,      \* PendingBatch.generation
          timers,   \* sleeping debounce tasks
          pc,       \* what holds the pending mutex
          job,      \* what holds the root lock
          todo,     \* paths of the event the job still has to stage
          done,     \* paths of the event it has staged in its copy of the index
          snap,     \* index read by the stage, or the tree to commit
          parent,   \* commit read as the parent
          owned,    \* history: files staged by the server and not yet committed
          stages,   \* history: events staged since the server started
          fault,    \* history: an operation has failed
          rebased,  \* history: initialise reset the generation of this process
          crashes,  \* history: crashes so far
          acts      \* history: what the operator has done so far

disk == <<head, index, work, marker>>
history == <<owned, stages, fault, rebased, crashes, acts>>
vars == <<head, index, work, marker, paths, gen, timers, pc, job, todo, done,
          snap, parent, owned, stages, fault, rebased, crashes, acts>>

Up == pc # "down"

UnderAny(ps) == UNION {Below[p] : p \in ps}

\* The tree that is `top` on the files under ps and `base` on the others.
Overlay(base, top, ps) ==
    [f \in File |-> IF f \in UnderAny(ps) THEN top[f] ELSE base[f]]

Nothing == [f \in File |-> Absent]

Exists(p) == \E f \in Below[p] : work[f] # Absent

-----------------------------------------------------------------------------
(* Tools: the mutation reaches the working tree before its event is staged. *)

\* Trees a mutation of this kind can leave behind.
Landed(kind, ps) ==
    {w \in Tree :
        /\ \A f \in File \ UnderAny({ps[i] : i \in DOMAIN ps}) : w[f] = work[f]
        /\ kind = "write"  => \A f \in Below[ps[1]] : w[f] # Absent
        /\ kind = "delete" => \A f \in Below[ps[1]] : w[f] = Absent
        /\ kind = "move"   => /\ \A f \in Below[ps[1]] : w[f] = Absent
                              /\ \E f \in Below[ps[2]] : w[f] # Absent}

Events == {[kind |-> k, names |-> <<p>>] : k \in {"write", "delete"}, p \in Path}
          \cup {[kind |-> "move", names |-> <<p, q>>] : p, q \in Path}

Mutate(e) ==
    /\ pc \in {"idle", "committing"} /\ job = "none"
    /\ stages < MaxStage
    /\ e.kind = "write" => e.names[1] \in File
    /\ e.kind = "move" =>
         /\ Exists(e.names[1])
         /\ ~Exists(e.names[2])
         /\ Below[e.names[1]] \cap Below[e.names[2]] = {}
         /\ (e.names[1] \in File) <=> (e.names[2] \in File)
    /\ e.kind = "delete" => Exists(e.names[1])
    /\ work' \in Landed(e.kind, e.names)
    /\ job' = e.kind /\ todo' = e.names
    /\ UNCHANGED <<head, index, marker, paths, gen, timers, pc, done, snap, parent,
                   history>>

-----------------------------------------------------------------------------
(* Git2Vault::stage_event, run by the job that holds the root lock.         *)

StageBegin ==
    /\ pc = "idle" /\ job \in {"write", "delete", "move"}
    /\ pc' = "staging" /\ snap' = index
    /\ UNCHANGED <<disk, paths, gen, timers, job, todo, done, parent, history>>

Removes(p) == job = "delete" \/ (job = "move" /\ ~Exists(p))

Stageable(p) == Removes(p) \/ Exists(p) \/ p \notin File

\* Mutant: the marker is never created.
MutRecord(ms, p) == ms

\* record_pending_path, before the path enters the index or the batch.
Record(ms, p) == ms \cup {p}

StagePath ==
    /\ pc = "staging" /\ todo # << >>
    /\ LET p == Head(todo) IN
         /\ Stageable(p)
         /\ marker' = Record(marker, p)
         /\ snap' = Overlay(snap, IF Removes(p) THEN Nothing ELSE work, {p})
         /\ paths' = paths \cup {p}
         /\ done' = done \cup {p}
    /\ todo' = Tail(todo)
    /\ UNCHANGED <<head, index, work, gen, timers, pc, job, parent, history>>

\* An error leaves the event: the marker may be there, the earlier paths are
\* in the batch, the index is not written and no timer is armed.
StagePathFails ==
    /\ pc = "staging" /\ todo # << >>
    /\ marker' \in {marker, Record(marker, Head(todo))}
    /\ pc' = "idle" /\ job' = "none" /\ todo' = << >> /\ done' = {} /\ snap' = Nil
    /\ fault' = TRUE
    /\ UNCHANGED <<head, index, work, paths, gen, timers, parent, owned, stages, rebased, crashes, acts>>

\* Mutant: a sleeping timer is taken to cover the new event too.
MutArm(ts, g) == IF ts = {} THEN {[gen |-> g, at |-> stages + 1]} ELSE ts

\* One more debounce task; those already asleep are left to find out that the
\* generation has moved on.
Arm(ts, g) == ts \cup {[gen |-> g, at |-> stages + 1]}

\* index.write, the generation, and VersionCollection::stage's sleeping task.
StageFinish ==
    /\ pc = "staging" /\ todo = << >>
    /\ index' = snap
    /\ gen' = gen + 1
    /\ timers' = Arm(timers, gen + 1)
    /\ owned' = owned \cup UnderAny(done)
    /\ stages' = stages + 1
    /\ pc' = "idle" /\ job' = "none" /\ done' = {} /\ snap' = Nil
    /\ UNCHANGED <<head, work, marker, paths, todo, parent, fault, rebased, crashes, acts>>

StageFinishFails ==
    /\ pc = "staging" /\ todo = << >>
    /\ pc' = "idle" /\ job' = "none" /\ done' = {} /\ snap' = Nil
    /\ fault' = TRUE
    /\ UNCHANGED <<disk, paths, gen, timers, todo, parent, owned, stages, rebased, crashes, acts>>

-----------------------------------------------------------------------------
(* Git2Vault::commit_pending, under the pending mutex.                      *)

\* Mutant: the whole staging area is committed.
MutOwnedTree(ps) == index

\* The parent's tree with the staged entries of the batch's paths alone.
OwnedTree(ps) == Overlay(head, index, ps)

\* The first half: parent commit, index and the owned tree are read.
ReadForCommit ==
    IF paths = {} \/ head = Unborn
    THEN /\ fault' = (fault \/ paths # {})
         /\ UNCHANGED <<pc, parent, snap>>
    ELSE /\ pc' = "committing" /\ parent' = head
         /\ snap' = OwnedTree(paths)
         /\ UNCHANGED fault

\* libgit2 refuses to move HEAD when its tip is no longer the given parent.
TipUnmoved == head = parent

\* Markers the commit could not remove only cost a warning.
CommitWrites ==
    /\ pc = "committing" /\ TipUnmoved
    /\ head' = snap
    /\ \E kept \in SUBSET paths :
         /\ marker' = marker \ (paths \ kept)
         /\ fault' = (fault \/ kept # {})
    /\ owned' = owned \ UnderAny(paths)
    /\ paths' = {}
    /\ pc' = "idle" /\ snap' = Nil /\ parent' = Nil
    /\ job' = IF job = "recover" THEN "none" ELSE job
    /\ UNCHANGED <<index, work, gen, timers, todo, done, stages, rebased, crashes, acts>>

\* The batch is kept, but nothing re-arms its timer.  At startup the failure
\* ends the server instead, and only the markers remember the batch.
CommitFails ==
    /\ pc = "committing"
    /\ IF job = "recover" THEN pc' = "down" /\ job' = "none" /\ paths' = {}
                          ELSE pc' = "idle" /\ UNCHANGED <<job, paths>>
    /\ snap' = Nil /\ parent' = Nil
    /\ fault' = TRUE
    /\ UNCHANGED <<disk, gen, timers, todo, done, owned, stages, rebased, crashes, acts>>

\* Mutant: every timer that wakes commits.
MutSameGeneration(t) == TRUE

SameGeneration(t) == t.gen = gen

\* commit_if_generation, when a debounce task wakes.
TimerFires(t) ==
    /\ pc = "idle" /\ t \in timers
    /\ timers' = timers \ {t}
    /\ \/ SameGeneration(t) /\ ReadForCommit
       \/ ~SameGeneration(t) /\ UNCHANGED <<pc, parent, snap, fault>>
    /\ UNCHANGED <<disk, paths, gen, job, todo, done, owned, stages, rebased, crashes, acts>>

\* git_commit and the shutdown flush.
CommitNow ==
    /\ pc = "idle" /\ ReadForCommit
    /\ UNCHANGED <<disk, paths, gen, timers, job, todo, done, owned, stages, rebased, crashes, acts>>

-----------------------------------------------------------------------------
(* Git2Vault::initialise on an unborn HEAD (the git_init tool, and startup). *)

InitCommit ==
    /\ pc = "idle" /\ job = "none" /\ head = Unborn
    /\ index' = work /\ head' = work
    /\ owned' = {}
    /\ job' = "init"
    /\ UNCHANGED <<work, marker, paths, gen, timers, pc, todo, done, snap, parent, stages,
                   fault, rebased, crashes, acts>>

InitReset ==
    /\ pc = "idle" /\ job = "init"
    /\ marker' = {} /\ paths' = {} /\ gen' = 0
    /\ job' = "none" /\ rebased' = TRUE
    /\ UNCHANGED <<head, index, work, timers, pc, todo, done, snap, parent, owned, stages,
                   fault, crashes, acts>>

InitResetFails ==
    /\ pc = "idle" /\ job = "init"
    /\ marker' \in SUBSET marker
    /\ job' = "none" /\ fault' = TRUE
    /\ UNCHANGED <<head, index, work, paths, gen, timers, pc, todo, done, snap, parent,
                   owned, stages, rebased, crashes, acts>>

-----------------------------------------------------------------------------
(* A crash, and recover_staged at the next start.                           *)

\* Mutant: the generation outlives the process that counted it.
MutGenAfterRestart == gen

GenAfterRestart == 0

Crash ==
    /\ Up /\ crashes < MaxCrash
    /\ crashes' = crashes + 1
    /\ paths' = {} /\ gen' = GenAfterRestart /\ timers' = {} /\ stages' = 0
    /\ pc' = "down" /\ job' = "none" /\ todo' = << >> /\ done' = {}
    /\ snap' = Nil /\ parent' = Nil /\ rebased' = FALSE
    /\ UNCHANGED <<disk, owned, fault, acts>>

\* initialise first; then recover_staged reads the markers and the index.
Start ==
    /\ pc = "down"
    /\ \/ /\ head = Unborn
          /\ head' = work /\ index' = work /\ marker' = {} /\ owned' = {}
          /\ pc' = "idle" /\ UNCHANGED <<job, snap>>
       \/ /\ head # Unborn
          /\ IF marker = {} THEN pc' = "idle" /\ UNCHANGED <<job, snap>>
                            ELSE pc' = "restaging" /\ job' = "recover" /\ snap' = index
          /\ UNCHANGED <<head, index, marker, owned>>
    /\ UNCHANGED <<work, paths, gen, timers, todo, done, parent, stages, fault, rebased, crashes, acts>>

Restage ==
    /\ pc = "restaging"
    /\ index' = Overlay(snap, work, marker)
    /\ owned' = owned \cup UnderAny(marker)
    /\ pc' = "diffing" /\ snap' = index'
    /\ UNCHANGED <<head, work, marker, paths, gen, timers, job, todo, done, parent, stages,
                   fault, rebased, crashes, acts>>

\* Files whose staged entry differs from HEAD: the diff names files alone.
Differing == {f \in File : snap[f] # head[f]}

\* Mutant: the stale markers are kept and the live ones removed.
MutStillStaged(ms) == ms \ Differing

StillStaged(ms) == ms \cap Differing

\* Markers of paths with nothing to commit are stale and are removed.
RecoverBatch ==
    /\ pc = "diffing" /\ head # Unborn
    /\ marker' = StillStaged(marker) /\ paths' = StillStaged(marker)
    /\ owned' = owned \cap Differing
    /\ IF StillStaged(marker) = {}
       THEN pc' = "idle" /\ job' = "none" /\ snap' = Nil /\ UNCHANGED parent
       ELSE /\ pc' = "committing" /\ parent' = head /\ UNCHANGED job
            /\ snap' = OwnedTree(StillStaged(marker))
    /\ UNCHANGED <<head, index, work, gen, timers, todo, done, stages, fault, rebased, crashes, acts>>

-----------------------------------------------------------------------------
(* The operator, at the command line and in an editor.                      *)

OperatorActs ==
    /\ acts < MaxAct /\ acts' = acts + 1
    /\ UNCHANGED <<marker, paths, gen, timers, pc, job, todo, done, snap, parent, owned,
                   stages, fault, rebased, crashes>>

OperatorEdits ==
    /\ OperatorActs
    /\ \E f \in File, c \in Content \cup {Absent} :
         work[f] # c /\ work' = [work EXCEPT ![f] = c]
    /\ UNCHANGED <<head, index>>

OperatorAdds ==
    /\ OperatorActs
    /\ \E f \in File :
         index[f] # work[f] /\ index' = [index EXCEPT ![f] = work[f]]
    /\ UNCHANGED <<head, work>>

OperatorCommits ==
    /\ OperatorActs
    /\ head # index /\ head' = index
    /\ UNCHANGED <<index, work>>

-----------------------------------------------------------------------------

\* The repository is new, with one empty commit or none.  The operator may
\* have created it while the server was already running.
Init ==
    /\ work = Nothing /\ index = Nothing
    /\ head \in {Nothing, Unborn}
    /\ marker = {} /\ paths = {} /\ gen = 0 /\ timers = {}
    /\ pc \in {"down", "idle"} /\ job = "none" /\ todo = << >> /\ done = {}
    /\ snap = Nil /\ parent = Nil
    /\ owned = {} /\ stages = 0 /\ fault = FALSE
    /\ rebased = FALSE /\ crashes = 0 /\ acts = 0

Server ==
    \/ StageBegin \/ StagePath \/ StagePathFails \/ StageFinish \/ StageFinishFails
    \/ CommitWrites \/ CommitFails \/ CommitNow
    \/ \E t \in timers : TimerFires(t)
    \/ InitCommit \/ InitReset \/ InitResetFails
    \/ Start \/ Restage \/ RecoverBatch

Operator == OperatorEdits \/ OperatorAdds \/ OperatorCommits

Next ==
    \/ \E e \in Events : Mutate(e)
    \/ Server
    \/ Crash
    \/ Operator

\* Tokio runs a spawned sleep to its end, a stage and a commit are straight
\* code under a mutex, and a service manager restarts the server.
Fairness ==
    /\ WF_vars(StageBegin)
    /\ WF_vars(StagePath \/ StagePathFails)
    /\ WF_vars(StageFinish \/ StageFinishFails)
    /\ WF_vars(CommitWrites \/ CommitFails)
    /\ WF_vars(\E t \in timers : TimerFires(t))
    /\ WF_vars(InitReset \/ InitResetFails)
    /\ WF_vars(Start) /\ WF_vars(Restage) /\ WF_vars(RecoverBatch)

Spec == Init /\ [][Next]_vars
FairSpec == Spec /\ Fairness

-----------------------------------------------------------------------------
(* Properties.                                                              *)

\* Each variable keeps its type; the generation of a process never runs ahead
\* of the events it staged.
TypeOK ==
    /\ head \in Tree \cup {Unborn} /\ index \in Tree /\ work \in Tree
    /\ marker \in SUBSET Path /\ paths \in SUBSET Path
    /\ gen \in 0..stages
    /\ timers \in SUBSET [gen : 1..MaxStage, at : 1..MaxStage]
    /\ pc \in Phases /\ job \in Jobs
    /\ todo \in Seq(Path) /\ done \in SUBSET Path
    /\ snap \in Tree \cup {Nil} /\ parent \in Tree \cup {Nil}
    /\ owned \in SUBSET File
    /\ stages \in 0..MaxStage
    /\ fault \in BOOLEAN /\ rebased \in BOOLEAN /\ crashes \in 0..MaxCrash
    /\ acts \in 0..MaxAct

\* Crash safety: whatever the server has staged and not committed, a durable
\* marker still names, so that recover_staged can find it at the next start.
StagedWorkRecorded == owned \subseteq UnderAny(marker)

\* commit: only files under the batch's paths change in HEAD, so neither the
\* operator's staging nor a commit the operator made meanwhile is touched.
CommitTouchesOwnedOnly ==
    [][(pc = "committing" /\ head' # head /\ index' = index /\ pc' # pc)
         => \A f \in File \ UnderAny(paths) : head'[f] = head[f]]_vars

\* Debounce: a timer commits only when no event was staged after it was armed.
\* initialise on an unborn repository restarts the generation at 0 and is
\* excluded: DebounceAcrossInit is the same promise without the exclusion.
QuietPeriod ==
    [][\A t \in timers \ timers' :
         (pc' = "committing" /\ ~rebased) => t.at = stages]_vars

\* "Commits only if no newer event has reset the debounce generation."
DebounceAcrossInit ==
    [][\A t \in timers \ timers' : pc' = "committing" => t.at = stages]_vars

\* "Commits staged state left by an interrupted previous server process": when
\* a recovery ends with the server running, nothing staged is left uncommitted.
\* It holds of files; a directory's marker is dropped and its files are not
\* committed, because the diff recover_staged intersects with names files only.
RecoveryComplete ==
    [][(job = "recover" /\ pc' = "idle") => owned' = {}]_vars

\* What the next commit takes of each file: one under way takes what it has
\* read, and a recovery decides by what it has read.
Staging ==
    CASE pc = "committing" -> Overlay(index, snap, paths)
      [] pc = "diffing" -> snap
      [] OTHER -> index

\* The history the user sees.
History == INSTANCE VaultHistory WITH
    staged <- Staging, batch <- UnderAny(paths), waiting <- owned, turns <- acts

\* Crashes, failures, timers and recoveries do nothing that VaultHistory does
\* not allow: commit_pending takes every file that stage_event has staged, each
\* as staged, on the HEAD it finds, and recover_staged forgets none of them.
ImplementsVaultHistory == History!Spec

\* A recorded path does not stay uncommitted, unless an operation failed: a
\* failed debounced commit is only logged.
EventuallyCommitted ==
    \A p \in Path : (p \in marker) ~> (p \notin marker \/ fault)

=============================================================================

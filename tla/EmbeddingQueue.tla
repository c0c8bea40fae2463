--------------------------- MODULE EmbeddingQueue ---------------------------
(***************************************************************************)
(* Semantic indexing of one vault: contextos-search's EmbeddingWorker, the *)
(* background drain task of contextos-mcp and the rebuild tools.  A tool   *)
(* that changes a note enqueues its path; a drainer takes paths off the    *)
(* queue and brings the vector store in line with the file it then reads.  *)
(* A tool that moves or deletes a directory enqueues nothing.              *)
(* Only the queue and each store call are atomic: between the read of the  *)
(* file and the write of its vectors nothing is locked.                    *)
(*                                                                         *)
(* A note's content is the sequence of its chunks' hashes, and a row of    *)
(* the store is the hash at an ordinal; ordinals start at 1 here, at 0 in  *)
(* the code.                                                               *)
(***************************************************************************)
EXTENDS Naturals, Sequences, FiniteSets, SequencesExt

CONSTANTS File,       \* notes in scope
          Content,    \* contents a note may have, as sequences of chunk hashes
          Moves,      \* what moves of directories do to notes below: old path to new
          Absent,     \* the vault has no such note
          Nil,        \* no row, no path, nothing read
          Drainer,    \* the background task and calls of the rebuild tools
          Background, \* the one of them that runs by itself
          Alone,      \* TRUE: passes of two drainers never overlap
          MaxChunks,  \* bound: chunks of a note
          MaxEdit,    \* bound: changes of the vault
          MaxRebuild, \* bound: rebuilds
          MaxFail,    \* bound: reads, embeddings and writes that fail
          MaxStop     \* bound: stops of the server

ASSUME DrainAssumption ==
    /\ Background \in Drainer
    /\ Alone \in BOOLEAN
    /\ MaxChunks \in Nat
    /\ \A c \in Content : c \in Seq(UNION {Range(b) : b \in Content}) /\ Len(c) <= MaxChunks
    /\ Absent \notin Content
    /\ \A m \in Moves : DOMAIN m \in SUBSET File /\ m \in [DOMAIN m -> File]

ASSUME LimitAssumption ==
    /\ Nil \notin File
    /\ MaxEdit \in Nat /\ MaxRebuild \in Nat /\ MaxFail \in Nat /\ MaxStop \in Nat

VARIABLES vault,    \* content of each note, or Absent
          due,      \* notes a tool has changed and not yet enqueued
          queue,    \* QueueState.order; QueueState.members is its range
          rows,     \* the vector store: rows[f][i] is the hash at ordinal i
          pc,       \* where each drainer is in process_path
          job,      \* the path it took
          text,     \* the content it read
          missing,  \* the ordinals it has to embed
          walk,     \* notes a rebuild's walk has found and not yet enqueued
          dropped,  \* history: paths whose last change has no signal left, whether it
                    \* was consumed for nothing or there never was one
          edits, rebuilds, fails, stops

vars == <<vault, due, queue, rows, pc, job, text, missing, walk, dropped,
          edits, rebuilds, fails, stops>>
counts == <<edits, rebuilds, fails, stops>>

Ordinals == 1..MaxChunks
Hash == UNION {Range(c) : c \in Content}
Phases == {"idle", "walk", "next", "read", "delete", "hash", "embed", "prune"}

NoRows == [i \in Ordinals |-> Nil]

\* The rows an index of this content has.
RowsOf(c) ==
    [i \in Ordinals |-> IF c # Absent /\ i <= Len(c) THEN c[i] ELSE Nil]

Busy == {job[d] : d \in {e \in Drainer : job[e] # Nil}}
Waiting(f) == f \in due \cup Range(queue) \cup Busy

-----------------------------------------------------------------------------
(* Tools: the file changes, then the event reaches enqueue_semantic.        *)

\* The root lock lets one tool run at a time, and a move signals both paths.
Changed(v, fs) ==
    /\ due = {} /\ edits < MaxEdit
    /\ vault' = v /\ due' = fs /\ edits' = edits + 1
    /\ UNCHANGED <<queue, rows, pc, job, text, missing, walk, dropped, rebuilds, fails,
                   stops>>

Edit(f, c) ==
    /\ vault[f] # c
    /\ Changed([vault EXCEPT ![f] = c], {f})

Move(f, g) ==
    /\ vault[f] # Absent /\ vault[g] = Absent
    /\ Changed([vault EXCEPT ![f] = Absent, ![g] = vault[f]], {f, g})

\* A tool moves or deletes a directory.  Its event names the directory, which is no
\* note in scope, so that the notes below it change without a signal: those that
\* nobody is going to read keep the rows of what they were.
Unread == {job[d] : d \in {e \in Drainer : pc[e] = "read"}}

WithDirectory(v) ==
    /\ due = {} /\ edits < MaxEdit
    /\ v # vault /\ vault' = v /\ edits' = edits + 1
    /\ dropped' = dropped \cup
                    ({f \in File : v[f] # vault[f]} \ (Range(queue) \cup Unread))
    /\ UNCHANGED <<due, queue, rows, pc, job, text, missing, walk, rebuilds, fails, stops>>

\* fs_move_file: the notes that m moves keep their text under their new names.
MoveDirectory(m) ==
    /\ \A f \in DOMAIN m : vault[m[f]] = Absent
    /\ WithDirectory([f \in File |->
         IF f \in DOMAIN m THEN Absent
         ELSE IF \E g \in DOMAIN m : m[g] = f THEN vault[CHOOSE g \in DOMAIN m : m[g] = f]
         ELSE vault[f]])

\* git_restore of a commit without the directory, which is deleted with what it has.
RestoreDeletes(m) == WithDirectory([f \in File |-> IF f \in DOMAIN m THEN Absent ELSE vault[f]])

\* Mutant: every signal is queued.
MutAdmits(f) == TRUE

\* Mutant: a path stays a member until it has been processed.
MutAdmitsIdle(f) == f \notin Range(queue) \cup Busy

\* enqueue: a path already queued is not queued again.
Admits(f) == f \notin Range(queue)

Queued(f) == IF Admits(f) THEN Append(queue, f) ELSE queue

Enqueue(f) ==
    /\ f \in due /\ due' = due \ {f}
    /\ queue' = Queued(f)
    /\ dropped' = dropped \ {f}
    /\ UNCHANGED <<vault, rows, pc, job, text, missing, walk, counts>>

-----------------------------------------------------------------------------
(* A pass: drain_until, from the background task or a rebuild.              *)

MayStart(d) == Alone => \A e \in Drainer \ {d} : pc[e] = "idle"

Dequeue(d) ==
    /\ pc[d] = "next" \/ (pc[d] = "idle" /\ d = Background /\ MayStart(d))
    /\ queue # << >>
    /\ job' = [job EXCEPT ![d] = Head(queue)]
    /\ queue' = Tail(queue)
    /\ pc' = [pc EXCEPT ![d] = "read"]
    /\ UNCHANGED <<vault, due, rows, text, missing, walk, dropped, counts>>

EndPass(d) ==
    /\ pc[d] = "next" /\ queue = << >>
    /\ pc' = [pc EXCEPT ![d] = "idle"]
    /\ UNCHANGED <<vault, due, queue, rows, job, text, missing, walk, dropped, counts>>

Present == {f \in File : vault[f] # Absent}

\* rebuild_semantic: the vault is walked only when nothing is queued, and the
\* walk finds the notes that exist.
Rebuild(d) ==
    /\ pc[d] = "idle" /\ d # Background /\ MayStart(d) /\ rebuilds < MaxRebuild
    /\ rebuilds' = rebuilds + 1
    /\ \/ queue # << >> /\ UNCHANGED walk
       \/ queue = << >> /\ walk' = [walk EXCEPT ![d] = Present]
    /\ pc' = [pc EXCEPT ![d] = "walk"]
    /\ UNCHANGED <<vault, due, queue, rows, job, text, missing, dropped, edits, fails, stops>>

\* The files found are enqueued one by one, and then drained.
WalkFile(d) ==
    /\ pc[d] = "walk"
    /\ \E f \in walk[d] :
         /\ walk' = [walk EXCEPT ![d] = @ \ {f}]
         /\ queue' = Queued(f) /\ dropped' = dropped \ {f}
    /\ UNCHANGED <<vault, due, rows, pc, job, text, missing, counts>>

WalkEnds(d) ==
    /\ pc[d] = "walk" /\ walk[d] = {}
    /\ pc' = [pc EXCEPT ![d] = "next"]
    /\ UNCHANGED <<vault, due, queue, rows, job, text, missing, walk, dropped, counts>>

\* After an outcome the pass goes on, or its budget is used up.
Outcome(d) ==
    /\ \E next \in {"next", "idle"} : pc' = [pc EXCEPT ![d] = next]
    /\ job' = [job EXCEPT ![d] = Nil]
    /\ text' = [text EXCEPT ![d] = Nil]
    /\ missing' = [missing EXCEPT ![d] = {}]

\* A failed path is counted and not queued again.
ProcessFails(d) ==
    /\ pc[d] \in {"read", "delete", "hash", "embed", "prune"}
    /\ fails < MaxFail /\ fails' = fails + 1
    /\ dropped' = dropped \cup ({job[d]} \ (due \cup Range(queue)))
    /\ Outcome(d)
    /\ UNCHANGED <<vault, due, queue, rows, walk, edits, rebuilds, stops>>

ReadContent(d) ==
    /\ pc[d] = "read"
    /\ text' = [text EXCEPT ![d] = vault[job[d]]]
    /\ pc' = [pc EXCEPT ![d] = IF vault[job[d]] = Absent THEN "delete" ELSE "hash"]
    /\ UNCHANGED <<vault, due, queue, rows, job, missing, walk, dropped, counts>>

DeleteRows(d) ==
    /\ pc[d] = "delete"
    /\ rows' = [rows EXCEPT ![job[d]] = NoRows]
    /\ Outcome(d)
    /\ UNCHANGED <<vault, due, queue, walk, dropped, counts>>

\* existing_hash, chunk by chunk.
CompareHashes(d) ==
    /\ pc[d] = "hash"
    /\ LET changed == {i \in DOMAIN text[d] : rows[job[d]][i] # text[d][i]} IN
         /\ missing' = [missing EXCEPT ![d] = changed]
         /\ pc' = [pc EXCEPT ![d] = IF changed = {} THEN "prune" ELSE "embed"]
    /\ UNCHANGED <<vault, due, queue, rows, job, text, walk, dropped, counts>>

\* The provider answers, and the rows are written in one transaction.
UpsertRows(d) ==
    /\ pc[d] = "embed"
    /\ rows' = [rows EXCEPT ![job[d]] =
                  [i \in Ordinals |-> IF i \in missing[d] THEN text[d][i] ELSE @[i]]]
    /\ pc' = [pc EXCEPT ![d] = "prune"]
    /\ UNCHANGED <<vault, due, queue, job, text, missing, walk, dropped, counts>>

\* Mutant: a shrunk note keeps its trailing rows.
MutPruned(r, c) == r

\* prune_ordinals_at_or_beyond.
Pruned(r, c) == [i \in Ordinals |-> IF i > Len(c) THEN Nil ELSE r[i]]

PruneRows(d) ==
    /\ pc[d] = "prune"
    /\ rows' = [rows EXCEPT ![job[d]] = Pruned(@, text[d])]
    /\ Outcome(d)
    /\ UNCHANGED <<vault, due, queue, walk, dropped, counts>>

\* The queue lives in memory, and the server stops without draining it.
Stop ==
    /\ stops < MaxStop /\ stops' = stops + 1
    /\ dropped' = dropped \cup {f \in File : Waiting(f)}
    /\ queue' = << >> /\ due' = {}
    /\ pc' = [d \in Drainer |-> "idle"] /\ job' = [d \in Drainer |-> Nil]
    /\ text' = [d \in Drainer |-> Nil] /\ missing' = [d \in Drainer |-> {}]
    /\ walk' = [d \in Drainer |-> {}]
    /\ UNCHANGED <<vault, rows, edits, rebuilds, fails>>

-----------------------------------------------------------------------------

\* An empty vault and an empty store.
Init ==
    /\ vault = [f \in File |-> Absent] /\ due = {} /\ queue = << >>
    /\ rows = [f \in File |-> NoRows]
    /\ pc = [d \in Drainer |-> "idle"] /\ job = [d \in Drainer |-> Nil]
    /\ text = [d \in Drainer |-> Nil] /\ missing = [d \in Drainer |-> {}]
    /\ walk = [d \in Drainer |-> {}] /\ dropped = {}
    /\ edits = 0 /\ rebuilds = 0 /\ fails = 0 /\ stops = 0

Drain(d) ==
    \/ WalkFile(d) \/ WalkEnds(d) \/ Dequeue(d) \/ EndPass(d)
    \/ ProcessFails(d) \/ ReadContent(d) \/ DeleteRows(d) \/ CompareHashes(d)
    \/ UpsertRows(d) \/ PruneRows(d)

Next ==
    \/ \E f \in File, c \in Content \cup {Absent} : Edit(f, c)
    \/ \E f, g \in File : Move(f, g)
    \/ \E m \in Moves : MoveDirectory(m) \/ RestoreDeletes(m)
    \/ \E f \in File : Enqueue(f)
    \/ \E d \in Drainer : Drain(d) \/ Rebuild(d)
    \/ Stop

\* A tool call that changed a file runs on to its event; the background task
\* polls every 30 s, and a pass is straight code on a blocking thread.
Fairness ==
    /\ \A f \in File : WF_vars(Enqueue(f))
    /\ \A d \in Drainer : WF_vars(Drain(d))

Spec == Init /\ [][Next]_vars
FairSpec == Spec /\ Fairness

-----------------------------------------------------------------------------
(* Properties.                                                              *)

\* Each variable keeps its type, a path is queued at most once (order and
\* members agree), and a drainer has a path exactly while it processes one.
TypeOK ==
    /\ vault \in [File -> Content \cup {Absent}]
    /\ due \in SUBSET File
    /\ queue \in Seq(File) /\ IsInjective(queue)
    /\ rows \in [File -> [Ordinals -> Hash \cup {Nil}]]
    /\ pc \in [Drainer -> Phases]
    /\ job \in [Drainer -> File \cup {Nil}]
    /\ \A d \in Drainer : job[d] = Nil <=> pc[d] \in {"idle", "walk", "next"}
    /\ text \in [Drainer -> Content \cup {Absent, Nil}]
    /\ missing \in [Drainer -> SUBSET Ordinals]
    /\ walk \in [Drainer -> SUBSET File] /\ dropped \in SUBSET File
    /\ edits \in 0..MaxEdit /\ rebuilds \in 0..MaxRebuild
    /\ fails \in 0..MaxFail /\ stops \in 0..MaxStop

\* A note that nobody is about to index has exactly the rows of its content,
\* unless its last change has no signal left, which a failure or a stop has
\* consumed or a move or deletion of its directory never sent: a change made
\* while a drainer works on the note is never missed, and no row outlives its
\* chunk.
UnqueuedIsFresh ==
    \A f \in File : Waiting(f) \/ f \in dropped \/ rows[f] = RowsOf(vault[f])

\* "Any file changed mid-pass is already caught by the live write-pipeline's
\* own enqueue calls": a note somebody has signalled ends up with the rows of its
\* content, with no operator action, unless its last change has no signal left.
EventuallyFresh ==
    \A f \in File : Waiting(f) ~> (rows[f] = RowsOf(vault[f]) \/ f \in dropped)

\* "Paths written through this server's own tools get embedded with no operator
\* action required": while nothing has failed or stopped, a note that nobody is
\* going to index has the rows of its content.
WrittenIsEmbedded ==
    (fails = 0 /\ stops = 0) => \A f \in File : Waiting(f) \/ rows[f] = RowsOf(vault[f])

-----------------------------------------------------------------------------
(* What all this implements.                                                *)

Index == INSTANCE FreshIndex WITH
    Note <- File, Value <- Content \cup {Absent}, Row <- [Ordinals -> Hash \cup {Nil}],
    Indexed <- [c \in Content \cup {Absent} |-> RowsOf(c)],
    waiting <- {f \in File : Waiting(f)}, lost <- {f \in dropped : ~Waiting(f)}

\* The queue, the passes, the store calls and the stops are an implementation of
\* FreshIndex: every step is one of its steps or none, and every waiting note's
\* turn comes.
ImplementsFreshIndex == Index!Spec

=============================================================================

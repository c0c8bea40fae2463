# Specifications of contextos-mcp

contextos-mcp is an MCP server over one or more vaults (directories of Markdown
notes). A tool call mutates a file; the mutation becomes an operation event;
the event is routed to substrates that keep derived state in step with the
vault: a managed index per directory, an operation log, a local Git history, a
text index, a wikilink graph and a semantic (vector) index. The files are the
truth, everything else is derived or recorded, and most of what can go wrong is
a derived state that silently no longer agrees with the files.

This directory models that core in TLA+, checks small instances with TLC and
proves theorems for all instances with TLAPS.

    tlc -workers 2 -config MCGitVault.cfg MCGitVault
    tlapm GitVaultProofs.tla

## 1. Inventory

| Component | Source | State | Operations | Hard part | Modules |
|---|---|---|---|---|---|
| Write pipeline, router | core `pipeline.rs`, `routing.rs` | none | mutate, then route one event to index, log, Git, search; events made by index and log go to Git and search | partial failure: a substrate that fails only warns | `WritePipeline`, `VaultTurns` |
| Root locks | mcp `server.rs` `WriteCoordinator` | a mutex per vault | lock a set of vaults, sorted | deadlock; what runs outside them (timers, drains, flush) | `WritePipeline`, `VaultTurns` |
| File mutations | fs `mutate.rs`, mcp `tools/fs.rs`, git restore | the vault | write with expected hash, edit a batch, make a directory, move, delete, restore | check-then-act against other programs | `FileMutations` |
| Git vault | git `lib.rs`, mcp `server.rs` | index and HEAD on disk, marker per pending path, batch and generation in memory, sleeping timers | stage, commit, commit if generation, initialise, recover, restore | crash between any two writes, stale timers, an operator using git meanwhile | `GitVault`, `VaultHistory` |
| Git inspection | git `lib.rs`, mcp `tools/git.rs` | none | log, status, diff, ignore rules | limits that count before or after a filter, a cut diff | `GitInspection` |
| Link graph | search `graph/mod.rs`, `graph/sqlite_store.rs` | graph in memory per process, shared sqlite tables, change log, generation | upsert, remove, rebuild, catch up, reload, query | several processes on one store, separate transactions, torn loads, slots used again | `LinkGraph`, `GraphReplay` |
| Embedding queue | search `embedding_worker.rs`, `service.rs`, mcp `semantic_drain.rs` | queue in memory, rows in the vector store | enqueue, drain for a budget, rebuild | notes that change while they are embedded, two drainers | `EmbeddingQueue`, `FreshIndex`, `Retrieval` |
| Text index | search `sync.rs`, `text.rs` | documents with modification time, a reader per process | update on event, refresh before a query | files that change while they are read, readers that are not reloaded | `TextSync`, `Retrieval` |
| Chunks, hits and scopes | search `chunk.rs`, `service.rs`, mcp `tools/query.rs` | none | cut a note, read a hit back, filter, estimate staleness, rebuild by budgets | positions that mean something else after an edit | `Retrieval` |
| Operation log | oplog `lib.rs` | a day file per vault, retry buffer | append, manual entry, flush | retry of an append that half succeeded, its order and its events | `WritePipeline` |
| Managed index | index `lib.rs` | `index.md` per directory | reconcile an event, rebuild | an event must do exactly what a rebuild would; stops at the first directory that fails | `ManagedIndex`, `WritePipeline` |
| Paths and reads | core `path.rs`, fs `read.rs`, `discover.rs`, mcp `tools/fs.rs`, `resources.rs` | none | resolve a path, read with limits, list, tree, search, resources | aliases and links, cuts at a limit | `VaultReads` |
| Bases, canvases, wikilinks | obsidian crate, mcp `tools/base_query.rs`, `tools/obsidian.rs` | none | query, edit, apply, read links | narrowing that loses rows, edits that lose fields, two link resolvers | `BaseQuery`, `BaseDocument`, `CanvasDocument`, `NoteLinks` |
| Configuration, interview | core and mcp `config*.rs`, `interview.rs` | `config.toml` | load, edit, interview | edits by position and name in a file someone else wrote | `Configuration` |
| Doctor | mcp `doctor.rs`, `tools/doctor.rs` | none | check, repair, check again | a repair that does not heal, or breaks something else | `Doctor` |
| Host registration | mcp `host_registration.rs` | the host's JSON file, its backups | register, deregister | the host writes the file too | `HostRegistration` |
| Web settings | web `routes/settings.rs`, `config_writer.rs`, `apps.rs` | `web.toml` | add, edit, remove a server, set the appearance | requests at once, manifests that change | `WebSettings` |
| Ephemeris | ephemeris `lib.rs` | none | events of a day, of a range | the ends of a range | `Ephemeris` |
| fjall and serde stores, mermaid, rendering, HTTP | the other files | none, or one process | | | not modelled, see the end |

Interactions. A tool holds the locks of the vaults it touches from the mutation
to the end of routing. The debounce timers of Git, the background drain, the
rebuild tools and the shutdown flush hold no root lock: Git's `pending` mutex,
the graph's mutex and the queue's mutex are all that orders them. Server
processes share the sqlite graph store and nothing else.

What makes each part correct:

- Git vault: staged work survives a crash; a commit contains the server's paths
  and nothing of the operator's; a timer commits only after a quiet period;
  recorded work is committed in the end; recovery leaves nothing behind.
- Link graph: a process that has caught up holds the store's graph; the store is
  the vault's graph; two edges never share a row; a generation is taken as seen
  only when it has been applied; queries answer by their definitions.
- Embedding queue: a note nobody is about to index has exactly the rows of its
  text; every signal is acted upon without the operator; a path is queued once.
- Operation log: log and buffer hold every operation, in order; a line may be
  there twice (after an append that was written and not synced), never too early.
- Router: git and search hear of every write, those of index and log included,
  or a warning is returned.
- Root locks: calls that need several vaults do not wait on each other for ever.
- File mutations: a write replaces only the text it was promised to replace; a
  deletion takes no note it has not seen.
- Text index: a query answers from the files as they are, when nobody changes
  them meanwhile.
- Managed index: after any sequence of events every table is what a rebuild
  would write.
- Everything that is one function: it does what its documentation says for every
  input, above all at its limits.

The hazards, each at its line with the properties that cover it or the reason
none does, are in `PROJECT.json`.

## 2. Modules

State machines, each with its MC module:

1. `GitVault` (`MCGitVault`); the abstract specification `VaultHistory`; and
   `GitVaultProofs`, which also proves that the vault implements it.
2. `LinkGraph` (`MCLinkGraph`), and `LinkGraphProofs`.
3. `EmbeddingQueue` (`MCEmbeddingQueue`); the abstract specification
   `FreshIndex`; and `EmbeddingQueueProofs`, which also proves that the queue
   implements it.
4. `WritePipeline` (`MCWritePipeline`); the abstract specification `VaultTurns`;
   and `WritePipelineProofs`, which also proves that the pipeline implements it.
5. `FileMutations`, `TextSync`, `WebSettings` and `HostRegistration`, which share
   nothing: `MCFilesAndText` puts them side by side in one specification, in which
   one of the four moves and the others rest. `TextSyncProofs`, `WebSettingsProofs` and
   `HostRegistrationProofs` are instantiated there, and `FilesAndTextProofs` holds
   what is proved of `FileMutations` and of the composition.
6. `GraphReplay`: the graph in memory of two processes.

Algorithms, as operators with the properties beside them, each with an MC module
that lists the inputs (those of `GitInspection` and `GraphReplay` are in
`MCFunctions`):
`BaseQuery`, `BaseDocument`, `CanvasDocument`, `NoteLinks`, `VaultReads`,
`Retrieval`, `Configuration`, `ManagedIndex`, `Doctor` (which extends
`ManagedIndex` and shares its MC module), `Ephemeris`, `GitInspection`.
`MCFunctions` extends `MCFilesAndText`: each of its behaviours is one of the four
systems, or takes one input of one algorithm, or the steps of `GraphReplay`. So one
run, `files_and_functions`, checks all of these, each on its own.

## 3. What each module models

### GitVault

One vault's repository. A commit, the index and the working tree are functions
from files to contents; an event names paths, and `Below[p]` are the files a
path stands for, so that a directory is a path with several.

| TLA+ | Code |
|---|---|
| `marker` | `.pending` files in the repository's directory |
| `paths`, `gen` | `PendingBatch` |
| `timers` | tasks spawned by `VersionCollection::stage` |
| `pc` | who holds the `pending` mutex, and how far it is |
| `job`, `todo` | the tool that holds the root lock, and what it has left to stage |
| `Mutate` | a tool's file mutation, before its event is routed |
| `StageBegin`, `StagePath`, `StageFinish` and their failures | `stage_event` |
| `TimerFires`, `CommitNow`, `CommitWrites`, `CommitFails` | `commit_if_generation`, `commit`, `commit_pending` |
| `InitCommit`, `InitReset`, `InitResetFails` | `initialise` on an unborn HEAD |
| `Crash`, `Start`, `Restage`, `RecoverBatch` | a crash; startup's `initialise` and `recover_staged` |
| `OperatorEdits`, `OperatorAdds`, `OperatorCommits` | an editor and the git command line |

The variables `owned`, `stages`, `fault`, `rebased`, `crashes` and `acts` are
history: no action of the server reads them except for the bounds.

`VaultHistory` is what the history promises, without timers, markers, phases or
crashes. The files the server has staged wait; a commit takes the batch and only
the batch, each file as the staging area has it, on top of the HEAD it finds, and
leaves nothing waiting; a file stops waiting only by a commit or because HEAD
already has its staged content; the operator commits at any time.
`History == INSTANCE VaultHistory WITH ...` maps `owned` to what waits, the files
under `paths` to the batch, and the staging area to `Staging`: the index, except
that a commit under way takes what it has read of it (`snap`), and so does a
recovery that compares. A crash maps to a step that empties the batch and keeps
what waits.

Abstractions. `initialise` writes the index and the commit in one step, and
resets markers and batch in another. The `.gitignore` event it may stage on a
repository that has commits is an ordinary write event. `restore` writes and
deletes through the ordinary pipeline, and appears as those events; what it
writes is in `FileMutations`. A staging
task and a commit exclude each other by the mutex, so no second `pc` is needed;
a poisoned mutex is left out. A failed step is a nondeterministic choice at each
place where the code returns an error after having changed something.

### LinkGraph

Several server processes, each with its graph, over the sqlite store.

| TLA+ | Code |
|---|---|
| `store` | the tables `nodes`, `edges` and `next_edge_id` |
| `log` | the table `changelog`; its length is the generation |
| `mem`, `seen`, `trusted` | `graph` with its maps and `next_edge_id`, `last_seen_generation`, `!needs_rebuild` |
| `Open`, `ReadNextId`, `ReadGeneration`, `ReadNodes`, `ReadEdges`, `LoadFails` | `LinkGraph::try_from`, `load_snapshot`, `read_metadata`, `build_graph` |
| `Query`, `CheckLog`, `ReadRows`, `ApplyRows`, `RowsApplied` | `full_view` and the other queries, `catch_up`, `changes_since`, `apply_external_changes` generation by generation |
| `Mutate`, `Act`, `RecordGeneration` | `update_graph`, then `upsert_note` or `remove_note`, then `persist_changes` and its read-back |
| `Resolve`, `Resolutions`, `Wired`, `WithPhantoms` | `resolve_target`, and `wire_links`, where each link sees the phantoms of those before it |
| `MoveDirectory`, `RestoreDeletes` | `fs_move_file` of a directory, a directory that `git_restore` deletes: the event names no note, and the graph is not told |
| `CollectNotes`, `RebuildClears`, `RebuildClearsEdges`, `RebuildWires`, `RebuildWrites` | `collect_graph_notes`, and `rebuild`: the store's clear, the notes wired one by one, the persist |
| `CommitRefused`, `Stop` | a store error; a process that ends |

Abstractions. The change of a note, its read-back by `sync_graph_note` and the
graph's mutex are one step, because the root lock and the mutex keep the process's
other operations out. Each read of the store is a step of its own, since each is a
statement that commits by itself; only what `changes_since` reads before the rows
(the generation, and whether a reset is among those missing) is one step, because
what a sibling commits between the two asks for a reload all the same. Titles, edge
kinds and the parse failure that keeps a note's old links are left out; petgraph's
slots are in `GraphReplay`. The rows of a catch-up are in memory once read, so
nothing happens between two `ApplyRows` that the process could notice; a rebuild
wires its notes in any order. An edge is its id and its end points, so a duplicate
id in memory, which only an overlap can make, is two edges.

Three variables are history. `torn` becomes true where the code is at the mercy of
a sibling's commit between two reads: a next id is taken from the metadata of one
generation and combined with a later generation, so that it is not above the ids in
the store, or the log is pruned between the check of its retention and the read of
its rows, so that a generation is skipped. `unheard` has the notes that changed with
their directory since the graph last took them. `fault` says that a persist failed
or a process stopped inside a mutation. The properties say which of the three they
excuse; section 6 says what the code does then.

`Serial` says that mutations of two processes do not overlap. The code does not
enforce it; the passing run assumes it and `link_graph_overlap` drops it.

### EmbeddingQueue

One vault's queue, its drainers and its rows. A note's content is the sequence
of its chunks' hashes, so `RowsOf(content)` is what an index of it must hold.

| TLA+ | Code |
|---|---|
| `queue` | `QueueState.order`; the set `members` is its range, which `TypeOK` checks by injectivity |
| `due` | events between the mutation and `enqueue_semantic` |
| `rows` | the vector store, by path and ordinal |
| `Edit`, `Move`, `Enqueue` | a tool that changes or moves a note, and its event in `enqueue_semantic` |
| `MoveDirectory`, `RestoreDeletes` | `fs_move_file` of a directory, a directory that `git_restore` deletes: the event names the directories, which `enqueue_semantic` passes over |
| `Dequeue`, `ReadContent`, `DeleteRows`, `CompareHashes`, `UpsertRows`, `PruneRows` | `dequeue`, `process_path`, `embed_path` |
| `Outcome`, `EndPass` | `drain_until`: next path, budget used up, or queue empty |
| `Rebuild`, `WalkFile`, `WalkEnds` | `rebuild_semantic` |
| `ProcessFails`, `Stop` | an error of a read, the provider or the store; the server ends |

Abstractions. A hash comparison over all chunks is one step; the budget's end is
a choice after every path; notes change only through the server's tools, because
the drain does not discover other changes by design (`semantic_drain.rs`
lines 20-24). `Alone` says that two passes do not overlap. The code does not
enforce it either; `embedding_queue_race` drops it.

`FreshIndex` is what the queue promises: a note that changes waits, its rows may be
anything while it waits, and it stops waiting with the rows of the content it has
then, or by being lost (an error, or the end of the process), which the next change
or request repairs. A note whose directory is moved or deleted is lost too, unless
it waits or is about to be read (`dropped`). `EmbeddingQueue` defines the mapping in
its `Index == INSTANCE FreshIndex WITH ...`: a note waits when it is due, queued or
in a drainer's hands, and is lost when it was dropped and does not wait. Fairness of
the abstract specification (a waiting note stops waiting) holds because changes are
bounded, as they are in any quiet period.

### WritePipeline

The vaults of one server, the tool calls that write to them, and the route of
each mutation's event.

| TLA+ | Code |
|---|---|
| `lock` | `WriteCoordinator.locks` |
| `call` | the calls in progress: `pc` the phase, `ask` the vaults still to lock, `event` the routed paths, `todo` the vaults an index or log loop has left, `found` and `derived` the events of index and log writes, `clean` no warning so far |
| `stale` | directories whose `index.md` does not show their entries |
| `log`, `pending` | the day's file; `OperationLog.pending` |
| `dirty` | files git, or search, has not been told the last write of |
| `flushAt` | how far the flush at shutdown is |
| `Begin`, `Lock`, `Finish`, `Dropped` | a tool call; `lock_roots`; guards dropped at the end, or with the runtime |
| `Mutate`, `ClearIndex` | the pipeline's mutations; the cleanup of `index.md` before a directory's deletion, an internal operation |
| `Reconcile` | `IndexCollection::reconcile`, one vault at a time |
| `AppendEvent`, `AppendManual`, `FlushTo` | `OperationLogCollection::append`, `vault_log_append`, `flush_pending` |
| `StageEvent`, `UpdateSearch`, `TellInternal`, `Routed` | the second half of `OperationRouter::route` |
| `RebuildIndexes` | `vault_index_rebuild` |
| `Shutdown`, `FlushLog` | the select in `main`, `flush_operation_logs` |

`ops`, `owed` and `faults` are history.

Abstractions. A vault has one note in one folder, so its directories are that
folder and the top; which of them a mutation changes is one of `Changes`. The
log has one file, so lines of two days are not told apart, and a line is the
operation it records: one that was written only halfway is left out. The routed
event reaches the vaults in their order up to the first that fails. The events
of the index and log writes are independent of each other, so `TellInternal`
takes them in a fixed order. A request names at most `MaxPaths` vaults, in any
order and with repetitions. `dirty` says that a sink was told, not what it does
then: that is `GitVault`, `LinkGraph` and `EmbeddingQueue`.

`VaultTurns` is what the root locks promise, without locks, phases or events: a
call is given all its vaults at once, changes nothing outside them while it has
them, and gives them back at once; lines of a log stay, and a record stays in the
log or the buffer; only the flush at shutdown writes to vaults it has not been
given, and it only logs. `Turns == INSTANCE VaultTurns WITH ...` gives a vault to
the call that has locked it once that call no longer waits (`Owner`), so that the
last lock maps to the taking of all of them, the locks before it to nothing, and
every step from there to the end of the route to work on the call's own vaults.

### FileMutations

One vault with a folder whose `index.md` the server manages, tool calls that
take turns by the root lock, and a program that edits the vault at any time.

| TLA+ | Code |
|---|---|
| `file`, `folder`, `index` | notes, the folder, and its `index.md` |
| `lock`, `call` | the vault's mutex; where each call is, what it was asked and what it saw |
| `owned` | `PendingBatch.paths`, which a restore looks at |
| `mine`, `calls`, `edits` | history: every path a tool changed, and the bounds |
| `Begin`, `Acquire` | a tool call, `lock_roots` |
| `PlanEdit`, `PlanRestore`, `Look` | the reads before a mutation: the text an edit is made from, the tree of a commit and the hashes it is compared with, what the mutation finds at its paths |
| `ClearIndex` | the cleanup of `index.md` before a directory is deleted |
| `Apply...`, `ApplyFails`, `Return` | the mutation, its refusals and its answer |
| `OtherEdits`, `Commit` | the other program; the debounced commit, which makes the files the server changed the committed ones |

A file is exchanged by a rename, so its content is old or new. Contents are
opaque, so a hash is the content; the place of an edit within a text is a unit
test's matter.

### TextSync

Several processes over one index. `disk` has a text and a modification time per
note, `store` what the index holds, `reader` what a process's reader shows.
`ToolWrite`, `ToolDelete`, `ToolMove` with `UpdateRemove`, `SyncReadContent`,
`SyncReadTime` and `SyncCommit` are a tool's event (`sync_path`); `QueryBegin`,
`RefreshWalk`, `RefreshStat`, `RefreshRead`, `RefreshIndex`, `RefreshRemove`,
`RefreshFails` and `Answer` are a query, whose `refresh` stats and reads one note
at a time; `OtherChange` is anybody else. A write always gets a later
modification time; a move keeps the file's. `QueryFresh` leaves out the notes
that were changed or indexed while the query ran (`disturbed`), a commit by
another process that this process's reader has not been reloaded for, and an
entry whose content and time were read from two versions of the file (`torn`)
while that time is the file's. An event tears an entry when the file changes
between its two reads. A refresh reads the time first, so what it tears is read
again; only when the file that had that time is moved back under the name does
the refresh take the torn entry for the file's.

### WebSettings

Requests that run at once and share only `web.toml`: `Begin` loads it and checks
what was asked, `ListApps` and `LoadApp` read the manifests one after another,
`AllAsked` or `Unreachable` decide, `Write` or `WriteFails` replace the file;
`NoVaults`, `ListFails` and `LoadFails` are the errors a tool answers with, which the
code takes for a server without vaults, a vault without apps and a directory without
a manifest (`hidden` remembers the directories nothing was learnt of);
`ChangeManifest` is anybody who edits a vault. Of the file the set of its
servers' names is kept (their order plays no part), and whether the appearance
was set. The vaults are asked in any order, the directories of one (`dirs`, pairs
of a vault and a place in its list) in theirs, as the first to claim a slug has it.

### HostRegistration

The steps of a registration or deregistration: `Check` (is the host running),
`Load`, `Backup`, `Write` or `Fail`, `ReadBack`; the host starts, stops and
writes its file (`HostStarts`, `HostStops`, `HostWrites`) and time passes
(`Tick`), because backups are named by the second. A document is missing,
malformed or an object with an entry of ours (or none) and the others' names;
`backups` has at most one document per second, as a later one replaces it.

### GraphReplay

A memory as the code has it: nodes, edges in petgraph's slots, the table from an
edge's id in the store to its slot. `UpsertNote`, `RemoveNote` and `Rebuild` give
the records that `persist_changes` writes (`Records`); another process replays them
(`Replayed`), or loads the store anew (`Loaded`). A process that opens may have read
its next id before its generation and both before the rows (`Open`); once one has
written with such an id (`lost`) nothing is claimed any more. The freed slot that
petgraph takes next is taken to be the lowest one; nothing depends on which it is,
only that it is one that was freed. The queries (neighbours, routes, orphans,
phantoms and the like) are compared with definitions over the links of the vault.
Titles are left out, and links name their notes exactly, since resolution is
`NoteLinks`'s.

### BaseQuery, BaseDocument, CanvasDocument

`BaseQuery` parses an expression (`ParseOr` and below), looks for a directory every
match is in (the hints), and evaluates, sorts and cuts. A filter is a sequence of
tokens, a leaf compares a folder, a path or a flag, or fails. A hint stays the path
it is written as, with the dots, empty names and leading slash it has: `Place` is
where it leads, `Narrows` whether the scan follows it there, and `Below` names what
the scan finds as the code does, by the hint's own spelling. There are two vaults, a
hidden directory, and a note with a name that no path of a tool may have.
`BaseDocument` has the schema (`diagnostics`), the operations of `base_edit`, and
the reader of `base_query`, over values that are strings, numbers, arrays and
objects. `CanvasDocument` has the schema, the operations of `canvas_apply` as one
transaction, generated identifiers as tuples of all that is hashed, and the geometry
with saturating integers of a small width. The checks of a node's text, file or link
are one field `rest`, good or bad.

### NoteLinks

The scan of a note's lines for wikilinks, past fences, backticks, comments and
escapes; the target and its heading; and the two resolvers, `links_read`'s and
the graph's. A name is its parts between dots, so that an extension can be told.

### VaultReads

Resolution of a path or a URI against roots and links (`Canonical`, `Seen`,
`Resolve` and the filters of a tool), reads with a limit (a whole text, a head, a tail,
a range of lines), batches under a total size, previews and attachments,
listing, tree and search with their exclusions, and the resources a client
lists and reads. A text is a sequence of lines of small lengths.

### Retrieval

Chunks of a note (sizes in tokens, headings, overlap), the text read back for a
hit by its position, the scope and filters of the two kinds of query with the error
of a note that is no text, the count of stale notes against what a refresh does, what
is made of a provider's answer, and the series of `query_index_rebuild` calls, each
with a budget, until the caller is told that nothing is left. Of a service in such a
series the notes that are stale are kept, with those of them that failed (`missed`)
and those that others wrote and no walk has found yet (`unseen`).

### Configuration

`Load` with its checks and defaults, and the edits `config_writer.rs` makes for
the interview: the server's table, a vault's table by its name, new vaults, a
removed one. A document is the tables that are written, defaults apart.

### ManagedIndex, Doctor

A vault is a tree from paths to directories and files; an `index.md` is text
around a table, rows with summaries that are written by hand or taken from the
note. `Rebuild` and `Reconcile` for every kind of event follow the code's order
of directories. `Doctor` adds what a vault's configuration turns on, the state of its
`.git` and `.gitignore`, the checks, and the two repairs that are made without
asking.

### Ephemeris

Days and instants as integers; phases, quarters of the year and personal periods
of one day, and their boundaries in a range. The positions of sun and moon (the
`astro` crate) are external: mean motion and a sway, which is enough to put
boundaries at every place relative to the ends of a range.

### GitInspection

`Log`, `Status`, `Diff` with its cap, and the ignore rules, over histories
without merges. A diff is its paths and the lengths of their parts.

## 4. Runs

| Run | Shows | Bounds |
|---|---|---|
| `git_vault` | types, `StagedWorkRecorded`, `QuietPeriod`, `RecoveryComplete`, `ImplementsVaultHistory`, `EventuallyCommitted` | two files with one content and absence, two events per process, one crash, two operator acts |
| `git_vault_dirs` | `RecoveryComplete` fails for an event that names a directory | the same, and a directory that holds one of the files |
| `git_vault_init` | `DebounceAcrossInit` fails: `initialise` restarts the generation | as `git_vault` |
| `link_graph` | types, `CaughtUpIsCurrent`, `StoreHoldsVaultLinks`, `NoEdgeOverwritten` | two processes, two notes, one name that may be a phantom, three generations, retention of two, one refused write, one stop, one directory that may move or go, one scan of a rebuild at a time, a stop and a change of a directory not combined |
| `link_graph_overlap` | `NoEdgeOverwritten` fails when mutations overlap | no failures |
| `link_graph_rebuild` | `SeenIsApplied` fails after a stop inside a rebuild | one stop |
| `embedding_queue` | types, `UnqueuedIsFresh`, `EventuallyFresh`, `ImplementsFreshIndex` | two notes of one or two chunks, the directory of one may become that of the other, three changes, one rebuild, one failure, one stop |
| `embedding_queue_dirs` | `WrittenIsEmbedded` fails when a tool moves a directory | no failures |
| `embedding_queue_race` | `UnqueuedIsFresh` fails when two passes overlap | no failures |
| `write_pipeline` | types, `LogInOrder`, `OnRecord`, `NobodyIsStuck`, `CleanRouteIsSeen`, `ImplementsVaultTurns` | two vaults, two calls of up to two vaults each, two operations, one failure, shutdown at any time |
| `write_pipeline_tools` | `EveryWriteIsRouted` fails: two tools write without the router | one vault, one operation, no failure |
| `files_and_functions` | types; `ConflictSafe`, `DeletionsSpareNotes` (files); `QueryFresh` (text); `NoAppLosesItsServer` (settings); `EditsCanBeUndone` (registration); `QueryExact`, `EditsKeepTheRest`, `PathHasOneName`, `ReadsShowTheVault`, `HitsReadBack`, `AnswersInScope`, `StaleIsRefreshed`, `InterviewAsAnswered`, `IndexesSettle`, `DoctorHeals`, `LinksAgree`, `ReplicasAnswer`, `BoundariesAreTheDays`, `HistoryRetraced` (algorithms) | files: two calls, two notes of which one in the folder, batches of two, one edit by another program. Text: two processes, two notes, two texts, two changes, one query. Settings: two requests, two vaults with three apps of which at most two at first, two names that differ in case, one change of a manifest; a tool's errors are met by one request, while the other checks nothing and no manifest changes (`FewErrors`). Registration: two calls, one other server, two instants, one write by the host. Algorithms: the inputs of each MC module. Replicas: two processes, two notes and a name no note has, three generations, a log of two; of the two, which are alike, `p` begins, and `q` may open with a next id one generation old |

What the properties of the algorithms say:

- `QueryExact`: a narrowed, sorted and cut scan answers as the whole vault would,
  except that under a hint which does not spell its directory as the vault does the
  rows are those, and have the paths, that the hint's spelling gives.
- `EditsKeepTheRest`: an edit of a base or canvas keeps what it does not name,
  and `base_query` can read whatever the schema accepts after it.
- `PathHasOneName`: a file has one vault and one name, however it is written.
- `ReadsShowTheVault`: a limited read shows what was asked for and says when it
  was cut; listing, tree and search leave out the same entries; what is listed
  as a resource can be read.
- `HitsReadBack`: chunks cover the prose of a note under its headings, and the
  text shown for a hit is the one its vector was made of.
- `AnswersInScope`: a semantic query stays in the scope a text query has, and shows
  the nearest chunks of it: as many as its limit, less exactly one for each excluded
  chunk among the nearest; it fails when a note it would show is no text.
- `StaleIsRefreshed`: what the status calls stale is what a refresh has to do,
  and when a caller is told that all is up to date, exactly the notes that failed and
  those that others wrote since the last walk are stale.
- `InterviewAsAnswered`: the interview does to `config.toml` what was answered,
  and nothing else.
- `IndexesSettle`: the reconciliation of a change makes of every table what a
  rebuild would.
- `DoctorHeals`: a repair does what was asked, once and for all.
- `LinksAgree`: `links_read` and the graph agree on what is unresolved, and
  quoted text has no links.
- `ReplicasAnswer`: a process that catches up has the graph of the store
  (`ReplicasAgree`), and its queries answer by their definitions (`QueriesExact`), up
  to the first write of a process whose next id is older than its generation.
- `BoundariesAreTheDays`: the boundaries of a range are those of its days, and
  what the days say of themselves.
- `HistoryRetraced`: log, diff and status agree with the history and with each
  other; a cut diff says so; ignore rules are added once.

Why the bounds suffice. A stale timer needs two events, and the operator's
interference with a commit one act before and one within it. Three generations
with a retention of two reach a reader that must reload, a reader that catches
up by a delta and a reader that has nothing to do; two processes are the least
that tear each other's reads. Three changes let a note be created, changed while
it is processed, and shrunk or moved; a second note keeps the queue from being
empty. After a failed operation or torn reads the graph's properties promise nothing,
so the run does not explore beyond them (the constraint `Sound`; replicas likewise
rest once `lost`). Two vaults and two calls are the least that
wait on each other; one failed append and one operation after it make the buffer
hold two records, or one that is already in the log. Two calls and one edit
put another program between a look and its act; two changes of a file, one
before and one after the read of the other half of its state, are what a refresh
can be torn by (two queries instead of one were explored once, 1.4 million
states, with the same result). Two requests are the least that lose each other's
edit. The limits of the algorithms are small, so that among their inputs lengths
lie below, at and above each of them.

Symmetry. `link_graph` exchanges processes, `write_pipeline` calls, and
`files_and_functions` processes, notes and texts of `TextSync`, requests, and calls.
The specifications treat each of these alike, and none of these runs has a
liveness property.

Deadlock is not checked: with its bounds used up each system rests.

Fairness. `GitVault` assumes that a sleeping task wakes, that staging and
committing, which are straight code under a mutex, go on, and that a service
manager restarts the server. `EmbeddingQueue` assumes that a tool that changed a
note delivers its event and that a pass goes on; the background task polls every
30 seconds. Nothing is assumed of tools, of the operator or of rebuilds.
`LinkGraph` has no liveness property: nothing happens there unless it is called.
Nor have `WritePipeline` and `FileMutations`: a call that holds its locks runs
straight code, and `NobodyIsStuck` states the freedom from deadlock as a safety
property. A query of `TextSync` and the steps of settings and registration end
by themselves.

Findings. The seven violation runs are disagreements between the code and its own
comments; `PROJECT.json` quotes each. In short: recovery forgets directories, nobody
tells the embedding queue (or the graph) of the notes below a directory that a tool
moves,
`initialise` lets an old timer commit a new event, overlapping mutations of two
processes share an edge id, a rebuild that stops halfway leaves an empty graph
that is trusted, two drainers can leave the rows of an older text, and two tools
write files that git and search are never told of.

## 5. Proofs

All theorems are for every value of the constants under the named assumptions of
the modules (`PathAssumption`, `ValueAssumption`, `NotATree`; `DrainAssumption`,
`LimitAssumption`; `BoundAssumption`, `NilAssumption`, `ChangesAssumption`;
`VaultAssumption`; `ResolutionAssumption`; `BoundsAssumption` of the composition),
and the hypotheses their statements name: `Alone`, `Serial` and `FilesOnly`, which
the violation runs show to be needed, `Bounded` of `TextSync` and `HostRegistration`
(the bounds are numbers), and `Sound` of `WebSettings` (no directory is listed in
two vaults).

`GitVaultProofs`

- `GitTypeCorrect`: `Spec => []TypeOK`, by induction with one step per action.
  `TypeOK` contains `gen \in 0..stages`, which is what lets a timer be compared
  with the event that armed it.
- `StagedWorkSurvives`: `FilesOnly => (Spec => []StagedWorkRecorded)`. The
  property is not inductive: a stage writes the index at its end, for paths whose
  markers it wrote one by one while it ran, and an initialisation removes
  markers. The invariant `IInv` adds that every path a running stage has
  handled (`done`) is in the marker, that `done` belongs to a running stage, and
  that an initialisation reaches the removal of the markers with nothing left
  staged. `FilesOnly` (every path is a file) is necessary, as `git_vault_dirs`
  shows.
- `CommitIsScoped`: `Spec => CommitTouchesOwnedOnly`, from an invariant on the
  tree a commit has prepared: outside its paths it is its parent's, and the
  commit succeeds only if HEAD is still that parent. It holds with directories
  too; for files the run checks it as part of `ImplementsVaultHistory`.
- `DebounceIsQuiet`: `Spec => QuietPeriod`, from an invariant that relates the
  generation each timer holds to the event that armed it until a reset.
- `RecoveryFinishes`: `FilesOnly => (Spec => RecoveryComplete)`.
- `VaultImplementsHistory`: `FilesOnly => (Spec => ImplementsVaultHistory)`. What
  the invariants above lack is that the batch of a running server covers all that
  waits (`CoverInv`): a path enters the batch before the index is written, and a
  recovery puts every marked file that differs from HEAD in its batch. Then
  `CommitIsCommit` shows that a commit leaves nothing waiting, `RecoverIsRecover`
  that a recovery drops only what HEAD has, and `StepIsHistory` maps every other
  step. With directories `RecoverIsRecover` fails, by the finding of
  `git_vault_dirs`.
- `OnlyDirectoriesAreForgotten`, without `FilesOnly`: a file that is staged, not
  committed and named by no marker (`Unrecorded`) was so before the step, or the
  step is a recovery that drops the marker of a directory above it. So the
  finding of `git_vault_dirs` is the only way a marker is lost too early. It
  rests on the part of `IInv` that is inductive for directories too (`Books`),
  through one lemma (`MarkersStep`), from which the step of `IInv` follows as well.
- `NothingGoesUnlisted`: `StatusAccounts` of `GitInspection`, which `files_and_functions`
  checks as part of `HistoryRetraced`, for every repository: it needs no
  induction, only that no file's content is the mark for "no file".

`EmbeddingQueueProofs`

- `EmbeddingTypeCorrect`: `Spec => []TypeOK`, with the state of each drainer's
  pass (`PassState`) as the strengthening.
- `NothingIsMissed`: `Alone => (Spec => []UnqueuedIsFresh)`. The inductive
  invariant adds that one pass runs at a time (`OnePass`), that the text a
  drainer read is the note's text unless the note has been signalled again
  (`ReadIsCurrent`), and which rows already follow that text at each stage of
  the pass (`RowsFollowText`). Both leave out the notes in `dropped`: a move or a
  deletion of a directory changes notes nobody is told of, and a drainer that has
  read such a note writes rows of what it was. `embedding_queue_dirs` shows that this
  exception is needed. `Alone` is necessary, as `embedding_queue_race`
  shows.

- `QueueImplementsFreshIndex`: under `Alone`, every behaviour of the queue's initial
  states and steps is one of `FreshIndex`'s, for any notes, contents, drainers and
  bounds. The mapping needs `RefineInv`: besides what `NothingIsMissed` rests on, a
  note without a signal is neither queued nor about to be read unless an event of it
  is due (`NoWorkForLost`): a drainer that has read a note before its directory
  changed goes on, and the note is lost when it ends. One lemma per action says
  which abstract step it is, or that it is none. The fairness of `FreshIndex` is
  checked by TLC alone (`ImplementsFreshIndex`).

`WritePipelineProofs`, for any number of vaults and calls

- `WriteTypeCorrect`: `Spec => []TypeOK`, and `WritersNeverDeadlock`:
  `Spec => []NobodyIsStuck`, both from `TypeInv`. Besides the types it says
  (`HoldInv`) that a waiting call holds exactly the vaults of its request below
  the next one it needs, that an idle call holds none, and that a routed event
  lies in held vaults. With that, if every call in progress waits, the one that
  wants the highest vault finds it free: its holder would want a higher one.
- `LogKeepsOrder`: `Spec => []LogInOrder`. Not inductive, as a record must not be
  older than those before it. `OrderInv` adds `NewestOf`: while a call carries
  an operation that a vault's log still waits for, no record of that vault is
  newer. It rests on the lock: another call cannot log there in between.
- `OperationsStayOnRecord`: `Spec => []OnRecord`, with `LoggedOf`, which says
  for a call in its log phase which of its vaults have a record already.
- `CleanRoutesAreSeen`: `Spec => CleanRouteIsSeen`. `SeenInv` says what a call
  that has met no failure has got done in each phase: indexes that show their
  entries, an empty buffer in the vaults the log step has been to, the writes of
  their logs among those still to tell (`LogTold`), and the event told to git,
  then to search. It is kept by everybody else because a call's step disturbs
  only vaults it has locked (`StepDisturbs`), and the flush at shutdown, which
  takes no lock, only vaults where records wait (`FlushDisturbs`).
- `CallsTakeTurns`: `Spec => ImplementsVaultTurns`. The mapping needs `EventsInv`
  (the writes of indexes and logs that a call has still to tell of are in vaults it
  has locked), which makes telling them work on its own vaults. `StepSteady` says
  that a call's step changes nothing of a vault it has not locked,
  `StepKeepsRecords` that it adds lines and loses no record, and one lemma per
  abstract step says which steps of the code are that one.
- `OnlyTwoToolsEscape`: `Spec /\ []RoutedTools => []EveryWriteIsRouted`, where
  `RoutedTools` says that no call is a `vault_log_append` or a
  `vault_index_rebuild`. The run `write_pipeline_tools` shows those two writing
  past git and search; this shows that no other tool does. The invariant
  (`RoutedInv`): unless something failed, no record is buffered, so that the
  flush has nothing to write, and what a sink does not know some call owes it
  (`Owes`), by the phase the call is in.

`LinkGraphProofs`, for any processes, notes, links and bounds; all but the first
under `Serial`, as `link_graph_overlap` shows to be necessary

- `GraphTypeCorrect`: `Spec => []TypeOK`. `TypeInv` adds what a process holds at
  each step of its operation (`PhaseOk`).
- `CaughtUp`: `Spec => []CaughtUpIsCurrent`, and `NoIdHandedOutTwice`: `Spec =>
  NoEdgeOverwritten`. Both speak of what is so until a persist fails, a process
  stops in a mutation, or reads are torn (`Whole`): with every read a step, the code
  does fail them after a torn read, also with mutations in turn (section 6). Neither
  is inductive. The relation that is one, `GraphFollows(graph, g)`, says that a
  graph brought up to generation `g` agrees with the store about every node and edge
  that no later generation speaks of, unless the store has been cleared since. It
  holds of a delta that reads more rows than it reports, because applying them again
  changes nothing they say, and of a load whose nodes and edges are of different
  generations. `GraphInv` puts it together: mutations exclude each other, and as
  long as all is `Whole`, the log's records say of the store what no later one
  contradicts (`RowsHold`), each process's memory follows the store from what it has
  seen (`MemoryInv`), and one that mutates is up to date when it acts
  (`MutationInv`).
- `StoreIsTheVaults`: `Spec => []StoreHoldsVaultLinks`, by counting: an upsert or a
  rebuild adds one edge with an id of its own for each link, so the edges of a note
  are as many as its links (`Holds`). `VaultInv` says this of the store for every
  note whose change is not under way and that has not changed with its directory,
  and of a rebuild's memory for the notes it has wired (`WiringInv`). TLC checked
  `GraphInv` and `VaultInv` first.
- `SeenIsAppliedUnlessFailed`: `Spec => [](Whole => SeenIsApplied)`. The run
  `link_graph_rebuild` shows the property false after a stop inside a rebuild;
  without such a failure, and without a log pruned while it is read, it holds. The
  invariant (`BooksInv`) is about the store alone: between rebuilds it holds under
  each path what the last generation that speaks of it left there. A commit is one
  more generation (`CommitAccounts`), a rebuild's a reset that speaks of all paths
  and finds them empty; `GraphInv` carries it to the memory of a process that has
  caught up.

`WebSettingsProofs` and `HostRegistrationProofs`

- `SettingsTypes`: types, and a `web.toml` that stays valid. `AppsKeepTheirServers`:
  `Spec => NoAppLosesItsServer`, from what a request under way knows (`Knows`): of
  a vault that it has asked and nobody changed, each registered app that needs a
  name which is to go has been noticed (`Noticed`). The apps that an error of a tool
  has hidden are left out, in the property and here. As an app is registered only
  if no earlier directory has its slug, this needs that the slugs taken are
  those of earlier apps (`SlugsTaken`), and one vault at a time (`OneVault`).
- `RegistrationTypes`, and `UndoFromBackup`: `Spec => []EditsCanBeUndone`. The
  property speaks of two moments of a call; `Undisturbed` says for all of them that
  the file is still as the call found it, then as the call made it from that, and
  `BackedUp` that a backup which is still the call's own is of that file.

`FilesAndTextProofs`

- `FileTypeCorrect`, `ToolsReplaceWhatTheySaw` and `DeletionsAreScoped`, below; and
  of the composition, which is what the run checks, `PartsTypes`, `AnswersAreFresh`,
  `RegistrationsCanBeUndone` and `RunningAppsKeepTheirServers`: each step of the
  composition is a step of one part or none of it (`PartsRun`), the constants of
  the run meet what the parts' theorems ask (`PartsAreSound`), so these hold of it.

`FileMutations`, in `FilesAndTextProofs`, for any calls, notes and contents

- `FileTypeCorrect`: `Spec => []TypeOK`. To follow the steps of a call through
  plans and looks, `TypeInv` says which steps each kind of call may have
  (`Allowed`): an edit writes, and a restore writes or deletes what tools made.
- `ToolsReplaceWhatTheySaw`: `Spec => ConflictSafe`. The invariant adds that a
  call past its wait holds the lock (`LockInv`), and that what a call about to
  act has looked at is still there, but for what the other program touched
  (`LookedAt`). The lock is what makes it inductive: no second call can act
  between the two.
- `DeletionsAreScoped`: `Spec => DeletionsSpareNotes`, from the same invariant:
  a folder was empty when it was looked at, and the deletions of a restore are
  of `Allowed` steps.

`TextSyncProofs`, for any processes, notes, texts and numbers of changes and
queries, under `Bounded` (the absent text is no text, and the bounds are numbers)

- `TextTypeCorrect`: `Spec => []TypeOK`, from `TypeInv`, which adds that an event
  in progress has something left to do and that what was read exists.
- `QueriesAreFresh`: `Spec => []QueryFresh`. Two facts are added. `HistoryInv`:
  there is one content per modification time, so an entry that is not torn and
  has its file's time has its file's content. `QueryInv`: for each note that
  nobody disturbs, either the refresh has still to come to it, and its entry is
  then the one the refresh listed if the times agree (`Unread`), or it has
  passed it, and the note is being read, is pending with its content, or is
  current in the index and in the reader (`Scan`). The proof asks for the exemption
  of torn entries also where a moved file comes back: with five changes TLC
  finds that case, with the two of the run it does not occur.

Where a proof needs a least element (the vault to lock or log next, the first link
or generation of some kind), it is taken from the well-foundedness of the naturals
(`WFMin`), which the provers can instantiate.

Only model-checked: liveness (`EventuallyCommitted`, `EventuallyFresh`, and the
fairness in `ImplementsFreshIndex`), because the proof system has no rule for
fairness here; and the properties of the algorithms, but for `StatusAccounts`: the
algorithms are folds and recursive operators over their inputs, and what these
compute for every input needs induction over data, which the installed provers
cannot do. The properties
of the violation runs are false as they stand: theorems say what does hold
(`SeenIsAppliedUnlessFailed`, `OnlyTwoToolsEscape`, `OnlyDirectoriesAreForgotten`,
`DebounceIsQuiet`, and `NoIdHandedOutTwice` and `NothingIsMissed` under `Serial`
and `Alone`).

## 6. Boundaries of the properties

Where a module states a property under a precondition, the code does something
else outside it. These are the places, with what the code does there.

Search and retrieval
- The prefix of a semantic query is matched without case (SQL `LIKE`) and that
  of a text query with it; a limit of 0 gives one text hit and no semantic one.
- Excluded paths are applied to the nearest chunks once these have been taken
  (`vector_store.rs` line 414), so each of them costs a place. The module's comment
  (lines 46-50) denies it: "resolved the same way, as one `rowid NOT IN (...)` clause
  per entry in the same statement, so an exclusion never causes the same under-count
  either". `AnswersInScope` states the shortfall.
- A semantic query that meets one note which is no text any more fails as a whole
  (`service.rs` line 660), where it passes over one that is gone.
- A hit's text is read again by its position, so after an edit that nobody has
  indexed yet it may be another text than the one embedded.
- A note that is not UTF-8 any more keeps its old text entry and counts as stale
  from then on.
- `query_index_rebuild` reports "Semantic index is fully up to date." when all
  that was left failed, and when a call only drained an earlier queue, so that nobody
  has looked for what others wrote. Its documentation (`tools/query.rs` lines 156-158
  and 614-617) says of zero remaining that "the semantic index is fully caught up".
  `StaleIsRefreshed` states which notes are stale then; a call that has walked the
  notes counts them all in `failed`, by which its caller can tell. With text
  search off, a rebuild of everything is refused after the graph's part is done.
- A provider's answer with an index twice, or without one, is accepted.
- A refresh that reads a file across a change indexes it under the older time.
  If the file that had that time is later moved back under the name, and the
  move's event is lost, the next refresh finds an equal time and keeps the text.

Link graph and embedding queue
- `read_metadata` reads the next edge id and the generation in separate statements
  (`sqlite_store.rs` lines 321 and 328). When a sibling persists in between, the
  process takes an old next id for the new generation. `build_graph` does not compute
  it again from the edges, and the next mutation upserts an edge over the sibling's
  (line 190), although no two mutations overlap. A reload and a replayed edge put the
  next id right, so the window ends with the next catch-up that finds an edge. This is
  what the comment in `graph/mod.rs` (lines 978-982) wants to exclude: "without this, a
  later *local* mutation on this instance could allocate a `store_id` a sibling has
  already used, silently colliding two unrelated edges into one stored row".
- `changes_since` checks the retention (line 404) and reads the rows later (line 437).
  A sibling that prunes the log in between (line 245) takes a generation away that is
  then neither applied nor missed: the process counts as caught up without it.
  `LinkGraph` takes both as they are and says in `torn` that they have happened;
  its properties and theorems hold up to there.
- A move of a directory (`tools/fs.rs` line 362) and the deletion of one by a restore
  (`contextos-git/src/lib.rs` line 669) make an event that names directories. Neither
  `update_graph` (`service.rs` lines 538-548) nor `enqueue_semantic` (lines 622-645)
  looks below them: the notes keep their nodes, edges and vectors under the old names
  and get none under the new ones, until each is changed or the graph is rebuilt; the
  vectors of the old names outlive a semantic rebuild too, which walks what exists.
  `semantic_drain.rs` (lines 9-12) promises otherwise, which is the finding of
  `embedding_queue_dirs`; of the graph no document speaks.

Files and reads
- The re-read before a restore writes takes only the hash, so an edit since the
  plan is overwritten; a historical empty file that is missing is not restored;
  a directory is removed with files in it that were never tracked.
- A refused deletion of a folder has already lost the folder's `index.md`.
- A batch calls a text of exactly the threshold's size cut, a single read does
  not; `bounded_preview` can exceed its size by a character and may call a
  complete text shortened.
- A resource that is a link out of its vault, or to nothing, makes the count of
  resources fail, and `vault_info` with it.
- Vault roots inside each other give one file two names; `Doctor` has none.

Formats
- An earlier link to a missing `n.md` makes a phantom that catches a later
  `[[n]]`; `[[#heading]]` is unresolved for `links_read` and no link for the
  graph; targets with dots, with `.md` or of attachments resolve differently;
  `links_read` ignores case, the graph does not; an open backtick in a comment's
  line hides the end of the comment; both kinds of fence close each other.
- A filter of a base that names a directory narrows the scan by the string it is
  (`tools/base_query.rs` lines 150-178 and 333-337): `./a`, `a/`, an absolute path, a
  hidden directory or a directory of another vault give rows that are spelled so, or
  that a scan of the vault would not have. The documentation of the hint
  (`contextos-obsidian/src/base_query.rs` lines 298-304) says that "a caller ignoring
  this or scanning a broader root than it suggests cannot change which rows match".
  `QueryExact` holds it to that for the hints that spell a directory as the vault does,
  and says of the others what their rows are.
- One note with a colon in its name makes every `base_query` that scans it fail
  (`tools/base_query.rs` line 295), where an unreadable one is passed over.
- `file.asLink` with a null id is left out.
- In a canvas that is invalid because two nodes share an id, removing one drops
  the edges of both. A group encloses its members except where coordinates
  saturate.

Configuration, doctor, registration and settings
- A configuration whose `search` or `server` is an inline table; a vault whose
  effective name differs from the one displayed because its path is a link.
- `doctor_resolve` reports `resolved: true` even if the repair failed; a note
  whose frontmatter has a template's braces passes the check and still stops the
  index; an unborn repository is not called fixable though `git_init` would fix
  it, and a broken `.git` is called fixable though nothing fixes it.
- Two backups of a host's file in one second are one; a forced write, or a host
  that writes meanwhile, loses the entry; registering again drops fields the
  operator added; whether the host runs is looked up before the file is read.
- A settings request takes a tool's error for an answer with nothing in it: no list
  of vaults (`routes/settings.rs` lines 597-600), no listing of a vault's apps
  (`apps.rs` lines 157-162), no manifest (lines 189-191). The edit is then written
  though a registered app needs the server, while `routes/settings.rs` (lines 6-9) says
  that every writing method "checks that no currently-registered app's manifest still
  names a server the edit would remove, before persisting anything".
  `NoAppLosesItsServer` excuses the apps that such an answer has hidden, no others.
- Two settings requests at once can lose one another's edits; `serve` looks for
  an app under its slug where its directory may be named otherwise.

Managed index
- A summary taken from a note is not refreshed once written, and a name that
  contains `](` loses a summary written by hand. A reconciliation creates an
  index in a directory whose name begins with a dot, which a rebuild never
  enters. One note with broken frontmatter stops the reconciliation of its
  directory and of those above.

Ephemeris
- `transition` measures 365.25 days and not to the next birthday, ranges extend a
  day and a tolerance beyond the last midnight, and near the year 9999
  `personal_year_period_changes_in_range` does not end. Tolerances of more than
  52 days or two lunations miss boundaries.

Git inspection
- `git_diff` takes its path filter as a pattern and `git_log` as a path. A diff
  that loses a character's bytes to fit is not always marked as cut.

## 7. Not modelled

- A crash of the server between a mutation and its route: the modules have
  crashes only where the code recovers something (`GitVault`) or keeps a store
  (`LinkGraph`, `EmbeddingQueue`).
- The fjall and serde graph stores serve one process, have no change log, and
  share the sqlite store's trait. The order in which the serde store reloads
  parallel edges may change which of them a route names.
- Ranking of text queries, distances of vectors, the local model.
- Histories with merges, the text of a diff, pathspec patterns.
- The text of log lines, tables and notes: how they are rendered, how legacy
  lines are migrated; frontmatter edits, callouts, the normal form of tags.
- Malformed wikilinks in `LinkGraph`: an update keeps the old edges, a rebuild
  has none.
- Mermaid (an external parser), the HTTP transport and the web front end beyond
  its settings, rendering, progress notices, the command line: they keep no
  state that something else relies on.
- The series for sun and moon and dynamical time.

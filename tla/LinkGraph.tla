------------------------------ MODULE LinkGraph -----------------------------
(***************************************************************************)
(* The link graph of one vault (contextos-search, graph/mod.rs) over the   *)
(* sqlite store, which several server processes hold open at once.  Each   *)
(* process keeps the whole graph in memory; every public operation first   *)
(* catches up with what siblings have persisted since the generation it    *)
(* last saw, and a mutation then persists its changes as one generation of *)
(* the change log.  A rebuild clears the store and writes it afresh.       *)
(*                                                                         *)
(* A process's own mutex makes its operations exclude each other, so a     *)
(* process is in one operation at a time; between processes only single    *)
(* store transactions are atomic.  Titles, edge kinds and petgraph's slot  *)
(* numbers are left out: an edge is its id and the two paths it joins.     *)
(***************************************************************************)
EXTENDS Naturals, Sequences, FiniteSets

CONSTANTS Proc,       \* server processes
          Note,       \* paths of notes
          Target,     \* wikilink targets as written
          Tried,      \* Tried[t]: the paths exact_or_extended_match looks up
          Named,      \* Named[t]: notes with file stem t, smallest path first
          LinkLists,  \* link lists a note may have
          Moves,      \* what moves of directories do to notes below: old path to new
          Absent,     \* the vault has no such note
          Nil,        \* no scan is held
          Retention,  \* generations the change log keeps (10 000 in the code)
          Serial,     \* TRUE: mutations of two processes never overlap
          MaxGen,     \* bound: generations persisted
          MaxFail,    \* bound: store writes that fail
          MaxCrash    \* bound: processes that stop

Key == Note \cup Target

ASSUME ResolutionAssumption ==
    /\ Tried \in [Target -> Seq(Key)] /\ \A t \in Target : Tried[t] # << >> /\ Tried[t][1] = t
    /\ Named \in [Target -> Seq(Note)]
    /\ LinkLists \subseteq Seq(Target)
    /\ Absent \notin LinkLists
    /\ \A m \in Moves : DOMAIN m \in SUBSET Note /\ m \in [DOMAIN m -> Note]

ASSUME BoundAssumption ==
    /\ Retention \in Nat \ {0}
    /\ Serial \in BOOLEAN
    /\ MaxGen \in Nat /\ MaxFail \in Nat /\ MaxCrash \in Nat

VARIABLES store,   \* nodes, edges and next_edge_id as the tables hold them
          log,     \* log[g]: the changes persisted as generation g
          mem,     \* mem[p]: graph, edge ids and next_edge_id of process p
          seen,    \* last_seen_generation
          trusted, \* ~needs_rebuild
          pc,      \* where process p is in its operation
          op,      \* the operation it is in
          buf,     \* what a catch-up or load has read so far
          scan,    \* notes a rebuild has collected, before it takes the mutex
          vault,   \* the links of each note file
          fault,   \* history: a persist failed, or a process stopped midway
          outdated,\* history: a rebuild installed notes scanned before a change
          torn,    \* history: reads of the store with a sibling's commit between them
          unheard, \* history: notes changed with their directory since the graph took them
          fails, crashes

vars == <<store, log, mem, seen, trusted, pc, op, buf, scan, vault, fault, outdated,
          torn, unheard, fails, crashes>>

Kinds == {"none", "real", "phantom"}
Phases == {"closed", "idle", "log", "rows", "applying", "meta", "generation", "nodes", "edges",
           "acting", "clearing", "cleared", "persisted"}

NoGraph == [nodes |-> [k \in Key |-> "none"], edges |-> {}, next |-> 0]
NoOp == [kind |-> "none"]
Notes == [Note -> LinkLists \cup {Absent}]
Gen == Len(log)

Ids(es) == {e.id : e \in es}
From(es, k) == {e \in es : e.from = k}
Touching(es, ks) == {e \in es : e.from \in ks \/ e.to \in ks}

-----------------------------------------------------------------------------
(* The graph in memory.                                                     *)

\* resolve_target: an exact or extended match of any node, then a real note of
\* that name, then a phantom keyed by the target.
Resolve(nodes, t) ==
    LET found == SelectSeq(Tried[t], LAMBDA k : nodes[k] # "none")
                 \o SelectSeq(Named[t], LAMBDA k : nodes[k] = "real")
    IN  IF found = << >> THEN t ELSE Head(found)

\* A phantom is created for a target nothing matches.
WithPhantoms(nodes, ks) == [k \in Key |-> IF nodes[k] = "none" /\ k \in ks THEN "phantom" ELSE nodes[k]]

\* What the links of a note resolve to, one after the other: each sees the
\* phantoms of those before it.
Resolutions(nodes, links) ==
    {ks \in [DOMAIN links -> Key] : \A i \in DOMAIN links :
        ks[i] = Resolve(WithPhantoms(nodes, {ks[j] : j \in 1..i - 1}), links[i])}

\* wire_links: an edge for each link, with the next ids.
Wired(g, n, ks) ==
    [nodes |-> WithPhantoms(g.nodes, {ks[i] : i \in DOMAIN ks}),
     edges |-> g.edges \cup {[id |-> g.next + i - 1, from |-> n, to |-> ks[i]] : i \in DOMAIN ks},
     next  |-> g.next + Len(ks)]

\* Mutant: the edges of the note's former text stay.
MutClearOutgoing(g, n) == g

ClearOutgoing(g, n) == [g EXCEPT !.edges = @ \ From(@, n)]

\* The graphs an upsert can make; the links decide which.
UpsertNote(g, n, links) ==
    LET h == ClearOutgoing([g EXCEPT !.nodes = [@ EXCEPT ![n] = "real"]], n)
    IN  {Wired(h, n, ks) : ks \in Resolutions(h.nodes, links)}

\* A note others still link to becomes a phantom; phantoms without an edge go.
RemoveNote(g, n) ==
    LET h == ClearOutgoing(g, n)
        linked(k) == Touching(h.edges, {k}) # {}
        kept == [h.nodes EXCEPT ![n] = IF @ # "none" /\ linked(n) THEN "phantom" ELSE "none"]
    IN  [h EXCEPT !.nodes = [k \in Key |-> IF kept[k] = "phantom" /\ ~linked(k)
                                           THEN "none" ELSE kept[k]]]

\* A rebuild makes every note's node first, so that each link can resolve to any.
Present(notes) == {n \in Note : notes[n] # Absent}

Unlinked(notes) == [NoGraph EXCEPT !.nodes = [k \in Key |-> IF k \in Present(notes) THEN "real" ELSE "none"]]

-----------------------------------------------------------------------------
(* Persisted changes.                                                       *)

\* persist_changes: what the operation did to the graph, as records.
Changes(before, after, touched, reset) ==
    LET put == {k \in Key : after.nodes[k] # before.nodes[k]} \cup touched IN
      [reset |-> reset,
       gone  |-> {k \in put : after.nodes[k] = "none"},
       nodes |-> [k \in {k \in put : after.nodes[k] # "none"} |-> after.nodes[k]],
       cut   |-> Ids(before.edges \ after.edges),
       edges |-> after.edges \ before.edges]

Renode(nodes, b) ==
    [k \in Key |-> IF k \in DOMAIN b.nodes THEN b.nodes[k]
                   ELSE IF k \in b.gone THEN "none" ELSE nodes[k]]

\* An edge row or record replaces the one with its id.
PutEdges(es, new) == {e \in es : e.id \notin Ids(new)} \cup new

\* persist_once: the tables and the metadata, in one transaction.
Persist(s, b, next) ==
    [nodes |-> Renode(s.nodes, b),
     edges |-> PutEdges({e \in s.edges : e.id \notin b.cut}, b.edges),
     next  |-> next]

\* Mutant: the allocator is not moved past the ids siblings used.
MutNextAfter(next, es) == next

NextAfter(next, es) ==
    CHOOSE i \in {next} \cup {e.id + 1 : e \in es} :
        \A j \in {next} \cup {e.id + 1 : e \in es} : j <= i

\* apply_external_changes: removing a node takes its edges along, and an edge
\* brings its end points.
ApplyExternal(g, b) ==
    LET nodes == Renode(g.nodes, b)
        ends == {e.from : e \in b.edges} \cup {e.to : e \in b.edges}
        left == g.edges \ Touching(g.edges, b.gone)
    IN  [nodes |-> [k \in Key |-> IF k \in ends /\ nodes[k] = "none"
                                  THEN "phantom" ELSE nodes[k]],
         edges |-> PutEdges({e \in left : e.id \notin b.cut}, b.edges),
         next  |-> NextAfter(g.next, b.edges)]

-----------------------------------------------------------------------------
(* Catching up, and loading.                                                *)

Mutating(p) == op[p].kind \in {"upsert", "remove", "rebuild"}

MayMutate(p) == Serial => \A q \in Proc \ {p} : ~Mutating(q)

\* catch_up's check: nothing to do, or a log to read.
Enter(p) == pc' = [pc EXCEPT ![p] = IF Gen <= seen[p] THEN "acting" ELSE "log"]

\* Where a process goes once it has caught up.
Resumed(p) == IF op[p].kind \in {"upsert", "remove"} THEN "acting" ELSE "idle"

AfterCatchUp(p) ==
    /\ pc' = [pc EXCEPT ![p] = Resumed(p)]
    /\ op' = [op EXCEPT ![p] = IF Resumed(p) = "idle" THEN NoOp ELSE @]
    /\ buf' = [buf EXCEPT ![p] = Nil]

\* A query when a sibling has persisted something.
Query(p) ==
    /\ pc[p] = "idle" /\ Gen > seen[p]
    /\ op' = [op EXCEPT ![p] = [kind |-> "query"]]
    /\ Enter(p)
    /\ UNCHANGED <<store, log, mem, seen, trusted, buf, scan, vault, fault, outdated, torn, unheard, fails, crashes>>

\* Mutant: a delta is merged although the store was cleared meanwhile.
MutResetIn(gens) == FALSE

ResetIn(gens) == \E g \in gens : log[g].reset

\* changes_since, until its rows: a reset or too old a start asks for a reload.  Its
\* reads of the generation and of the resets are one step here: what a sibling
\* persists between them asks for a reload too, or might as well come after both.
CheckLog(p) ==
    /\ pc[p] = "log"
    /\ IF seen[p] + Retention < Gen \/ ResetIn(seen[p] + 1 .. Gen)
       THEN pc' = [pc EXCEPT ![p] = "meta"] /\ UNCHANGED buf
       ELSE pc' = [pc EXCEPT ![p] = "rows"] /\ buf' = [buf EXCEPT ![p] = [gen |-> Gen]]
    /\ UNCHANGED <<store, log, mem, seen, trusted, op, scan, vault, fault, outdated, torn, unheard,
                   fails, crashes>>

\* Its rows: those the log keeps by now, which may begin later than was checked, end
\* later than is reported, and have a reset among them, which is ignored.  "at" is the
\* generation whose rows have been applied, "to" the last that has some.
ReadRows(p) ==
    /\ pc[p] = "rows"
    /\ LET kept == IF seen[p] + Retention < Gen THEN Gen - Retention ELSE seen[p] IN
         /\ buf' = [buf EXCEPT ![p] = [gen |-> @.gen, at |-> kept, to |-> Gen]]
         /\ torn' = (torn \/ kept # seen[p])
    /\ pc' = [pc EXCEPT ![p] = "applying"]
    /\ UNCHANGED <<store, log, mem, seen, trusted, op, scan, vault, fault, outdated, unheard,
                   fails, crashes>>

\* The rows are in memory by now; those of one generation are applied.
ApplyRows(p) ==
    /\ pc[p] = "applying" /\ buf[p].at < buf[p].to
    /\ mem' = [mem EXCEPT ![p] = ApplyExternal(@, log[buf[p].at + 1])]
    /\ buf' = [buf EXCEPT ![p] = [gen |-> @.gen, at |-> @.at + 1, to |-> @.to]]
    /\ UNCHANGED <<store, log, seen, trusted, pc, op, scan, vault, fault, outdated, torn, unheard, fails, crashes>>

RowsApplied(p) ==
    /\ pc[p] = "applying" /\ buf[p].at = buf[p].to
    /\ seen' = [seen EXCEPT ![p] = buf[p].gen]
    /\ trusted' = [trusted EXCEPT ![p] = TRUE]
    /\ AfterCatchUp(p)
    /\ UNCHANGED <<store, log, mem, scan, vault, fault, outdated, torn, unheard, fails, crashes>>

Open(p) ==
    /\ pc[p] = "closed"
    /\ pc' = [pc EXCEPT ![p] = "meta"]
    /\ op' = [op EXCEPT ![p] = [kind |-> "open"]]
    /\ UNCHANGED <<store, log, mem, seen, trusted, buf, scan, vault, fault, outdated, torn, unheard, fails, crashes>>

\* A store that cannot be loaded opens as an empty graph that asks for a
\* rebuild; a reload that cannot be completed fails the operation it serves.
LoadFails(p) ==
    /\ pc' = [pc EXCEPT ![p] = "idle"]
    /\ op' = [op EXCEPT ![p] = NoOp]
    /\ buf' = [buf EXCEPT ![p] = Nil]
    /\ fault' = (fault \/ Mutating(p))
    /\ UNCHANGED <<mem, seen, trusted>>

\* load_snapshot's reads: next_edge_id and the generation of the metadata, the
\* nodes, the edges.
ReadNextId(p) ==
    /\ pc[p] = "meta"
    /\ IF Gen = 0
       THEN LoadFails(p)
       ELSE /\ pc' = [pc EXCEPT ![p] = "generation"]
            /\ buf' = [buf EXCEPT ![p] = [next |-> store.next]]
            /\ UNCHANGED <<mem, seen, trusted, op, fault>>
    /\ UNCHANGED <<store, log, scan, vault, outdated, torn, unheard, fails, crashes>>

\* The reads are torn where an edge has an id that would be handed out again.
ReadGeneration(p) ==
    /\ pc[p] = "generation"
    /\ buf' = [buf EXCEPT ![p] = [gen |-> Gen, next |-> @.next]]
    /\ torn' = (torn \/ \E e \in store.edges : e.id >= buf[p].next)
    /\ pc' = [pc EXCEPT ![p] = "nodes"]
    /\ UNCHANGED <<store, log, mem, seen, trusted, op, scan, vault, fault, outdated, unheard,
                   fails, crashes>>

ReadNodes(p) ==
    /\ pc[p] = "nodes"
    /\ buf' = [buf EXCEPT ![p] = [gen |-> @.gen, next |-> @.next, nodes |-> store.nodes]]
    /\ pc' = [pc EXCEPT ![p] = "edges"]
    /\ UNCHANGED <<store, log, mem, seen, trusted, op, scan, vault, fault, outdated, torn, unheard, fails, crashes>>

\* build_graph refuses an edge whose end point is not among the nodes.
Dangling(nodes, es) == \E e \in es : nodes[e.from] = "none" \/ nodes[e.to] = "none"

ReadEdges(p) ==
    /\ pc[p] = "edges"
    /\ IF Dangling(buf[p].nodes, store.edges)
       THEN LoadFails(p)
       ELSE /\ mem' = [mem EXCEPT ![p] =
                         [nodes |-> buf[p].nodes, edges |-> store.edges, next |-> buf[p].next]]
            /\ seen' = [seen EXCEPT ![p] = buf[p].gen]
            /\ trusted' = [trusted EXCEPT ![p] = TRUE]
            /\ AfterCatchUp(p)
            /\ UNCHANGED fault
    /\ UNCHANGED <<store, log, scan, vault, outdated, torn, unheard, fails, crashes>>

-----------------------------------------------------------------------------
(* Mutations.                                                               *)

\* A tool changes a note, and the event reaches update_graph, which reads the
\* note back and takes the graph's mutex; the root lock keeps the server's
\* other tools out in between.
Mutate(p, n, links) ==
    /\ pc[p] = "idle" /\ MayMutate(p) /\ Gen < MaxGen
    /\ vault[n] # links
    /\ vault' = [vault EXCEPT ![n] = links] /\ unheard' = unheard \ {n}
    /\ op' = [op EXCEPT ![p] = IF links = Absent THEN [kind |-> "remove", note |-> n]
                               ELSE [kind |-> "upsert", note |-> n, links |-> links]]
    /\ Enter(p)
    /\ UNCHANGED <<store, log, mem, seen, trusted, buf, scan, fault, outdated, torn, fails, crashes>>

\* A tool moves or deletes a directory.  The event names the directory, which is no
\* note in scope, so the graph hears nothing of the notes below it.
WithDirectory(p, v) ==
    /\ pc[p] # "closed" /\ op[p].kind \notin {"upsert", "remove"}
    /\ v # vault /\ vault' = v
    /\ unheard' = unheard \cup {n \in Note : v[n] # vault[n]}
    /\ UNCHANGED <<store, log, mem, seen, trusted, pc, op, buf, scan, fault, outdated, torn,
                   fails, crashes>>

\* fs_move_file: the notes that m moves keep their text under their new names.
MoveDirectory(p, m) ==
    /\ \A n \in DOMAIN m : vault[m[n]] = Absent
    /\ WithDirectory(p, [n \in Note |->
         IF n \in DOMAIN m THEN Absent
         ELSE IF \E k \in DOMAIN m : m[k] = n THEN vault[CHOOSE k \in DOMAIN m : m[k] = n]
         ELSE vault[n]])

\* git_restore of a commit without the directory, which is deleted with what it has.
RestoreDeletes(p, m) ==
    WithDirectory(p, [n \in Note |-> IF n \in DOMAIN m THEN Absent ELSE vault[n]])

\* The graphs it can make of the memory.
Acted(p) ==
    IF op[p].kind = "upsert" THEN UpsertNote(mem[p], op[p].note, op[p].links)
                             ELSE {RemoveNote(mem[p], op[p].note)}

Touched(p) ==
    IF op[p].kind = "upsert" \/ mem[p].nodes[op[p].note] # "none" THEN {op[p].note} ELSE {}

\* The transaction that persists a batch, and the generation it makes.
Commits(p, b, next) ==
    /\ Gen < MaxGen
    /\ store' = Persist(store, b, next)
    /\ log' = Append(log, b)
    /\ pc' = [pc EXCEPT ![p] = "persisted"]
    /\ UNCHANGED <<op, fault, fails>>

\* The memory has changed, the store has not.
CommitRefused(p) ==
    /\ fails < MaxFail /\ fails' = fails + 1
    /\ pc' = [pc EXCEPT ![p] = "idle"]
    /\ op' = [op EXCEPT ![p] = NoOp]
    /\ fault' = TRUE
    /\ UNCHANGED <<store, log>>

Act(p) ==
    /\ pc[p] = "acting"
    /\ \E g \in Acted(p) :
         /\ mem' = [mem EXCEPT ![p] = g]
         /\ Commits(p, Changes(mem[p], g, Touched(p), FALSE), g.next) \/ CommitRefused(p)
    /\ UNCHANGED <<seen, trusted, buf, scan, vault, outdated, torn, unheard, crashes>>

\* Mutant: the generation is counted again by the process that wrote it.
MutWritten == Gen + 1

Written == Gen

\* persist_changes reads the generation back in a transaction of its own.
RecordGeneration(p) ==
    /\ pc[p] = "persisted"
    /\ seen' = [seen EXCEPT ![p] = Written]
    /\ pc' = [pc EXCEPT ![p] = "idle"]
    /\ op' = [op EXCEPT ![p] = NoOp]
    /\ UNCHANGED <<store, log, mem, trusted, buf, scan, vault, fault, outdated, torn, unheard, fails, crashes>>

-----------------------------------------------------------------------------
(* Rebuild, and processes that stop.                                        *)

\* collect_graph_notes walks the vault before the mutex is taken.
CollectNotes(p) ==
    /\ pc[p] # "closed" /\ scan[p] = Nil /\ op[p].kind # "rebuild"
    /\ scan' = [scan EXCEPT ![p] = vault]
    /\ UNCHANGED <<store, log, mem, seen, trusted, pc, op, buf, vault, fault, outdated, torn, unheard, fails, crashes>>

\* The clear is two deletes, each a transaction of its own, that leave the metadata
\* and the log alone; the memory is emptied before.
RebuildClears(p) ==
    /\ pc[p] = "idle" /\ scan[p] # Nil /\ MayMutate(p) /\ Gen < MaxGen
    /\ mem' = [mem EXCEPT ![p] = NoGraph]
    /\ \/ /\ store' = [store EXCEPT !.nodes = NoGraph.nodes]
          /\ pc' = [pc EXCEPT ![p] = "clearing"]
          /\ op' = [op EXCEPT ![p] = [kind |-> "rebuild"]]
          /\ UNCHANGED <<scan, fault, fails>>
       \/ /\ fails < MaxFail /\ fails' = fails + 1
          /\ scan' = [scan EXCEPT ![p] = Nil] /\ fault' = TRUE
          /\ UNCHANGED <<store, pc, op>>
    /\ UNCHANGED <<log, seen, trusted, buf, vault, outdated, torn, unheard, crashes>>

RebuildClearsEdges(p) ==
    /\ pc[p] = "clearing"
    /\ \/ /\ store' = [store EXCEPT !.edges = NoGraph.edges]
          /\ mem' = [mem EXCEPT ![p] = Unlinked(scan[p])]
          /\ buf' = [buf EXCEPT ![p] = [left |-> Present(scan[p])]]
          /\ pc' = [pc EXCEPT ![p] = "cleared"]
          /\ UNCHANGED <<op, scan, fault, fails>>
       \/ /\ CommitRefused(p)
          /\ scan' = [scan EXCEPT ![p] = Nil]
          /\ UNCHANGED <<mem, buf>>
    /\ UNCHANGED <<log, seen, trusted, vault, outdated, torn, unheard, crashes>>

\* The links of the next note.
RebuildWires(p) ==
    /\ pc[p] = "cleared"
    /\ \E n \in buf[p].left : \E ks \in Resolutions(mem[p].nodes, scan[p][n]) :
         /\ mem' = [mem EXCEPT ![p] = Wired(@, n, ks)]
         /\ buf' = [buf EXCEPT ![p] = [left |-> @.left \ {n}]]
    /\ UNCHANGED <<store, log, seen, trusted, pc, op, scan, vault, fault, outdated, torn, unheard, fails, crashes>>

RebuildWrites(p) ==
    /\ pc[p] = "cleared" /\ buf[p].left = {}
    /\ trusted' = [trusted EXCEPT ![p] = TRUE]
    /\ buf' = [buf EXCEPT ![p] = Nil]
    /\ scan' = [scan EXCEPT ![p] = Nil]
    /\ \/ /\ Commits(p, Changes(NoGraph, mem[p], {}, TRUE), mem[p].next)
          /\ outdated' = (outdated \/ \E n \in Note \ unheard : scan[p][n] # vault[n])
          /\ unheard' = {n \in unheard : scan[p][n] # vault[n]}
       \/ CommitRefused(p) /\ UNCHANGED <<outdated, unheard>>
    /\ UNCHANGED <<mem, seen, vault, torn, crashes>>

Stop(p) ==
    /\ pc[p] # "closed" /\ crashes < MaxCrash
    /\ crashes' = crashes + 1
    /\ fault' = (fault \/ (Mutating(p) /\ pc[p] # "persisted"))
    /\ pc' = [pc EXCEPT ![p] = "closed"] /\ op' = [op EXCEPT ![p] = NoOp]
    /\ mem' = [mem EXCEPT ![p] = NoGraph] /\ seen' = [seen EXCEPT ![p] = 0]
    /\ trusted' = [trusted EXCEPT ![p] = FALSE]
    /\ buf' = [buf EXCEPT ![p] = Nil] /\ scan' = [scan EXCEPT ![p] = Nil]
    /\ UNCHANGED <<store, log, vault, outdated, torn, unheard, fails>>

-----------------------------------------------------------------------------

\* An empty vault whose store has never been written.
Init ==
    /\ store = NoGraph /\ log = << >>
    /\ mem = [p \in Proc |-> NoGraph] /\ seen = [p \in Proc |-> 0]
    /\ trusted = [p \in Proc |-> FALSE]
    /\ pc = [p \in Proc |-> "closed"] /\ op = [p \in Proc |-> NoOp]
    /\ buf = [p \in Proc |-> Nil] /\ scan = [p \in Proc |-> Nil]
    /\ vault = [n \in Note |-> Absent]
    /\ fault = FALSE /\ outdated = FALSE /\ torn = FALSE /\ unheard = {}
    /\ fails = 0 /\ crashes = 0

Next ==
    \E p \in Proc :
      \/ Open(p) \/ ReadNextId(p) \/ ReadGeneration(p) \/ ReadNodes(p) \/ ReadEdges(p)
      \/ Query(p) \/ CheckLog(p) \/ ReadRows(p) \/ ApplyRows(p) \/ RowsApplied(p)
      \/ \E n \in Note, links \in LinkLists \cup {Absent} : Mutate(p, n, links)
      \/ \E m \in Moves : MoveDirectory(p, m) \/ RestoreDeletes(p, m)
      \/ Act(p) \/ RecordGeneration(p)
      \/ CollectNotes(p) \/ RebuildClears(p) \/ RebuildClearsEdges(p)
      \/ RebuildWires(p) \/ RebuildWrites(p)
      \/ Stop(p)

Spec == Init /\ [][Next]_vars

-----------------------------------------------------------------------------
(* Properties.                                                              *)

\* Graphs keep their shape, and no process has seen a generation that the
\* store has not reached.
TypeOK ==
    /\ \A g \in {store} \cup {mem[p] : p \in Proc} :
         /\ g.nodes \in [Key -> Kinds]
         /\ \A e \in g.edges : e.id \in Nat /\ e.from \in Note /\ e.to \in Key
         /\ g.next \in Nat
    /\ Gen <= MaxGen
    /\ \A p \in Proc : seen[p] \in 0..Gen
    /\ trusted \in [Proc -> BOOLEAN] /\ pc \in [Proc -> Phases]
    /\ vault \in Notes /\ scan \in [Proc -> Notes \cup {Nil}]
    /\ {fault, outdated, torn} \subseteq BOOLEAN /\ unheard \in SUBSET Note
    /\ fails \in 0..MaxFail /\ crashes \in 0..MaxCrash

Clearing == \E p \in Proc : pc[p] \in {"clearing", "cleared"}

\* Nothing has failed or stopped midway, and no reads were torn.
Whole == ~fault /\ ~torn

\* catch_up: a process that has seen the store's generation holds the store's
\* graph, whatever reads between commits and replayed deltas brought it there.
CaughtUpIsCurrent ==
    \A p \in Proc :
      (pc[p] = "idle" /\ Gen > 0 /\ seen[p] = Gen /\ Whole /\ ~Clearing) =>
        mem[p].nodes = store.nodes /\ mem[p].edges = store.edges

\* The store is the vault's graph once no mutation is under way: every note is
\* a real node with one edge for each of its links, and nothing else links; but
\* for the notes that changed with their directory.
StoreHoldsVaultLinks ==
    (Whole /\ ~outdated /\ \A p \in Proc : ~Mutating(p)) =>
      \A n \in Note \ unheard :
        IF vault[n] = Absent
        THEN store.nodes[n] # "real" /\ From(store.edges, n) = {}
        ELSE store.nodes[n] = "real" /\ Cardinality(From(store.edges, n)) = Len(vault[n])

\* "Without this, a later local mutation on this instance could allocate a
\* store_id a sibling has already used, silently colliding two unrelated edges
\* into one stored row": no write of a row may replace another edge's row, as
\* long as no operation has failed (a refused clear restarts the ids at 0) and
\* no process has read the allocator of one generation under a later one, or a log
\* that was pruned after it was checked.
NoEdgeOverwritten ==
    [][\A e \in store.edges, f \in store'.edges :
         (Whole /\ e.id = f.id /\ Gen' = Gen + 1 /\ ~log'[Gen'].reset /\ e.id \notin log'[Gen'].cut)
           => e = f]_vars

\* The node a generation leaves under a path it speaks of, and the nodes that the
\* persisted generations add up to: under each path what the last one left.
LeavesNode(b, k) == IF k \in DOMAIN b.nodes THEN b.nodes[k] ELSE "none"

SpokenOf(k) == {g \in 1..Gen : log[g].reset \/ k \in log[g].gone \cup DOMAIN log[g].nodes}

AddedUp(k) == IF SpokenOf(k) = {} THEN "none"
              ELSE LeavesNode(log[CHOOSE g \in SpokenOf(k) : \A h \in SpokenOf(k) : h <= g], k)

\* "The generation this instance has applied changes up to": a graph that does
\* not ask for a rebuild, and has seen the last generation, has the nodes that
\* the persisted generations add up to.  A process that stops between the clear
\* of a rebuild and its write leaves an emptied store under the old generation.
SeenIsApplied ==
    \A p \in Proc :
      (pc[p] = "idle" /\ trusted[p] /\ seen[p] = Gen /\ ~Clearing) =>
        \A k \in Key : mem[p].nodes[k] = AddedUp(k)

=============================================================================

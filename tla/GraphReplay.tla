---------------------------- MODULE GraphReplay ----------------------------
(***************************************************************************)
(* The graph each process keeps in memory (contextos-search, graph/mod.rs): *)
(* edges in slots that petgraph uses again, the table that finds an edge by *)
(* its id in the store, the replay of a sibling's changes, and the queries. *)
(* LinkGraph has the steps of the store; here a process mutates alone, and  *)
(* links name their notes exactly.                                          *)
(***************************************************************************)
EXTENDS Integers, Sequences, FiniteSets, SequencesExt, TLC

CONSTANTS Names,     \* names of notes, in their order
          Retention  \* RETENTION_GENERATIONS

Processes == {"p", "q"}

\* A memory: the nodes, real or phantom; the edges, oldest first, each in its
\* slot; the slot of an id; the next id; the generation it has seen.
NoMemory == [nodes |-> << >>, edges |-> << >>, byId |-> << >>, next |-> 0, seen |-> 0]

Slots(m) == {e.slot : e \in ToSet(m.edges)}

\* Library: the slot of an edge is one that was given back, if there is one.
FreeSlot(m) == CHOOSE s \in 1..Len(m.edges) + 1 : s \notin Slots(m) /\ \A r \in 1..s - 1 : r \in Slots(m)

RemoveSlot(m, slot) == [m EXCEPT !.edges = SelectSeq(@, LAMBDA e : e.slot # slot)]

\* Library: with a node go its edges, and the table of ids does not hear of it.
RemoveNode(m, name) ==
    [m EXCEPT !.nodes = [n \in DOMAIN @ \ {name} |-> @[n]],
              !.edges = SelectSeq(@, LAMBDA e : e.from # name /\ e.to # name)]

AddEdge(m, edge) ==
    LET slot == FreeSlot(m)
    IN  [m EXCEPT !.edges = Append(@, [slot |-> slot] @@ edge), !.byId = (edge.id :> slot) @@ @]

\* ensure_node_by_exact_path, ensure_phantom.
EnsureNode(m, name) == IF name \in DOMAIN m.nodes THEN m ELSE [m EXCEPT !.nodes = (name :> "phantom") @@ @]

Outgoing(m, name) == SelectSeq(m.edges, LAMBDA e : e.from = name)

-----------------------------------------------------------------------------
(* The mutations: a memory and the changes to persist.                      *)

NoChanges == [removed |-> << >>, upserted |-> << >>, dropped |-> << >>, added |-> << >>]

EnsureReal(at, name) ==
    [at EXCEPT !.m.nodes = (name :> "real") @@ @, !.c.upserted = Append(@, name)]

\* clear_outgoing.
ClearOutgoing(at, name) ==
    FoldLeft(LAMBDA a, e : [m |-> [RemoveSlot(a.m, e.slot) EXCEPT !.byId = [i \in DOMAIN @ \ {e.id} |-> @[i]]],
                            c |-> [a.c EXCEPT !.dropped = Append(@, e.id)]],
             at, Outgoing(at.m, name))

\* One turn of wire_links, with ensure_phantom.
WireLink(at, name, link) ==
    LET edge == [id |-> at.m.next, from |-> name, to |-> link.to, kind |-> link.kind]
    IN  [m |-> [AddEdge(EnsureNode(at.m, link.to), edge) EXCEPT !.next = @ + 1],
         c |-> [at.c EXCEPT !.added = Append(@, edge),
                            !.upserted = IF link.to \in DOMAIN at.m.nodes THEN @ ELSE Append(@, link.to)]]

WireLinks(at, name, links) == FoldLeft(LAMBDA a, l : WireLink(a, name, l), at, links)

Bare(m, name) == \A e \in ToSet(m.edges) : name \notin {e.from, e.to}

\* prune_phantom_orphans.
Prune(at) ==
    FoldLeft(LAMBDA a, n : [m |-> RemoveNode(a.m, n), c |-> [a.c EXCEPT !.removed = Append(@, n)]],
             at, SelectSeq(Names, LAMBDA n : n \in DOMAIN at.m.nodes /\ at.m.nodes[n] = "phantom" /\ Bare(at.m, n)))

Upserted(m, name, links) == WireLinks(ClearOutgoing(EnsureReal([m |-> m, c |-> NoChanges], name), name), name, links)

\* remove_note: a note that others link to stays as a phantom.
Removed(m, name) ==
    LET at == ClearOutgoing([m |-> m, c |-> NoChanges], name)
    IN  CASE name \notin DOMAIN m.nodes -> Prune([m |-> m, c |-> NoChanges])
          [] name \in DOMAIN m.nodes /\ ~Bare(at.m, name) ->
                Prune([at EXCEPT !.m.nodes[name] = "phantom", !.c.upserted = Append(@, name)])
          [] OTHER -> Prune([m |-> RemoveNode(at.m, name), c |-> [at.c EXCEPT !.removed = Append(@, name)]])

\* rebuild: all notes, then the links of all.
Rebuilt(m, vault) ==
    LET notes == SelectSeq(Names, LAMBDA n : n \in DOMAIN vault)
        bare == FoldLeft(EnsureReal, [m |-> [NoMemory EXCEPT !.seen = m.seen], c |-> NoChanges], notes)
    IN  FoldLeft(LAMBDA a, n : WireLinks(a, n, vault[n]), bare, notes)

\* persist_changes, in its order.
Records(m, c) ==
    [i \in DOMAIN c.removed |-> [do |-> "removeNode", name |-> c.removed[i]]]
    \o [i \in DOMAIN c.upserted |-> [do |-> "node", name |-> c.upserted[i], state |-> m.nodes[c.upserted[i]]]]
    \o [i \in DOMAIN c.dropped |-> [do |-> "removeEdge", id |-> c.dropped[i]]]
    \o [i \in DOMAIN c.added |-> [do |-> "edge", edge |-> c.added[i]]]

-----------------------------------------------------------------------------
(* The store and the replay.  A store's log holds of each generation its     *)
(* records, whether they follow a reset, and the next id.                   *)

NoStore == [nodes |-> << >>, edges |-> << >>, next |-> 0, log |-> << >>]
Generation(store) == Len(store.log)

\* apply_one_change.
Stored(store, r) ==
    CASE r.do = "removeNode" -> [store EXCEPT !.nodes = [n \in DOMAIN @ \ {r.name} |-> @[n]]]
      [] r.do = "node" -> [store EXCEPT !.nodes = (r.name :> r.state) @@ @]
      [] r.do = "removeEdge" -> [store EXCEPT !.edges = [i \in DOMAIN @ \ {r.id} |-> @[i]]]
      [] r.do = "edge" -> [store EXCEPT !.edges = (r.edge.id :> r.edge) @@ @]

\* persist_once; a rebuild clears the tables first.
Persist(store, at, reset) ==
    LET records == Records(at.m, at.c)
        base == IF reset THEN [NoStore EXCEPT !.log = store.log] ELSE store
    IN  [FoldLeft(Stored, base, records) EXCEPT
            !.next = at.m.next, !.log = Append(@, [reset |-> reset, records |-> records, next |-> at.m.next])]

\* Mutant: the id of an edge that went stays in the table.
MutForgotten(byId, id) == byId
Forgotten(byId, id) == [i \in DOMAIN byId \ {id} |-> byId[i]]

\* apply_external_changes, one change.
Replayed(m, r) ==
    CASE r.do = "removeNode" -> IF r.name \in DOMAIN m.nodes THEN RemoveNode(m, r.name) ELSE m
      [] r.do = "node" -> [m EXCEPT !.nodes = (r.name :> r.state) @@ @]
      [] r.do = "removeEdge" ->
            IF r.id \in DOMAIN m.byId
            THEN [RemoveSlot(m, m.byId[r.id]) EXCEPT !.byId = Forgotten(@, r.id)] ELSE m
      [] r.do = "edge" ->
            LET old == IF r.edge.id \in DOMAIN m.byId THEN RemoveSlot(m, m.byId[r.edge.id]) ELSE m
            IN  [AddEdge(EnsureNode(EnsureNode(old, r.edge.from), r.edge.to), r.edge) EXCEPT
                    !.next = IF @ > r.edge.id THEN @ ELSE r.edge.id + 1]

\* load_snapshot, build_graph: the next id, the generation and the rows are read one after
\* the other, and may be of different generations.
Loaded(store, next, seen) ==
    LET ids == SetToSortSeq(DOMAIN store.edges, LAMBDA x, y : x < y)
    IN  FoldLeft(LAMBDA m, i : AddEdge(m, store.edges[i]),
                 [NoMemory EXCEPT !.nodes = store.nodes, !.next = next, !.seen = seen], ids)

\* changes_since: the changes since, or the whole store when they are no longer kept or
\* hold a reset.
Since(m, store) == SubSeq(store.log, m.seen + 1, Generation(store))
Reloads(m, store) ==
    m.seen < Generation(store) - Retention \/ \E s \in ToSet(Since(m, store)) : s.reset

\* catch_up.
CaughtUp(m, store) ==
    CASE m.seen >= Generation(store) -> m
      [] m.seen < Generation(store) /\ Reloads(m, store) -> Loaded(store, store.next, Generation(store))
      [] OTHER -> [FoldLeft(LAMBDA a, s : FoldLeft(Replayed, a, s.records), m, Since(m, store)) EXCEPT
                       !.seen = Generation(store)]

-----------------------------------------------------------------------------
(* The queries of a memory that has caught up.                              *)

Directions == {<<"out">>, <<"in">>, <<"out", "in">>}

\* Library: edges_directed, the newest edge first.
Directed(m, name, dir) ==
    LET edges == Reverse(SelectSeq(m.edges, LAMBDA e : name = IF dir = "out" THEN e.from ELSE e.to))
    IN  [i \in DOMAIN edges |-> [edge |-> edges[i], other |-> IF dir = "out" THEN edges[i].to ELSE edges[i].from]]

Around(m, name, dirs) == FlattenSeq([i \in DOMAIN dirs |-> Directed(m, name, dirs[i])])

AtDepth(level, depth) == level >= depth

\* neighbours: breadth first, down to the depth.
RECURSIVE Walk(_, _, _, _, _, _)
Walk(m, dirs, depth, queue, level, recorded) ==
    IF queue = << >> THEN [nodes |-> DOMAIN level, edges |-> recorded]
    ELSE LET node == Head(queue)
             around == IF AtDepth(level[node], depth) THEN << >> ELSE Around(m, node, dirs)
             found == {around[i].other : i \in DOMAIN around} \ DOMAIN level
         IN  Walk(m, dirs, depth, Tail(queue) \o SetToSeq(found), [n \in found |-> level[node] + 1] @@ level,
                  recorded \cup {around[i].edge : i \in DOMAIN around})

Neighbours(m, from, depth, dirs) == Walk(m, dirs, depth, <<from>>, from :> 0, {})

\* shortest_route: each node's neighbours by name, and the edge each was first reached by.
RECURSIVE Search(_, _, _, _, _)
Search(m, dirs, start, queue, by) ==
    IF queue = << >> THEN by
    ELSE LET around == Around(m, Head(queue), dirs)
             new == SelectSeq(Names, LAMBDA n : n # start /\ n \notin DOMAIN by
                                                /\ \E i \in DOMAIN around : around[i].other = n)
             first(n) == around[CHOOSE i \in DOMAIN around : around[i].other = n
                                    /\ \A j \in 1..i - 1 : around[j].other # n].edge
         IN  Search(m, dirs, start, Tail(queue) \o new, [n \in ToSet(new) |-> first(n)] @@ by)

RECURSIVE Route(_, _, _)
Route(by, start, at) ==
    IF at = start THEN << >>
    ELSE LET e == by[at] IN Append(Route(by, start, IF e.to = at THEN e.from ELSE e.to), e)

\* path_between: no route, or its edges.
PathBetween(m, from, to, dirs) ==
    LET by == Search(m, dirs, from, <<from>>, << >>)
    IN  IF from # to /\ to \notin DOMAIN by THEN << >> ELSE <<Route(by, from, to)>>

Orphans(m) == {n \in DOMAIN m.nodes : m.nodes[n] = "real" /\ Bare(m, n)}
UnresolvedTargets(m, name) == {e.to : e \in {e \in ToSet(Outgoing(m, name)) : m.nodes[e.to] = "phantom"}}

-----------------------------------------------------------------------------
(* The processes, the store and the links of the vault.                     *)

\* torn has the processes whose next id is older than their rows; lost says that one of
\* these has written to the store, over an edge or the next id there.
Start == [mem |-> [p \in Processes |-> NoMemory], store |-> NoStore, vault |-> << >>, torn |-> {}, lost |-> FALSE]

\* A reload and a replayed edge bring the next id up to date.
Mended(st, p) ==
    LET m == st.mem[p] IN
    m.seen < Generation(st.store)
        /\ (Reloads(m, st.store) \/ \E s \in ToSet(Since(m, st.store)) : \E r \in ToSet(s.records) : r.do = "edge")

StillTorn(st) == {p \in st.torn : ~Mended(st, p)}

Mutate(st, p, at, reset, vault) ==
    LET store == Persist(st.store, at, reset)
    IN  [mem |-> [st.mem EXCEPT ![p] = [at.m EXCEPT !.seen = Generation(store)]], store |-> store, vault |-> vault,
         torn |-> IF reset \/ p \notin StillTorn(st) THEN st.torn \ {p} ELSE st.torn,
         lost |-> ~reset /\ (st.lost \/ p \in StillTorn(st))]

UpsertNote(st, p, name, links) ==
    Mutate(st, p, Upserted(CaughtUp(st.mem[p], st.store), name, links), FALSE, (name :> links) @@ st.vault)

RemoveNote(st, p, name) ==
    Mutate(st, p, Removed(CaughtUp(st.mem[p], st.store), name), FALSE,
           [n \in DOMAIN st.vault \ {name} |-> st.vault[n]])

Rebuild(st, p) == Mutate(st, p, Rebuilt(st.mem[p], st.vault), TRUE, st.vault)

\* What a process that starts holds: the rows, under the generation read before them and
\* the next id read before that.
NextAt(store, generation) == IF generation = 0 THEN 0 ELSE store.log[generation].next

Open(st, p, before, seen) ==
    [st EXCEPT !.mem[p] = Loaded(st.store, NextAt(st.store, before), seen),
               !.torn = IF before < seen THEN @ \cup {p} ELSE @ \ {p}]

\* Any query.
Query(st, p) ==
    [st EXCEPT !.mem[p] = CaughtUp(@, st.store), !.torn = IF Mended(st, p) THEN @ \ {p} ELSE @]

-----------------------------------------------------------------------------

Without(e) == [id |-> e.id, from |-> e.from, to |-> e.to, kind |-> e.kind]

\* A process that catches up, whatever generation it had seen, holds the rows of
\* the store, finds every edge by its id and only those (mod.rs, apply_external_changes:
\* replaying what was already applied "never doubles a node or drops an edge"); and unless
\* it has read its next id before its generation, it gives out no id the store has.
ReplicasAgree(st) ==
    \A p \in Processes :
        LET m == CaughtUp(st.mem[p], st.store)
        IN  /\ m.nodes = st.store.nodes
            /\ [i \in DOMAIN m.edges |-> Without(m.edges[i])]
                = LET ids == SetToSortSeq(DOMAIN st.store.edges, LAMBDA x, y : x < y)
                  IN  [i \in DOMAIN ids |-> st.store.edges[ids[i]]]
            /\ m.byId = [id \in DOMAIN st.store.edges |->
                            (CHOOSE e \in ToSet(m.edges) : e.id = id).slot]
            /\ Cardinality(Slots(m)) = Len(m.edges)
            /\ p \notin StillTorn(st) => \A id \in DOMAIN st.store.edges : id < m.next

\* The notes within k steps of one, by definition.
Within(m, from, dirs, k) ==
    LET next(at) == at \cup {e.to : e \in {e \in ToSet(m.edges) : "out" \in ToSet(dirs) /\ e.from \in at}}
                       \cup {e.from : e \in {e \in ToSet(m.edges) : "in" \in ToSet(dirs) /\ e.to \in at}}
        within[j \in 0..k] == IF j = 0 THEN {from} ELSE next(within[j - 1])
    IN  within[k]

\* A neighbourhood is the notes within the depth and the edges of those nearer; a
\* path is a shortest one; orphans and unresolved targets are those of the vault's
\* links (mod.rs, neighbours, path_between, orphans, unresolved_targets).
QueriesExact(st) ==
    \A m \in {CaughtUp(st.mem[p], st.store) : p \in Processes} :
        LET linked == UNION {{l.to : l \in ToSet(st.vault[n])} : n \in DOMAIN st.vault}
        IN  /\ Orphans(m) = {n \in DOMAIN st.vault : st.vault[n] = << >> /\ n \notin linked}
            /\ \A n \in DOMAIN st.vault :
                  UnresolvedTargets(m, n) = {l.to : l \in ToSet(st.vault[n])} \ DOMAIN st.vault
            /\ \A from \in DOMAIN m.nodes, dirs \in Directions :
                  /\ \A depth \in 1..2 :
                        Neighbours(m, from, depth, dirs)
                            = [nodes |-> Within(m, from, dirs, depth),
                               edges |-> {e \in ToSet(m.edges) : \E n \in Within(m, from, dirs, depth - 1) :
                                              n \in {IF d = "out" THEN e.from ELSE e.to : d \in ToSet(dirs)}}]
                  /\ \A to \in DOMAIN m.nodes :
                        LET path == PathBetween(m, from, to, dirs)
                        IN  IF path = << >> THEN to \notin Within(m, from, dirs, Len(Names))
                            ELSE /\ to \in Within(m, from, dirs, Len(path[1]))
                                 /\ Len(path[1]) > 0 => to \notin Within(m, from, dirs, Len(path[1]) - 1)
                                 /\ \A i \in DOMAIN path[1] :
                                       {path[1][i].from, path[1][i].to} \cap Within(m, from, dirs, i - 1) # {}

=============================================================================

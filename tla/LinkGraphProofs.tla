--------------------------- MODULE LinkGraphProofs ---------------------------
(***************************************************************************)
(* Proofs about LinkGraph, for any processes, notes, links and bounds: the *)
(* graphs keep their shape, and, where mutations of two processes do not   *)
(* overlap, a caught-up graph is the store's, the store is the vault's, no *)
(* edge replaces another, and only a failure leaves a process with a graph *)
(* its generations do not add up to.                                       *)
(***************************************************************************)
EXTENDS LinkGraph, FiniteSetTheorems, SequenceTheorems, WellFoundedInduction, TLAPS

-----------------------------------------------------------------------------
(* The inductive invariant: types.                                          *)

Edge == [id : Nat, from : Note, to : Key]
Graph == [nodes : [Key -> Kinds], edges : SUBSET Edge, next : Nat]
Record == [reset : BOOLEAN, gone : SUBSET Key, nodes : UNION {[ks -> Kinds] : ks \in SUBSET Key},
           cut : SUBSET Nat, edges : SUBSET Edge]
Operation == [kind : {"none", "query", "open", "rebuild"}]
             \cup [kind : {"upsert"}, note : Note, links : LinkLists]
             \cup [kind : {"remove"}, note : Note]

\* The ids of the edges are below n.
IdsBelow(es, n) == \A e \in es : e.id < n

\* What a process is in the middle of fits the step it has reached.
PhaseOk(p) ==
    /\ pc[p] \in {"closed", "idle"} <=> op[p].kind = "none"
    /\ pc[p] = "acting" => op[p].kind \in {"upsert", "remove"}
    /\ pc[p] \in {"clearing", "cleared"} <=> op[p].kind = "rebuild" /\ pc[p] # "persisted"
    /\ pc[p] = "persisted" => op[p].kind \in {"upsert", "remove", "rebuild"}
    /\ pc[p] \in {"rows", "applying", "nodes", "edges"} => buf[p].gen \in 0..Gen
    /\ pc[p] = "applying" => buf[p].at \in 0..buf[p].to /\ buf[p].to \in buf[p].gen..Gen
    /\ pc[p] \in {"generation", "nodes", "edges"} => buf[p].next \in Nat
    /\ pc[p] = "edges" => buf[p].nodes \in [Key -> Kinds]
    /\ pc[p] = "clearing" => scan[p] \in Notes
    /\ pc[p] = "cleared" => /\ scan[p] \in Notes /\ buf[p].left \subseteq Present(scan[p])
                            /\ IdsBelow(mem[p].edges, mem[p].next)

TypeInv ==
    /\ store \in Graph /\ mem \in [Proc -> Graph]
    /\ log \in Seq(Record) /\ Gen <= MaxGen
    /\ \A g \in 1..Gen : \E n \in Nat : IdsBelow(log[g].edges, n)
    /\ seen \in [Proc -> Nat] /\ \A p \in Proc : seen[p] <= Gen
    /\ trusted \in [Proc -> BOOLEAN] /\ pc \in [Proc -> Phases]
    /\ op \in [Proc -> Operation] /\ buf = [p \in Proc |-> buf[p]]
    /\ vault \in Notes /\ scan \in [Proc -> Notes \cup {Nil}]
    /\ fault \in BOOLEAN /\ outdated \in BOOLEAN /\ torn \in BOOLEAN /\ unheard \in SUBSET Note
    /\ fails \in 0..MaxFail /\ crashes \in 0..MaxCrash
    /\ \A p \in Proc : PhaseOk(p)

-----------------------------------------------------------------------------
(* The inductive invariant: memories, the store and the log.                *)

\* Mutations of two processes do not overlap.
Exclusive == \A p, q \in Proc : Mutating(p) /\ Mutating(q) => p = q

\* The store has not been cleared since generation g.
Steady(g) == ~Clearing /\ \A i \in g + 1..Gen : ~log[i].reset

SpeaksOfNode(i, k) == k \in log[i].gone \cup DOMAIN log[i].nodes
SpeaksOfEdge(i, d) == d \in log[i].cut \cup Ids(log[i].edges)

\* No generation after g speaks of it.
QuietNode(k, g) == \A i \in g + 1..Gen : ~SpeaksOfNode(i, k)
QuietEdge(d, g) == \A i \in g + 1..Gen : ~SpeaksOfEdge(i, d)

\* What was read at generation g, or later, and brought up to it: where no later
\* generation speaks of it, it is the store's.
NodesFollow(nodes, g) == \A k \in Key : QuietNode(k, g) => nodes[k] = store.nodes[k]
EdgesFollow(es, g) == \A e \in es \cup store.edges : QuietEdge(e.id, g) => (e \in es <=> e \in store.edges)
NextFollows(next, g) == \A e \in store.edges : QuietEdge(e.id, g) => e.id < next

GraphFollows(graph, g) ==
    Steady(g) => NodesFollow(graph.nodes, g) /\ EdgesFollow(graph.edges, g) /\ NextFollows(graph.next, g)

\* Edges have their ids to themselves, and their ends are there.
Sound(graph) ==
    /\ \A e, f \in graph.edges : e.id = f.id => e = f
    /\ IdsBelow(graph.edges, graph.next)
    /\ \A e \in graph.edges : graph.nodes[e.from] # "none" /\ graph.nodes[e.to] # "none"

\* The rows of a generation say what the store holds, where no later one speaks.
RowsHold(i) ==
    Steady(i) =>
      /\ \A k \in Key : SpeaksOfNode(i, k) /\ QuietNode(k, i) => store.nodes[k] = LeavesNode(log[i], k)
      /\ \A e \in store.edges \cup log[i].edges :
           SpeaksOfEdge(i, e.id) /\ QuietEdge(e.id, i) => (e \in store.edges <=> e \in log[i].edges)
      /\ \A e \in Touching(store.edges, log[i].gone) : ~QuietEdge(e.id, i)
      /\ \A e \in log[i].edges : \A k \in {e.from, e.to} : QuietNode(k, i) => store.nodes[k] # "none"

\* A rebuild has cleared both tables.
Emptied == \E p \in Proc : pc[p] = "cleared"

StoreInv ==
    /\ ~Clearing => Sound(store)
    /\ Emptied => store.nodes = NoGraph.nodes /\ store.edges = {}
    /\ GraphFollows(NoGraph, 0)
    /\ \A i \in 1..Gen : RowsHold(i)

\* What a process knows, at each step.
MemoryInv(p) ==
    /\ pc[p] \notin {"applying", "clearing", "cleared", "persisted"} => GraphFollows(mem[p], seen[p])
    /\ pc[p] = "rows" => \A i \in seen[p] + 1..buf[p].gen : ~log[i].reset
    /\ pc[p] = "applying" => /\ Steady(buf[p].gen) => GraphFollows(mem[p], buf[p].at)
                             /\ \A i \in buf[p].at + 1..buf[p].gen : ~log[i].reset
    /\ pc[p] \in {"nodes", "edges"} /\ Steady(buf[p].gen) => NextFollows(buf[p].next, buf[p].gen)
    /\ pc[p] = "edges" /\ Steady(buf[p].gen) => NodesFollow(buf[p].nodes, buf[p].gen)
    /\ pc[p] = "persisted" => /\ mem[p].nodes = store.nodes /\ mem[p].edges = store.edges
                              /\ mem[p].next = store.next
    /\ pc[p] = "clearing" => store.nodes = NoGraph.nodes
    /\ pc[p] = "cleared" => Sound(mem[p]) /\ \A n \in buf[p].left : mem[p].nodes[n] = "real"

\* A process that mutates is up to date when it acts: nobody else persists meanwhile.
MutationInv(p) ==
    Mutating(p) =>
      /\ pc[p] \in {"rows", "applying", "nodes", "edges"} => buf[p].gen = Gen
      /\ pc[p] = "acting" => seen[p] = Gen

GraphInv == Exclusive /\ (Whole => StoreInv /\ \A p \in Proc : MemoryInv(p) /\ MutationInv(p))

-----------------------------------------------------------------------------
(* The inductive invariant: the vault.                                      *)

\* A graph has a note's node and as many edges as it has links.
Holds(graph, n, links) ==
    IF links = Absent THEN graph.nodes[n] # "real" /\ From(graph.edges, n) = {}
    ELSE graph.nodes[n] = "real" /\ IsFiniteSet(From(graph.edges, n)) /\ Cardinality(From(graph.edges, n)) = Len(links)

\* A note whose change has not been persisted yet.
Pending(p, n) == op[p].kind \in {"upsert", "remove"} /\ pc[p] # "persisted" /\ op[p].note = n

\* The change it brings is the vault's, but for notes moved with their directory since.
PendingShown(p) ==
    \A n \in Note \ unheard : Pending(p, n) => vault[n] = IF op[p].kind = "upsert" THEN op[p].links ELSE Absent

\* A rebuild has wired the notes it has been through, and no others.
WiringInv(p) ==
    pc[p] = "cleared" =>
      \A n \in Note : IF n \in buf[p].left THEN mem[p].nodes[n] = "real" /\ From(mem[p].edges, n) = {}
                      ELSE Holds(mem[p], n, scan[p][n])

StoreShown == \A n \in Note \ unheard : Holds(store, n, vault[n]) \/ \E p \in Proc : Pending(p, n)

VaultInv ==
    /\ \A p \in Proc : PendingShown(p) /\ WiringInv(p)
    /\ ~outdated /\ ~Clearing => StoreShown

Inv == TypeInv /\ GraphInv /\ (Whole => VaultInv)

-----------------------------------------------------------------------------
(* Numbers.                                                                 *)

\* A set of natural numbers has a least element.
LEMMA LeastNumber ==
    ASSUME NEW S, S \subseteq Nat, S # {}
    PROVE  \E n \in S : \A m \in S : n <= m
<1>1. \E R : IsWellFoundedOn(R, Nat) /\ \A x, y \in Nat : x < y => <<x, y>> \in R
  <2>1. \A x, y \in Nat : x < y => <<x, y>> \in OpToRel(<, Nat)
    BY DEF OpToRel
  <2>2. QED
    BY <2>1, NatLessThanWellFounded
<1>2. PICK R : IsWellFoundedOn(R, Nat) /\ \A x, y \in Nat : x < y => <<x, y>> \in R
  BY <1>1
<1>3. IsWellFoundedOn(R, Nat)
  BY <1>2
<1>4. \A x, y \in Nat : x < y => <<x, y>> \in R
  BY <1>2
<1>5. PICK n \in S : \A m \in S : <<m, n>> \notin R
  BY <1>3, WFMin, Zenon
<1>6. ASSUME NEW m \in S
      PROVE  n <= m
  <2>1. m \in Nat /\ n \in Nat
    OBVIOUS
  <2>2. ~ m < n
    BY <2>1, <1>4, <1>5
  <2>3. QED
    BY <2>1, <2>2
<1>7. QED
  BY <1>6

\* One with a bound has a largest.
LEMMA LargestNumber ==
    ASSUME NEW S, S \subseteq Nat, S # {}, NEW b \in Nat, \A x \in S : x <= b
    PROVE  \E m \in S : \A x \in S : x <= m
<1> DEFINE U == {j \in Nat : \A x \in S : x <= j}
<1>1. PICK m \in U : \A j \in U : m <= j
  <2>1. U \subseteq Nat /\ b \in U
    OBVIOUS
  <2>2. U # {}
    BY <2>1
  <2> HIDE DEF U
  <2>3. QED
    BY <2>1, <2>2, LeastNumber
<1>2. m \in Nat /\ \A x \in S : x <= m
  OBVIOUS
<1>3. ASSUME m \notin S
      PROVE  FALSE
  <2>1. \A x \in S : x < m
    BY <1>2, <1>3
  <2>2. PICK x \in S : TRUE
    OBVIOUS
  <2>3. m - 1 \in Nat
    BY <2>1, <2>2, <1>2
  <2>4. m - 1 \in U
    BY <2>1, <2>3
  <2>5. QED
    BY <1>1, <1>2, <2>4
<1>4. QED
  BY <1>2, <1>3

\* The allocator moves past the ids of a sibling.
LEMMA NextIsAfter ==
    ASSUME NEW next \in Nat, NEW es \in SUBSET Edge, NEW n \in Nat, IdsBelow(es, n)
    PROVE  NextAfter(next, es) \in Nat /\ next <= NextAfter(next, es) /\ IdsBelow(es, NextAfter(next, es))
<1> DEFINE S == {next} \cup {e.id + 1 : e \in es}
<1>1. S \subseteq Nat /\ next \in S /\ \A e \in es : e.id + 1 \in S /\ e.id \in Nat
  BY DEF Edge
<1>2. next + n \in Nat /\ \A x \in S : x <= next + n
  BY <1>1 DEF IdsBelow
<1>3. S # {}
  BY <1>1
<1>4. NextAfter(next, es) = CHOOSE i \in S : \A j \in S : j <= i
  BY DEF NextAfter
<1> HIDE DEF S
<1>5. \E m \in S : \A x \in S : x <= m
  BY <1>1, <1>2, <1>3, LargestNumber
<1>6. NextAfter(next, es) \in S /\ \A j \in S : j <= NextAfter(next, es)
  BY <1>4, <1>5
<1>7. NextAfter(next, es) \in Nat
  BY <1>1, <1>6
<1>8. ASSUME NEW e \in es
      PROVE  e.id < NextAfter(next, es)
  <2>1. e.id + 1 <= NextAfter(next, es) /\ e.id \in Nat
    BY <1>1, <1>6
  <2>2. QED
    BY <2>1, <1>7
<1>9. QED
  BY <1>1, <1>6, <1>7, <1>8 DEF IdsBelow

-----------------------------------------------------------------------------
(* The shapes of graphs and records.                                        *)

\* The graph of a store that has never been written.
LEMMA EmptyGraph == NoGraph \in Graph
  BY DEF NoGraph, Graph, Kinds

\* A phantom is a kind of node.
LEMMA PhantomTypes ==
    ASSUME NEW nodes \in [Key -> Kinds], NEW ks
    PROVE  WithPhantoms(nodes, ks) \in [Key -> Kinds]
  BY DEF WithPhantoms, Kinds

\* A note has a sequence of targets for its links.
LEMMA LinkTypes ==
    ASSUME NEW links \in LinkLists
    PROVE  links \in Seq(Target) /\ DOMAIN links = 1..Len(links) /\ Len(links) \in Nat
  BY ResolutionAssumption

\* The edges that the links of a note make.
NewEdges(next, n, ks) == {[id |-> next + i - 1, from |-> n, to |-> ks[i]] : i \in DOMAIN ks}

\* What wiring a note's links makes of a graph.
WiredTo(m, n, links, ks, g) ==
    /\ g \in Graph
    /\ g.nodes = WithPhantoms(m.nodes, {ks[i] : i \in 1..Len(links)})
    /\ g.edges = m.edges \cup NewEdges(m.next, n, ks)
    /\ g.next = m.next + Len(links)
    /\ ks \in [1..Len(links) -> Key]
    /\ \A e \in NewEdges(m.next, n, ks) :
         /\ e \in Edge /\ e.from = n /\ e.id >= m.next /\ e.id < m.next + Len(links)
         /\ e.to = ks[e.id - m.next + 1] /\ e.id - m.next + 1 \in 1..Len(links)

\* Wiring keeps the edges there are and adds the note's, with the next ids.
LEMMA WiredIs ==
    ASSUME NEW g \in Graph, NEW n \in Note, NEW links \in LinkLists,
           NEW ks \in Resolutions(g.nodes, links)
    PROVE  WiredTo(g, n, links, ks, Wired(g, n, ks))
<1>1. ks \in [1..Len(links) -> Key] /\ Len(links) \in Nat
  BY LinkTypes DEF Resolutions
<1>2. ks \in Seq(Key) /\ Len(ks) = Len(links) /\ DOMAIN ks = 1..Len(links)
  BY <1>1
<1>3. g.next \in Nat /\ g.nodes \in [Key -> Kinds] /\ g.edges \subseteq Edge
  BY DEF Graph
<1>4. ASSUME NEW i \in 1..Len(links)
      PROVE  LET e == [id |-> g.next + i - 1, from |-> n, to |-> ks[i]]
             IN  /\ e \in Edge /\ e.from = n /\ e.id >= g.next /\ e.id < g.next + Len(links)
                 /\ e.to = ks[e.id - g.next + 1] /\ e.id - g.next + 1 = i
  <2>1. g.next + i - 1 \in Nat /\ (g.next + i - 1) - g.next + 1 = i
    BY <1>1, <1>3
  <2>2. QED
    BY <2>1, <1>1, <1>3 DEF Edge
<1>5. \A e \in NewEdges(g.next, n, ks) :
        /\ e \in Edge /\ e.from = n /\ e.id >= g.next /\ e.id < g.next + Len(links)
        /\ e.to = ks[e.id - g.next + 1] /\ e.id - g.next + 1 \in 1..Len(links)
  BY <1>2, <1>4 DEF NewEdges
<1>6. WithPhantoms(g.nodes, {ks[i] : i \in DOMAIN ks}) \in [Key -> Kinds]
  BY <1>3, PhantomTypes
<1>7. g.edges \cup NewEdges(g.next, n, ks) \subseteq Edge
  BY <1>3, <1>5
<1>8. Wired(g, n, ks) = [nodes |-> WithPhantoms(g.nodes, {ks[i] : i \in DOMAIN ks}),
                         edges |-> g.edges \cup NewEdges(g.next, n, ks), next |-> g.next + Len(ks)]
  BY DEF Wired, NewEdges
<1>9. QED
  BY <1>1, <1>2, <1>3, <1>5, <1>6, <1>7, <1>8 DEF Graph, WiredTo

\* What an upsert wires the links into.
Bared(g, n) == ClearOutgoing([g EXCEPT !.nodes = [@ EXCEPT ![n] = "real"]], n)

\* Its node is there, and the edges of its former text are gone.
LEMMA BaredIs ==
    ASSUME NEW g \in Graph, NEW n \in Note
    PROVE  /\ Bared(g, n) \in Graph
           /\ Bared(g, n).nodes = [g.nodes EXCEPT ![n] = "real"]
           /\ Bared(g, n).edges = {e \in g.edges : e.from # n}
           /\ Bared(g, n).next = g.next
           /\ \A links : UpsertNote(g, n, links) =
                {Wired(Bared(g, n), n, ks) : ks \in Resolutions(Bared(g, n).nodes, links)}
<1> DEFINE h == [g EXCEPT !.nodes = [@ EXCEPT ![n] = "real"]]
<1>1. h \in Graph /\ h.nodes = [g.nodes EXCEPT ![n] = "real"] /\ h.edges = g.edges /\ h.next = g.next
  BY DEF Graph, Key, Kinds
<1>2. Bared(g, n) = [h EXCEPT !.edges = @ \ From(@, n)]
  BY DEF Bared, ClearOutgoing
<1>3. g.edges \ From(g.edges, n) = {e \in g.edges : e.from # n}
  BY DEF From
<1> HIDE DEF h
<1>4. Bared(g, n).nodes = h.nodes /\ Bared(g, n).edges = h.edges \ From(h.edges, n) /\ Bared(g, n).next = h.next
  BY <1>1, <1>2 DEF Graph
<1>5. Bared(g, n) \in Graph
  BY <1>1, <1>2, <1>3 DEF Graph
<1>6. QED
  BY <1>1, <1>3, <1>4, <1>5 DEF UpsertNote, Bared

\* An upsert wires the links into the graph without the note's former edges.
LEMMA UpsertIs ==
    ASSUME NEW m \in Graph, NEW n \in Note, NEW links \in LinkLists, NEW g \in UpsertNote(m, n, links)
    PROVE  \E ks \in [1..Len(links) -> Key] : WiredTo(Bared(m, n), n, links, ks, g)
<1> DEFINE h == Bared(m, n)
<1>0. UpsertNote(m, n, links) = {Wired(h, n, ks) : ks \in Resolutions(h.nodes, links)}
  BY DEF UpsertNote, Bared
<1>1. h \in Graph
  BY BaredIs
<1> HIDE DEF h
<1>2. PICK ks \in Resolutions(h.nodes, links) : g = Wired(h, n, ks)
  BY <1>0
<1>3. WiredTo(h, n, links, ks, Wired(h, n, ks))
  BY <1>1, WiredIs
<1>4. ks \in [1..Len(links) -> Key]
  BY <1>3 DEF WiredTo
<1>5. QED
  BY <1>2, <1>3, <1>4 DEF h

\* A removal takes the note's edges along.
LEMMA RemovedIs ==
    ASSUME NEW g \in Graph, NEW n \in Note
    PROVE  LET es == {e \in g.edges : e.from # n}
               linked(k) == Touching(es, {k}) # {}
               r == RemoveNote(g, n)
           IN  /\ r \in Graph /\ r.edges = es /\ r.next = g.next
               /\ \A k \in Key : r.nodes[k] =
                    IF k = n THEN IF g.nodes[k] # "none" /\ linked(k) THEN "phantom" ELSE "none"
                    ELSE IF g.nodes[k] = "phantom" /\ ~linked(k) THEN "none" ELSE g.nodes[k]
<1> DEFINE h == ClearOutgoing(g, n)
           es == {e \in g.edges : e.from # n}
           linked(k) == Touching(es, {k}) # {}
           kept == [h.nodes EXCEPT ![n] = IF @ # "none" /\ linked(n) THEN "phantom" ELSE "none"]
           last == [k \in Key |-> IF kept[k] = "phantom" /\ ~linked(k) THEN "none" ELSE kept[k]]
<1>1. g.edges \ From(g.edges, n) = es
  BY DEF From
<1>2. h = [nodes |-> g.nodes, edges |-> es, next |-> g.next] /\ g.nodes \in [Key -> Kinds] /\ es \subseteq Edge /\ g.next \in Nat
  <2>1. g.nodes \in [Key -> Kinds] /\ g.edges \subseteq Edge /\ g.next \in Nat
    BY DEF Graph
  <2>2. g = [nodes |-> g.nodes, edges |-> g.edges, next |-> g.next]
    BY DEF Graph
  <2>3. h = [g EXCEPT !.edges = es]
    BY <1>1 DEF ClearOutgoing
  <2> HIDE DEF h, es
  <2>4. h = [nodes |-> g.nodes, edges |-> es, next |-> g.next]
    BY <2>2, <2>3
  <2>5. QED
    BY <2>1, <2>4 DEF es
<1>3. h.nodes = g.nodes /\ h.edges = es /\ h.next = g.next
  BY <1>2
<1>4. RemoveNote(g, n) = [h EXCEPT !.nodes = last]
  BY <1>3 DEF RemoveNote
<1> HIDE DEF h, es
<1>5. n \in Key
  BY DEF Key
<1>6. /\ \A k \in Key : last[k] =
           IF k = n THEN IF g.nodes[k] # "none" /\ linked(k) THEN "phantom" ELSE "none"
           ELSE IF g.nodes[k] = "phantom" /\ ~linked(k) THEN "none" ELSE g.nodes[k]
      /\ last \in [Key -> Kinds]
  <2> HIDE DEF linked
  <2>1. kept \in [Key -> Kinds]
    BY <1>2, <1>3, <1>5 DEF Kinds
  <2>2. \A k \in Key : kept[k] = IF k = n THEN IF g.nodes[n] # "none" /\ linked(n) THEN "phantom" ELSE "none" ELSE g.nodes[k]
    BY <1>2, <1>3, <1>5
  <2> HIDE DEF kept
  <2>3. QED
    BY <2>1, <2>2 DEF Kinds
<1> HIDE DEF last
<1>7. RemoveNote(g, n) = [nodes |-> last, edges |-> es, next |-> g.next]
  BY <1>2, <1>4
<1>8. RemoveNote(g, n) \in Graph
  BY <1>7, <1>6, <1>2 DEF Graph
<1>9. RemoveNote(g, n).nodes = last /\ RemoveNote(g, n).edges = es /\ RemoveNote(g, n).next = g.next
  BY <1>7
<1>10. QED
  BY <1>6, <1>8, <1>9 DEF es

\* The edges an operation adds have ids below its next.
LEMMA ActedTypes ==
    ASSUME TypeInv, NEW p \in Proc, pc[p] = "acting", NEW g \in Acted(p)
    PROVE  /\ g \in Graph /\ Touched(p) \subseteq Key
           /\ IdsBelow(g.edges \ mem[p].edges, g.next)
<1>1. mem[p] \in Graph /\ op[p] \in Operation /\ op[p].kind \in {"upsert", "remove"}
  BY DEF TypeInv, PhaseOk
<1>2. op[p].note \in Note /\ (op[p].kind = "upsert" => op[p].links \in LinkLists)
  BY <1>1 DEF Operation
<1>3. Touched(p) \subseteq Key
  BY <1>2 DEF Touched, Key
<1>4. CASE op[p].kind = "upsert"
  <2>1. g \in UpsertNote(mem[p], op[p].note, op[p].links) /\ op[p].links \in LinkLists
    BY <1>2, <1>4 DEF Acted
  <2>2. ASSUME NEW m \in Graph, NEW n \in Note, NEW links \in LinkLists, g \in UpsertNote(m, n, links)
        PROVE  g \in Graph /\ IdsBelow(g.edges \ m.edges, g.next)
    <3>1. PICK ks : WiredTo(Bared(m, n), n, links, ks, g)
      BY <2>2, UpsertIs
    <3>2. Bared(m, n).edges \subseteq m.edges
      BY BaredIs
    <3>3. g \in Graph /\ \A e \in g.edges \ m.edges : e.id < g.next
      BY <3>1, <3>2 DEF WiredTo
    <3>4. QED
      BY <3>3 DEF IdsBelow
  <2>3. QED
    BY <1>1, <1>2, <1>3, <2>1, <2>2
<1>5. CASE op[p].kind = "remove"
  <2>1. g = RemoveNote(mem[p], op[p].note)
    BY <1>5 DEF Acted
  <2>2. g \in Graph /\ g.edges \subseteq mem[p].edges
    BY <1>1, <1>2, <2>1, RemovedIs
  <2>3. QED
    BY <1>3, <2>2 DEF IdsBelow
<1>6. QED
  BY <1>1, <1>4, <1>5

\* The paths of the nodes that an operation changed or touched.
Altered(before, after, touched) == {k \in Key : after.nodes[k] # before.nodes[k]} \cup touched

\* The record of what an operation did.
Recorded(b, before, after, touched) ==
    /\ b \in Record
    /\ \A k : k \in b.gone <=> k \in Altered(before, after, touched) /\ after.nodes[k] = "none"
    /\ \A k : k \in DOMAIN b.nodes <=> k \in Altered(before, after, touched) /\ after.nodes[k] # "none"
    /\ \A k \in DOMAIN b.nodes : b.nodes[k] = after.nodes[k]
    /\ b.cut = Ids(before.edges \ after.edges) /\ b.edges = after.edges \ before.edges

\* What persist_changes records.
LEMMA ChangesTypes ==
    ASSUME NEW before \in Graph, NEW after \in Graph, NEW touched \in SUBSET Key, NEW reset \in BOOLEAN,
           NEW b, b = Changes(before, after, touched, reset)
    PROVE  Recorded(b, before, after, touched)
<1> DEFINE put == Altered(before, after, touched)
           ks == {k \in put : after.nodes[k] # "none"}
           f == [k \in ks |-> after.nodes[k]]
           gone == {k \in put : after.nodes[k] = "none"}
           cut == Ids(before.edges \ after.edges)
           es == after.edges \ before.edges
<1>1. put \subseteq Key
  BY DEF Altered
<1>2. b = [reset |-> reset, gone |-> gone, nodes |-> f, cut |-> cut, edges |-> es]
  BY DEF Changes, Altered
<1> HIDE DEF put
<1>3. f \in UNION {[xs -> Kinds] : xs \in SUBSET Key}
  <2>1. ks \in SUBSET Key /\ f \in [ks -> Kinds]
    BY <1>1 DEF Graph
  <2>2. QED
    BY <2>1
<1>4. cut \in SUBSET Nat
  BY DEF Ids, Graph, Edge
<1>5. gone \in SUBSET Key /\ es \in SUBSET Edge
  BY <1>1 DEF Graph
<1>6. DOMAIN f = ks /\ \A k \in ks : f[k] = after.nodes[k]
  OBVIOUS
<1> HIDE DEF f, gone, cut, es, ks
<1>7. b \in Record
  BY <1>2, <1>3, <1>4, <1>5 DEF Record
<1>8. b.gone = gone /\ b.nodes = f /\ b.cut = cut /\ b.edges = es
  BY <1>2
<1>9. QED
  BY <1>6, <1>7, <1>8 DEF f, gone, cut, es, ks, put, Recorded

\* A record of a change is a record of the log.
LEMMA ChangesRecord ==
    ASSUME NEW before \in Graph, NEW after \in Graph, NEW touched \in SUBSET Key, NEW reset \in BOOLEAN
    PROVE  Changes(before, after, touched, reset) \in Record
           /\ Changes(before, after, touched, reset).edges = after.edges \ before.edges
<1>1. Recorded(Changes(before, after, touched, reset), before, after, touched)
  BY ChangesTypes
<1>2. QED
  BY <1>1 DEF Recorded

\* Nodes that a record speaks of are as it says, the others as they were.
LEMMA RenodeTypes ==
    ASSUME NEW nodes \in [Key -> Kinds], NEW b \in Record
    PROVE  /\ Renode(nodes, b) \in [Key -> Kinds]
           /\ \A k \in Key : Renode(nodes, b)[k] = IF k \in DOMAIN b.nodes THEN b.nodes[k]
                                                   ELSE IF k \in b.gone THEN "none" ELSE nodes[k]
<1>1. PICK ks \in SUBSET Key : b.nodes \in [ks -> Kinds]
  BY DEF Record
<1>2. QED
  BY <1>1 DEF Renode, Kinds

\* Persisting a record leaves a graph in the store.
LEMMA PersistTypes ==
    ASSUME NEW s \in Graph, NEW b \in Record, NEW next \in Nat
    PROVE  Persist(s, b, next) \in Graph
<1>1. s.nodes \in [Key -> Kinds] /\ s.edges \subseteq Edge /\ b.edges \subseteq Edge
  BY DEF Graph, Record
<1>2. PutEdges({e \in s.edges : e.id \notin b.cut}, b.edges) \subseteq Edge
  BY <1>1 DEF PutEdges
<1>3. QED
  BY <1>1, <1>2, RenodeTypes DEF Persist, Graph

\* Applying one leaves a graph in memory.
LEMMA ApplyTypes ==
    ASSUME NEW g \in Graph, NEW b \in Record, NEW n \in Nat, IdsBelow(b.edges, n)
    PROVE  ApplyExternal(g, b) \in Graph
<1> DEFINE nodes == Renode(g.nodes, b)
           ends == {e.from : e \in b.edges} \cup {e.to : e \in b.edges}
           left == g.edges \ Touching(g.edges, b.gone)
<1>1. g.nodes \in [Key -> Kinds] /\ g.edges \subseteq Edge /\ b.edges \subseteq Edge /\ g.next \in Nat
  BY DEF Graph, Record
<1>2. nodes \in [Key -> Kinds]
  BY <1>1, RenodeTypes
<1>3. [k \in Key |-> IF k \in ends /\ nodes[k] = "none" THEN "phantom" ELSE nodes[k]] \in [Key -> Kinds]
  <2> HIDE DEF nodes
  <2>1. QED
    BY <1>2 DEF Kinds
<1>4. PutEdges({e \in left : e.id \notin b.cut}, b.edges) \subseteq Edge
  BY <1>1 DEF PutEdges
<1>5. NextAfter(g.next, b.edges) \in Nat
  BY <1>1, NextIsAfter
<1>6. QED
  BY <1>3, <1>4, <1>5 DEF ApplyExternal, Graph

-----------------------------------------------------------------------------
(* The types are kept, action by action.                                    *)

\* A process that an action leaves alone.
Still(q) == /\ pc'[q] = pc[q] /\ op'[q] = op[q] /\ buf'[q] = buf[q]
            /\ scan'[q] = scan[q] /\ mem'[q] = mem[q]

\* It is where it was, while the log grows or does not.
LEMMA PhaseKept ==
    ASSUME TypeInv, NEW q \in Proc, Still(q), Gen' \in Nat, Gen <= Gen'
    PROVE  PhaseOk(q)'
<1>1. PhaseOk(q) /\ Gen \in Nat
  BY DEF TypeInv, Gen
<1>2. pc'[q] \in {"nodes", "edges", "rows", "applying"} => buf[q].gen \in 0..Gen
  BY <1>1 DEF PhaseOk, Still
<1>3. buf[q].gen \in 0..Gen => buf[q].gen \in 0..Gen'
  BY <1>1
<1>4. (buf[q].gen \in 0..Gen /\ buf[q].to \in buf[q].gen..Gen) => buf[q].to \in buf[q].gen..Gen'
  BY <1>1
<1>5. QED
  BY <1>1, <1>3, <1>4, Zenon DEF PhaseOk, Still, IdsBelow, Present

\* What a commit appends.
LEMMA Appended ==
    ASSUME log \in Seq(Record), NEW b \in Record, log' = Append(log, b)
    PROVE  /\ log' \in Seq(Record) /\ Gen \in Nat /\ Gen' = Gen + 1
           /\ \A i \in 1..Gen : log'[i] = log[i]
           /\ log'[Gen + 1] = b
  BY DEF Gen

\* So only the process that acts need be looked at.
LEMMA PhasesKept ==
    ASSUME TypeInv, NEW p \in Proc, PhaseOk(p)', \A q \in Proc \ {p} : Still(q),
           Gen' = Gen \/ Gen' = Gen + 1
    PROVE  \A q \in Proc : PhaseOk(q)'
<1>1. Gen \in Nat
  BY DEF TypeInv, Gen
<1>2. ASSUME NEW q \in Proc, q # p
      PROVE  PhaseOk(q)'
  <2>1. Still(q) /\ Gen' \in Nat /\ Gen <= Gen'
    BY <1>1, <1>2
  <2>2. QED
    BY <2>1, PhaseKept
<1>3. QED
  BY <1>2

\* The values of the functions an action may update.
LEMMA StateTypes ==
    ASSUME TypeInv
    PROVE  /\ store \in Graph /\ mem \in [Proc -> Graph] /\ log \in Seq(Record) /\ Gen \in Nat
           /\ seen \in [Proc -> Nat] /\ \A p \in Proc : seen[p] <= Gen
           /\ pc \in [Proc -> Phases] /\ op \in [Proc -> Operation] /\ DOMAIN buf = Proc
           /\ buf = [p \in Proc |-> buf[p]] /\ scan \in [Proc -> Notes \cup {Nil}]
           /\ \A p \in Proc : PhaseOk(p)
<1>1. DOMAIN buf = Proc
  BY Zenon DEF TypeInv
<1>2. Gen \in Nat
  BY DEF TypeInv, Gen
<1>3. QED
  BY <1>1, <1>2, Zenon DEF TypeInv

\* A process opens its graph.
LEMMA OpenTypes ==
    ASSUME TypeInv, NEW p \in Proc, Open(p)
    PROVE  TypeInv'
<1>1. [kind |-> "open"] \in Operation /\ "meta" \in Phases
  BY DEF Operation, Phases
<1>2. pc' \in [Proc -> Phases] /\ op' \in [Proc -> Operation]
  BY <1>1, StateTypes DEF Open
<1>3. PhaseOk(p)'
  BY StateTypes DEF PhaseOk, Open
<1>4. \A q \in Proc \ {p} : Still(q)
  BY StateTypes DEF Open, Still
<1>5. \A q \in Proc : PhaseOk(q)'
  BY <1>3, <1>4, PhasesKept DEF Open, Gen
<1>6. QED
  BY <1>2, <1>5 DEF Open, TypeInv, Gen

\* A load that fails ends the operation.
LEMMA FailedLoad ==
    ASSUME TypeInv, NEW p \in Proc, LoadFails(p), UNCHANGED <<store, log, scan, vault, outdated, torn, unheard, fails, crashes>>
    PROVE  TypeInv'
<1>1. NoOp \in Operation /\ "idle" \in Phases
  BY DEF Operation, Phases, NoOp
<1>2. pc' \in [Proc -> Phases] /\ op' \in [Proc -> Operation] /\ buf' = [q \in Proc |-> buf'[q]]
  BY <1>1, StateTypes DEF LoadFails
<1>3. PhaseOk(p)'
  BY StateTypes DEF PhaseOk, LoadFails, NoOp
<1>4. \A q \in Proc \ {p} : Still(q)
  BY StateTypes DEF LoadFails, Still
<1>5. fault' \in BOOLEAN
  BY DEF LoadFails, TypeInv, Mutating
<1>6. \A q \in Proc : PhaseOk(q)'
  BY <1>3, <1>4, PhasesKept DEF LoadFails, Gen
<1>7. QED
  BY <1>2, <1>5, <1>6 DEF LoadFails, TypeInv, Gen

\* A completed catch-up or load resumes the mutation it served, if any.
LEMMA Resuming ==
    ASSUME TypeInv, NEW p \in Proc, AfterCatchUp(p), op[p].kind # "rebuild"
    PROVE  /\ pc' \in [Proc -> Phases] /\ op' \in [Proc -> Operation] /\ buf' = [q \in Proc |-> buf'[q]]
           /\ PhaseOk(p)'
           /\ \A q \in Proc \ {p} : pc'[q] = pc[q] /\ op'[q] = op[q] /\ buf'[q] = buf[q]
           /\ \/ pc'[p] = "acting" /\ op'[p] = op[p] /\ op[p].kind \in {"upsert", "remove"}
              \/ pc'[p] = "idle" /\ op'[p] = NoOp
<1>1. NoOp \in Operation /\ {"idle", "acting"} \subseteq Phases /\ NoOp.kind = "none"
  BY DEF Operation, Phases, NoOp
<1>2. pc' \in [Proc -> Phases] /\ op' \in [Proc -> Operation] /\ buf' = [q \in Proc |-> buf'[q]]
  BY <1>1, StateTypes DEF AfterCatchUp, Resumed
<1>3. \A q \in Proc \ {p} : pc'[q] = pc[q] /\ op'[q] = op[q] /\ buf'[q] = buf[q]
  BY StateTypes DEF AfterCatchUp
<1>4. \/ pc'[p] = "acting" /\ op'[p] = op[p] /\ op[p].kind \in {"upsert", "remove"}
      \/ pc'[p] = "idle" /\ op'[p] = NoOp
  <2>1. /\ pc'[p] = Resumed(p)
        /\ op'[p] = IF Resumed(p) = "idle" THEN NoOp ELSE op[p]
    BY StateTypes DEF AfterCatchUp
  <2>2. CASE op[p].kind \in {"upsert", "remove"}
    <3>1. Resumed(p) = "acting"
      BY <2>2 DEF Resumed
    <3>2. QED
      BY <2>1, <2>2, <3>1
  <2>3. CASE op[p].kind \notin {"upsert", "remove"}
    <3>1. Resumed(p) = "idle"
      BY <2>3 DEF Resumed
    <3>2. QED
      BY <2>1, <3>1
  <2>4. QED
    BY <2>2, <2>3
<1>5. PhaseOk(p)'
  BY <1>1, <1>4 DEF PhaseOk
<1>6. QED
  BY <1>2, <1>3, <1>4, <1>5

\* A load reads the next id.
LEMMA ReadNextIdTypes ==
    ASSUME TypeInv, NEW p \in Proc, ReadNextId(p)
    PROVE  TypeInv'
<1>1. CASE Gen = 0
  BY <1>1, FailedLoad DEF ReadNextId
<1>2. CASE Gen # 0
  <2>1. /\ pc' = [pc EXCEPT ![p] = "generation"]
        /\ buf' = [buf EXCEPT ![p] = [next |-> store.next]]
        /\ UNCHANGED <<store, log, mem, seen, trusted, op, scan, vault, fault, outdated, torn, unheard, fails, crashes>>
    BY <1>2 DEF ReadNextId
  <2>2. "generation" \in Phases /\ store.next \in Nat
    BY StateTypes DEF Phases, Graph
  <2>3. pc' \in [Proc -> Phases] /\ buf' = [q \in Proc |-> buf'[q]]
    BY <2>1, <2>2, StateTypes
  <2>4. pc'[p] = "generation" /\ op'[p] = op[p] /\ buf'[p].next = store.next /\ Gen' = Gen
    BY <2>1, StateTypes DEF Gen
  <2>5. op[p].kind # "none" /\ op[p].kind # "rebuild"
    BY StateTypes DEF PhaseOk, ReadNextId
  <2>6. PhaseOk(p)'
    BY <2>2, <2>4, <2>5, StateTypes DEF PhaseOk
  <2>7. \A q \in Proc \ {p} : Still(q)
    BY <2>1, StateTypes DEF Still
  <2>8. \A q \in Proc : PhaseOk(q)'
    BY <2>4, <2>6, <2>7, PhasesKept
  <2>9. QED
    BY <2>1, <2>3, <2>4, <2>8 DEF TypeInv
<1>3. QED
  BY <1>1, <1>2

\* Then the generation.
LEMMA ReadGenerationTypes ==
    ASSUME TypeInv, NEW p \in Proc, ReadGeneration(p)
    PROVE  TypeInv'
<1>1. /\ pc[p] = "generation" /\ pc' = [pc EXCEPT ![p] = "nodes"]
      /\ buf' = [buf EXCEPT ![p] = [gen |-> Gen, next |-> buf[p].next]]
      /\ UNCHANGED <<store, log, mem, seen, trusted, op, scan, vault, fault, outdated, unheard, fails, crashes>>
  BY StateTypes DEF ReadGeneration
<1>2. "nodes" \in Phases /\ buf[p].next \in Nat /\ Gen \in Nat
  BY <1>1, StateTypes DEF Phases, PhaseOk
<1>3. pc' \in [Proc -> Phases] /\ buf' = [q \in Proc |-> buf'[q]]
  BY <1>1, <1>2, StateTypes
<1>4. pc'[p] = "nodes" /\ op'[p] = op[p] /\ buf'[p].gen = Gen /\ buf'[p].next = buf[p].next /\ Gen' = Gen
  BY <1>1, StateTypes DEF Gen
<1>5. op[p].kind # "none" /\ op[p].kind # "rebuild"
  BY <1>1, StateTypes DEF PhaseOk
<1>6. PhaseOk(p)'
  BY <1>2, <1>4, <1>5 DEF PhaseOk
<1>7. \A q \in Proc \ {p} : Still(q)
  BY <1>1, StateTypes DEF Still
<1>8. \A q \in Proc : PhaseOk(q)'
  BY <1>4, <1>6, <1>7, PhasesKept
<1>9. torn' \in BOOLEAN
  BY DEF ReadGeneration, TypeInv
<1>10. QED
  BY <1>1, <1>3, <1>4, <1>8, <1>9 DEF TypeInv

\* A load reads the nodes.
LEMMA ReadNodesTypes ==
    ASSUME TypeInv, NEW p \in Proc, ReadNodes(p)
    PROVE  TypeInv'
<1>1. /\ pc[p] = "nodes" /\ pc' = [pc EXCEPT ![p] = "edges"]
      /\ buf' = [buf EXCEPT ![p] = [gen |-> buf[p].gen, next |-> buf[p].next, nodes |-> store.nodes]]
      /\ UNCHANGED <<store, log, mem, seen, trusted, op, scan, vault, fault, outdated, torn, unheard, fails, crashes>>
  BY StateTypes DEF ReadNodes
<1>2. "edges" \in Phases /\ store.nodes \in [Key -> Kinds] /\ buf[p].next \in Nat /\ buf[p].gen \in 0..Gen
  BY <1>1, StateTypes DEF Phases, Graph, PhaseOk
<1>3. pc' \in [Proc -> Phases] /\ buf' = [q \in Proc |-> buf'[q]]
  BY <1>1, <1>2, StateTypes
<1>4. /\ pc'[p] = "edges" /\ op'[p] = op[p] /\ Gen' = Gen
      /\ buf'[p].gen = buf[p].gen /\ buf'[p].next = buf[p].next /\ buf'[p].nodes = store.nodes
  BY <1>1, StateTypes DEF Gen
<1>5. op[p].kind # "none" /\ op[p].kind # "rebuild"
  BY <1>1, StateTypes DEF PhaseOk
<1>6. PhaseOk(p)'
  BY <1>2, <1>4, <1>5 DEF PhaseOk
<1>7. \A q \in Proc \ {p} : Still(q)
  BY <1>1, StateTypes DEF Still
<1>8. \A q \in Proc : PhaseOk(q)'
  BY <1>4, <1>6, <1>7, PhasesKept
<1>9. QED
  BY <1>1, <1>3, <1>4, <1>8 DEF TypeInv

\* A load reads the edges, and has a graph if their ends are there.
LEMMA ReadEdgesTypes ==
    ASSUME TypeInv, NEW p \in Proc, ReadEdges(p)
    PROVE  TypeInv'
<1>1. CASE Dangling(buf[p].nodes, store.edges)
  BY <1>1, FailedLoad DEF ReadEdges
<1>2. CASE ~Dangling(buf[p].nodes, store.edges)
  <2> DEFINE g == [nodes |-> buf[p].nodes, edges |-> store.edges, next |-> buf[p].next]
  <2>1. /\ mem' = [mem EXCEPT ![p] = g] /\ seen' = [seen EXCEPT ![p] = buf[p].gen]
        /\ trusted' = [trusted EXCEPT ![p] = TRUE] /\ AfterCatchUp(p)
        /\ UNCHANGED <<store, log, scan, vault, fault, outdated, torn, unheard, fails, crashes>>
    BY <1>2 DEF ReadEdges
  <2>2. buf[p].nodes \in [Key -> Kinds] /\ buf[p].next \in Nat /\ buf[p].gen \in 0..Gen /\ op[p].kind # "rebuild"
    BY StateTypes DEF PhaseOk, ReadEdges
  <2>3. g \in Graph
    BY <2>2, StateTypes DEF Graph
  <2> HIDE DEF g
  <2>4. mem' \in [Proc -> Graph] /\ seen' \in [Proc -> Nat] /\ (\A q \in Proc : seen'[q] <= Gen) /\ trusted' \in [Proc -> BOOLEAN]
    BY <2>1, <2>2, <2>3, StateTypes DEF TypeInv
  <2>5. /\ pc' \in [Proc -> Phases] /\ op' \in [Proc -> Operation] /\ buf' = [q \in Proc |-> buf'[q]] /\ PhaseOk(p)'
        /\ \A q \in Proc \ {p} : pc'[q] = pc[q] /\ op'[q] = op[q] /\ buf'[q] = buf[q]
    BY <2>1, <2>2, Resuming
  <2>6. \A q \in Proc \ {p} : Still(q)
    BY <2>1, <2>5, StateTypes DEF Still
  <2>7. \A q \in Proc : PhaseOk(q)'
    BY <2>1, <2>5, <2>6, PhasesKept DEF Gen
  <2>8. QED
    BY <2>1, <2>4, <2>5, <2>7 DEF TypeInv, Gen
<1>3. QED
  BY <1>1, <1>2

\* What entering an operation leaves: it has nothing to catch up with, or begins to.
LEMMA Entering ==
    ASSUME TypeInv, NEW p \in Proc, Enter(p), log' = log
    PROVE  /\ pc' \in [Proc -> Phases] /\ Gen' = Gen
           /\ \A q \in Proc \ {p} : pc'[q] = pc[q]
           /\ \/ pc'[p] = "acting" /\ Gen <= seen[p]
              \/ pc'[p] = "log" /\ Gen > seen[p]
<1>1. {"acting", "log"} \subseteq Phases /\ Gen \in Nat /\ seen[p] \in Nat
  BY StateTypes DEF Phases
<1>2. Gen' = Gen
  BY DEF Gen
<1>3. CASE Gen <= seen[p]
  <2>1. pc' = [pc EXCEPT ![p] = "acting"]
    BY <1>3 DEF Enter
  <2>2. QED
    BY <1>1, <1>2, <1>3, <2>1, StateTypes
<1>4. CASE Gen > seen[p]
  <2>1. ~(Gen <= seen[p])
    BY <1>1, <1>4
  <2>2. pc' = [pc EXCEPT ![p] = "log"]
    BY <2>1 DEF Enter
  <2>3. QED
    BY <1>1, <1>2, <1>4, <2>2, StateTypes
<1>5. QED
  BY <1>1, <1>3, <1>4

\* A query starts to catch up.
LEMMA QueryTypes ==
    ASSUME TypeInv, NEW p \in Proc, Query(p)
    PROVE  TypeInv'
<1>1. [kind |-> "query"] \in Operation
  BY DEF Operation
<1>2. op' = [op EXCEPT ![p] = [kind |-> "query"]] /\ Enter(p) /\ Gen > seen[p] /\ log' = log /\ scan' = scan /\ mem' = mem /\ buf' = buf
  BY DEF Query
<1>3. op' \in [Proc -> Operation] /\ op'[p].kind = "query" /\ Gen \in Nat /\ seen[p] \in Nat
  BY <1>1, <1>2, StateTypes
<1>4. /\ pc' \in [Proc -> Phases] /\ Gen' = Gen
      /\ \A q \in Proc \ {p} : pc'[q] = pc[q]
      /\ pc'[p] = "log"
  BY <1>2, <1>3, Entering
<1>5. PhaseOk(p)'
  BY <1>3, <1>4 DEF PhaseOk
<1>6. \A q \in Proc \ {p} : Still(q)
  BY <1>2, <1>4, StateTypes DEF Still
<1>7. \A q \in Proc : PhaseOk(q)'
  BY <1>4, <1>5, <1>6, PhasesKept
<1>8. QED
  BY <1>3, <1>4, <1>7 DEF Query, TypeInv

\* A catch-up finds that the log will do, or turns to a reload.
LEMMA CheckLogTypes ==
    ASSUME TypeInv, NEW p \in Proc, CheckLog(p)
    PROVE  TypeInv'
<1>1. {"meta", "rows"} \subseteq Phases /\ Gen \in Nat
  BY StateTypes DEF Phases
<1>2. Gen' = Gen /\ pc[p] = "log"
      /\ UNCHANGED <<store, log, mem, seen, trusted, op, scan, vault, fault, outdated, torn, unheard, fails, crashes>>
  BY DEF Gen, CheckLog
<1>3. op[p].kind # "none" /\ op[p].kind # "rebuild"
  BY <1>2, StateTypes DEF PhaseOk
<1>4. \/ pc' = [pc EXCEPT ![p] = "meta"] /\ buf' = buf
      \/ pc' = [pc EXCEPT ![p] = "rows"] /\ buf' = [buf EXCEPT ![p] = [gen |-> Gen]]
  BY DEF CheckLog
<1>5. pc' \in [Proc -> Phases] /\ buf' = [q \in Proc |-> buf'[q]]
  BY <1>1, <1>4, StateTypes
<1>6. pc'[p] = "meta" \/ (pc'[p] = "rows" /\ buf'[p].gen = Gen)
  BY <1>4, StateTypes
<1>7. PhaseOk(p)'
  BY <1>1, <1>2, <1>3, <1>6 DEF PhaseOk
<1>8. \A q \in Proc \ {p} : Still(q)
  BY <1>2, <1>4, StateTypes DEF Still
<1>9. \A q \in Proc : PhaseOk(q)'
  BY <1>2, <1>7, <1>8, PhasesKept
<1>10. QED
  BY <1>2, <1>5, <1>9 DEF TypeInv

\* The generation that the rows read begin after.
KeptFrom(p) == IF seen[p] + Retention < Gen THEN Gen - Retention ELSE seen[p]

LEMMA KeptTypes ==
    ASSUME TypeInv, NEW p \in Proc
    PROVE  KeptFrom(p) \in seen[p]..Gen /\ seen[p] \in Nat /\ Gen \in Nat
<1>1. Gen \in Nat /\ seen[p] \in Nat /\ seen[p] <= Gen /\ Retention \in Nat
  BY StateTypes, BoundAssumption
<1>2. QED
  BY <1>1 DEF KeptFrom

\* It reads the rows it lacks.
LEMMA ReadRowsTypes ==
    ASSUME TypeInv, NEW p \in Proc, ReadRows(p)
    PROVE  TypeInv'
<1>1. "applying" \in Phases /\ Gen \in Nat /\ KeptFrom(p) \in 0..Gen
  BY KeptTypes DEF Phases
<1>2. Gen' = Gen /\ pc[p] = "rows" /\ UNCHANGED <<store, log, mem, seen, trusted, op, scan, vault, fault, outdated, unheard, fails, crashes>>
  BY DEF Gen, ReadRows
<1>3. buf[p].gen \in 0..Gen /\ op[p].kind # "none" /\ op[p].kind # "rebuild"
  BY <1>2, StateTypes DEF PhaseOk
<1>4. /\ pc' = [pc EXCEPT ![p] = "applying"]
      /\ buf' = [buf EXCEPT ![p] = [gen |-> buf[p].gen, at |-> KeptFrom(p), to |-> Gen]]
      /\ torn' \in BOOLEAN
  BY StateTypes DEF ReadRows, KeptFrom, TypeInv
<1>5. pc' \in [Proc -> Phases] /\ buf' = [q \in Proc |-> buf'[q]]
  BY <1>1, <1>4, StateTypes
<1>6. PhaseOk(p)'
  <2>1. pc'[p] = "applying" /\ buf'[p].gen = buf[p].gen /\ buf'[p].at = KeptFrom(p) /\ buf'[p].to = Gen
    BY <1>4, StateTypes
  <2>2. QED
    BY <1>1, <1>2, <1>3, <2>1 DEF PhaseOk
<1>7. \A q \in Proc \ {p} : Still(q)
  BY <1>2, <1>4, StateTypes DEF Still
<1>8. \A q \in Proc : PhaseOk(q)'
  BY <1>2, <1>6, <1>7, PhasesKept
<1>9. QED
  BY <1>2, <1>4, <1>5, <1>8 DEF TypeInv

\* One generation is merged into the memory.
LEMMA ApplyRowsTypes ==
    ASSUME TypeInv, NEW p \in Proc, ApplyRows(p)
    PROVE  TypeInv'
<1> DEFINE i == buf[p].at + 1
           g == ApplyExternal(mem[p], log[i])
<1>1. /\ pc[p] = "applying" /\ buf[p].at < buf[p].to /\ mem' = [mem EXCEPT ![p] = g] /\ Gen' = Gen
      /\ buf' = [buf EXCEPT ![p] = [gen |-> buf[p].gen, at |-> i, to |-> buf[p].to]]
      /\ UNCHANGED <<store, log, seen, trusted, pc, op, scan, vault, fault, outdated, torn, unheard, fails, crashes>>
  BY StateTypes DEF ApplyRows, Gen
<1>2. /\ Gen \in Nat /\ buf[p].gen \in 0..Gen /\ buf[p].at \in 0..buf[p].to /\ buf[p].to \in buf[p].gen..Gen
      /\ op[p].kind # "none" /\ op[p].kind # "rebuild"
  BY <1>1, StateTypes DEF PhaseOk
<1>3. i \in 1..Gen /\ i \in 0..buf[p].to
  BY <1>1, <1>2
<1> HIDE DEF i
<1>4. log[i] \in Record /\ \E n \in Nat : IdsBelow(log[i].edges, n)
  BY <1>3, StateTypes DEF TypeInv, Gen
<1>5. g \in Graph
  BY <1>4, StateTypes, ApplyTypes
<1> HIDE DEF g
<1>6. mem' \in [Proc -> Graph] /\ buf' = [q \in Proc |-> buf'[q]]
  BY <1>1, <1>5, StateTypes
<1>7. buf'[p].gen = buf[p].gen /\ buf'[p].at = i /\ buf'[p].to = buf[p].to
  BY <1>1, StateTypes
<1>8. PhaseOk(p)'
  BY <1>1, <1>2, <1>3, <1>7 DEF PhaseOk
<1>9. \A q \in Proc \ {p} : Still(q)
  BY <1>1, StateTypes DEF Still
<1>10. \A q \in Proc : PhaseOk(q)'
  BY <1>1, <1>8, <1>9, PhasesKept
<1>11. QED
  BY <1>1, <1>6, <1>10 DEF TypeInv

\* The last one is.
LEMMA RowsAppliedTypes ==
    ASSUME TypeInv, NEW p \in Proc, RowsApplied(p)
    PROVE  TypeInv'
<1>1. /\ seen' = [seen EXCEPT ![p] = buf[p].gen] /\ trusted' = [trusted EXCEPT ![p] = TRUE]
      /\ AfterCatchUp(p) /\ Gen' = Gen
      /\ UNCHANGED <<store, log, mem, scan, vault, fault, outdated, torn, unheard, fails, crashes>>
  BY DEF RowsApplied, Gen
<1>2. buf[p].gen \in 0..Gen /\ op[p].kind # "rebuild"
  BY StateTypes DEF PhaseOk, RowsApplied
<1>3. seen' \in [Proc -> Nat] /\ (\A q \in Proc : seen'[q] <= Gen) /\ trusted' \in [Proc -> BOOLEAN]
  BY <1>1, <1>2, StateTypes DEF TypeInv
<1>4. /\ pc' \in [Proc -> Phases] /\ op' \in [Proc -> Operation] /\ buf' = [q \in Proc |-> buf'[q]] /\ PhaseOk(p)'
      /\ \A q \in Proc \ {p} : pc'[q] = pc[q] /\ op'[q] = op[q] /\ buf'[q] = buf[q]
  BY <1>1, <1>2, Resuming
<1>5. \A q \in Proc \ {p} : Still(q)
  BY <1>1, <1>4 DEF Still
<1>6. \A q \in Proc : PhaseOk(q)'
  BY <1>1, <1>4, <1>5, PhasesKept
<1>7. QED
  BY <1>1, <1>3, <1>4, <1>6 DEF TypeInv

\* A note changes.
LEMMA MutateTypes ==
    ASSUME TypeInv, NEW p \in Proc, NEW n \in Note, NEW links \in LinkLists \cup {Absent}, Mutate(p, n, links)
    PROVE  TypeInv'
<1> DEFINE o == IF links = Absent THEN [kind |-> "remove", note |-> n]
                ELSE [kind |-> "upsert", note |-> n, links |-> links]
<1>1. o \in Operation /\ o.kind \in {"remove", "upsert"}
  BY DEF Operation
<1>2. op' = [op EXCEPT ![p] = o] /\ Enter(p) /\ log' = log /\ scan' = scan /\ mem' = mem /\ vault' = [vault EXCEPT ![n] = links]
      /\ buf' = buf /\ unheard' = unheard \ {n}
  BY DEF Mutate
<1> HIDE DEF o
<1>3. op' \in [Proc -> Operation] /\ op'[p] = o /\ Gen \in Nat
  BY <1>1, <1>2, StateTypes
<1>4. vault' \in Notes
  BY <1>2 DEF TypeInv, Notes
<1>5. /\ pc' \in [Proc -> Phases] /\ Gen' = Gen
      /\ \A q \in Proc \ {p} : pc'[q] = pc[q]
      /\ pc'[p] = "acting" \/ pc'[p] = "log"
  BY <1>2, <1>3, Entering
<1>6. PhaseOk(p)'
  BY <1>1, <1>3, <1>5 DEF PhaseOk
<1>7. \A q \in Proc \ {p} : Still(q)
  BY <1>2, <1>5, StateTypes DEF Still
<1>8. \A q \in Proc : PhaseOk(q)'
  BY <1>5, <1>6, <1>7, PhasesKept
<1>9. QED
  BY <1>3, <1>4, <1>5, <1>8 DEF Mutate, TypeInv

\* The notes below a directory change.
LEMMA WithDirectoryTypes ==
    ASSUME TypeInv, NEW p \in Proc, NEW v \in Notes, WithDirectory(p, v)
    PROVE  TypeInv'
<1>1. /\ vault' = v /\ unheard' = unheard \cup {n \in Note : v[n] # vault[n]} /\ Gen' = Gen
      /\ UNCHANGED <<store, log, mem, seen, trusted, pc, op, buf, scan, fault, outdated, torn, fails, crashes>>
  BY DEF WithDirectory, Gen
<1>2. \A q \in Proc : Still(q)
  BY <1>1 DEF Still
<1>3. \A q \in Proc : PhaseOk(q)'
  BY <1>1, <1>2, PhaseKept, StateTypes
<1>4. unheard' \in SUBSET Note
  BY <1>1 DEF TypeInv
<1>5. QED
  BY <1>1, <1>3, <1>4 DEF TypeInv

\* What a move of a directory, and its deletion, make of the vault.
LEMMA DirectoryTypes ==
    ASSUME TypeInv, NEW p \in Proc, NEW m \in Moves, MoveDirectory(p, m) \/ RestoreDeletes(p, m)
    PROVE  \E v \in Notes : WithDirectory(p, v)
<1>1. vault \in [Note -> LinkLists \cup {Absent}]
  BY DEF TypeInv, Notes
<1>2. CASE RestoreDeletes(p, m)
  <2> DEFINE v == [n \in Note |-> IF n \in DOMAIN m THEN Absent ELSE vault[n]]
  <2>1. v \in Notes
    BY <1>1 DEF Notes
  <2>2. QED
    BY <1>2, <2>1 DEF RestoreDeletes
<1>3. CASE MoveDirectory(p, m)
  <2> DEFINE from(n) == CHOOSE k \in DOMAIN m : m[k] = n
             v == [n \in Note |->
                     IF n \in DOMAIN m THEN Absent
                     ELSE IF \E k \in DOMAIN m : m[k] = n THEN vault[CHOOSE k \in DOMAIN m : m[k] = n]
                     ELSE vault[n]]
  <2>1. DOMAIN m \subseteq Note
    BY ResolutionAssumption
  <2>2. ASSUME NEW n \in Note
        PROVE  v[n] \in LinkLists \cup {Absent}
    <3>1. CASE \E k \in DOMAIN m : m[k] = n
      <4>1. from(n) \in DOMAIN m
        BY <3>1
      <4>2. QED
        BY <1>1, <2>1, <4>1
    <3>2. QED
      BY <1>1, <3>1
  <2>3. v \in Notes
    BY <2>2 DEF Notes
  <2>4. WithDirectory(p, v)
    BY <1>3 DEF MoveDirectory
  <2>5. QED
    BY <2>3, <2>4
<1>4. QED
  BY <1>2, <1>3

\* A commit appends its generation.
LEMMA Committing ==
    ASSUME TypeInv, NEW p \in Proc, NEW b \in Record, NEW next \in Nat, Commits(p, b, next),
           \E n \in Nat : IdsBelow(b.edges, n)
    PROVE  /\ store' \in Graph /\ log' \in Seq(Record) /\ Gen \in Nat /\ Gen' = Gen + 1 /\ Gen' <= MaxGen
           /\ \A i \in 1..Gen' : \E n \in Nat : IdsBelow(log'[i].edges, n)
           /\ \A i \in 1..Gen : log'[i] = log[i]
           /\ log'[Gen + 1] = b
           /\ pc' \in [Proc -> Phases] /\ pc'[p] = "persisted" /\ \A q \in Proc \ {p} : pc'[q] = pc[q]
           /\ op' = op /\ fault' = fault /\ fails' = fails
<1>1. "persisted" \in Phases
  BY DEF Phases
<1>2. store' \in Graph
  BY StateTypes, PersistTypes DEF Commits
<1>3. /\ log' \in Seq(Record) /\ Gen \in Nat /\ Gen' = Gen + 1
      /\ \A i \in 1..Gen : log'[i] = log[i]
      /\ log'[Gen + 1] = b
  BY StateTypes, Appended DEF Commits
<1>4. Gen' <= MaxGen
  BY <1>3, BoundAssumption DEF Commits
<1>5. \A i \in 1..Gen' : \E n \in Nat : IdsBelow(log'[i].edges, n)
  <2>1. \A i \in 1..Gen : \E n \in Nat : IdsBelow(log[i].edges, n)
    BY DEF TypeInv
  <2>2. \A i \in 1..Gen + 1 : i \in 1..Gen \/ i = Gen + 1
    BY <1>3
  <2>3. QED
    BY <1>3, <2>1, <2>2
<1>6. pc' \in [Proc -> Phases] /\ pc'[p] = "persisted" /\ \A q \in Proc \ {p} : pc'[q] = pc[q]
  BY <1>1, StateTypes DEF Commits
<1>7. QED
  BY <1>2, <1>3, <1>4, <1>5, <1>6 DEF Commits

\* What a refused transaction does.
LEMMA Refusing ==
    ASSUME TypeInv, NEW p \in Proc, CommitRefused(p)
    PROVE  /\ pc' \in [Proc -> Phases] /\ op' \in [Proc -> Operation] /\ PhaseOk(p)'
           /\ \A q \in Proc \ {p} : pc'[q] = pc[q] /\ op'[q] = op[q]
           /\ fault' = TRUE /\ fails' \in 0..MaxFail /\ UNCHANGED <<store, log>> /\ Gen' = Gen
<1>1. NoOp \in Operation /\ "idle" \in Phases /\ NoOp.kind = "none"
  BY DEF Operation, Phases, NoOp
<1>2. pc' \in [Proc -> Phases] /\ op' \in [Proc -> Operation]
  BY <1>1, StateTypes DEF CommitRefused
<1>3. pc'[p] = "idle" /\ op'[p] = NoOp /\ \A q \in Proc \ {p} : pc'[q] = pc[q] /\ op'[q] = op[q]
  BY StateTypes DEF CommitRefused
<1>4. PhaseOk(p)'
  BY <1>1, <1>3 DEF PhaseOk
<1>5. fails' \in 0..MaxFail
  BY BoundAssumption DEF CommitRefused, TypeInv
<1>6. QED
  BY <1>2, <1>3, <1>4, <1>5 DEF CommitRefused, Gen

\* An upsert or a removal changes the memory, and the store unless it is refused.
LEMMA ActTypes ==
    ASSUME TypeInv, NEW p \in Proc, Act(p)
    PROVE  TypeInv'
<1>1. PICK g \in Acted(p) :
        /\ mem' = [mem EXCEPT ![p] = g]
        /\ Commits(p, Changes(mem[p], g, Touched(p), FALSE), g.next) \/ CommitRefused(p)
  BY DEF Act
<1>2. pc[p] = "acting" /\ UNCHANGED <<seen, trusted, buf, scan, vault, outdated, torn, unheard, crashes>>
  BY DEF Act
<1>3. g \in Graph /\ Touched(p) \in SUBSET Key /\ IdsBelow(g.edges \ mem[p].edges, g.next) /\ g.next \in Nat
  BY <1>2, ActedTypes DEF Graph
<1>4. mem' \in [Proc -> Graph] /\ \A q \in Proc \ {p} : mem'[q] = mem[q]
  BY <1>1, <1>3, StateTypes
<1> DEFINE b == Changes(mem[p], g, Touched(p), FALSE)
<1>5. b \in Record /\ b.edges = g.edges \ mem[p].edges
  BY <1>3, StateTypes, ChangesRecord
<1>6. op[p].kind \in {"upsert", "remove"}
  BY <1>2, StateTypes DEF PhaseOk
<1> HIDE DEF b
<1>7. CASE Commits(p, b, g.next)
  <2>1. \E n \in Nat : IdsBelow(b.edges, n)
    BY <1>3, <1>5
  <2>2. /\ store' \in Graph /\ log' \in Seq(Record) /\ Gen \in Nat /\ Gen' = Gen + 1 /\ Gen' <= MaxGen
        /\ \A i \in 1..Gen' : \E n \in Nat : IdsBelow(log'[i].edges, n)
        /\ pc' \in [Proc -> Phases] /\ pc'[p] = "persisted" /\ \A q \in Proc \ {p} : pc'[q] = pc[q]
        /\ op' = op /\ fault' = fault /\ fails' = fails
    BY <1>3, <1>5, <1>7, <2>1, Committing
  <2>3. PhaseOk(p)'
    BY <1>6, <2>2 DEF PhaseOk
  <2>4. \A q \in Proc \ {p} : Still(q)
    BY <1>2, <1>4, <2>2 DEF Still
  <2>5. \A q \in Proc : PhaseOk(q)'
    BY <2>2, <2>3, <2>4, PhasesKept
  <2>6. \A q \in Proc : seen'[q] <= Gen'
    BY <1>2, <2>2, StateTypes
  <2>7. QED
    BY <1>2, <1>4, <2>2, <2>5, <2>6 DEF TypeInv
<1>8. CASE CommitRefused(p)
  <2>1. /\ pc' \in [Proc -> Phases] /\ op' \in [Proc -> Operation] /\ PhaseOk(p)'
        /\ \A q \in Proc \ {p} : pc'[q] = pc[q] /\ op'[q] = op[q]
        /\ fault' = TRUE /\ fails' \in 0..MaxFail /\ UNCHANGED <<store, log>> /\ Gen' = Gen
    BY <1>8, Refusing
  <2>2. \A q \in Proc \ {p} : Still(q)
    BY <1>2, <1>4, <2>1 DEF Still
  <2>3. \A q \in Proc : PhaseOk(q)'
    BY <2>1, <2>2, PhasesKept
  <2>4. QED
    BY <1>2, <1>4, <2>1, <2>3 DEF TypeInv
<1>9. QED
  BY <1>1, <1>7, <1>8 DEF b

\* The generation is read back.
LEMMA RecordGenerationTypes ==
    ASSUME TypeInv, NEW p \in Proc, RecordGeneration(p)
    PROVE  TypeInv'
<1>1. /\ seen' = [seen EXCEPT ![p] = Gen] /\ pc' = [pc EXCEPT ![p] = "idle"] /\ op' = [op EXCEPT ![p] = NoOp]
      /\ UNCHANGED <<store, log, mem, trusted, buf, scan, vault, fault, outdated, torn, unheard, fails, crashes>> /\ Gen' = Gen
  BY DEF RecordGeneration, Written, Gen
<1>2. NoOp \in Operation /\ "idle" \in Phases /\ NoOp.kind = "none"
  BY DEF Operation, Phases, NoOp
<1>3. pc' \in [Proc -> Phases] /\ op' \in [Proc -> Operation] /\ seen' \in [Proc -> Nat] /\ \A q \in Proc : seen'[q] <= Gen
  BY <1>1, <1>2, StateTypes
<1>4. pc'[p] = "idle" /\ op'[p] = NoOp
  BY <1>1, StateTypes
<1>5. PhaseOk(p)'
  BY <1>2, <1>4 DEF PhaseOk
<1>6. \A q \in Proc \ {p} : Still(q)
  BY <1>1, StateTypes DEF Still
<1>7. \A q \in Proc : PhaseOk(q)'
  BY <1>1, <1>5, <1>6, PhasesKept
<1>8. QED
  BY <1>1, <1>3, <1>7 DEF TypeInv

\* A rebuild walks the vault.
LEMMA CollectNotesTypes ==
    ASSUME TypeInv, NEW p \in Proc, CollectNotes(p)
    PROVE  TypeInv'
<1>1. scan' = [scan EXCEPT ![p] = vault] /\ Gen' = Gen /\ op[p].kind # "rebuild"
      /\ UNCHANGED <<store, log, mem, seen, trusted, pc, op, buf, vault, fault, outdated, torn, unheard, fails, crashes>>
  BY DEF CollectNotes, Gen
<1>2. scan' \in [Proc -> Notes \cup {Nil}]
  BY <1>1, StateTypes DEF TypeInv
<1>3. PhaseOk(p)'
  <2>1. pc[p] \notin {"clearing", "cleared"} /\ PhaseOk(p)
    BY <1>1, StateTypes DEF PhaseOk
  <2>2. QED
    BY <1>1, <2>1 DEF PhaseOk
<1>4. \A q \in Proc \ {p} : Still(q)
  BY <1>1, StateTypes DEF Still
<1>5. \A q \in Proc : PhaseOk(q)'
  BY <1>1, <1>3, <1>4, PhasesKept
<1>6. QED
  BY <1>1, <1>2, <1>5 DEF TypeInv

\* The nodes a rebuild begins with.
LEMMA UnlinkedTypes ==
    ASSUME NEW notes
    PROVE  /\ Unlinked(notes) \in Graph /\ Unlinked(notes).edges = {} /\ Unlinked(notes).next = 0
           /\ \A k \in Key : Unlinked(notes).nodes[k] = IF k \in Present(notes) THEN "real" ELSE "none"
  BY DEF Unlinked, NoGraph, Graph, Kinds

\* It clears the nodes of the store.
LEMMA RebuildClearsTypes ==
    ASSUME TypeInv, NEW p \in Proc, RebuildClears(p)
    PROVE  TypeInv'
<1>1. /\ pc[p] = "idle" /\ scan[p] # Nil /\ Gen' = Gen /\ mem' = [mem EXCEPT ![p] = NoGraph]
      /\ UNCHANGED <<log, seen, trusted, buf, vault, outdated, torn, unheard, crashes>>
  BY DEF RebuildClears, Gen
<1>2. mem' \in [Proc -> Graph]
  BY <1>1, StateTypes, EmptyGraph
<1>3. CASE /\ store' = [store EXCEPT !.nodes = NoGraph.nodes]
           /\ pc' = [pc EXCEPT ![p] = "clearing"]
           /\ op' = [op EXCEPT ![p] = [kind |-> "rebuild"]]
           /\ UNCHANGED <<scan, fault, fails>>
  <2>1. [kind |-> "rebuild"] \in Operation /\ "clearing" \in Phases
    BY DEF Operation, Phases
  <2>2. store' \in Graph
    <3>1. NoGraph.nodes \in [Key -> Kinds] /\ store \in Graph
      BY EmptyGraph, StateTypes DEF Graph
    <3>2. QED
      BY <1>3, <3>1 DEF Graph
  <2>3. pc' \in [Proc -> Phases] /\ op' \in [Proc -> Operation]
    BY <1>3, <2>1, StateTypes
  <2>4. pc'[p] = "clearing" /\ op'[p].kind = "rebuild" /\ scan'[p] = scan[p] /\ scan[p] \in Notes
    BY <1>1, <1>3, StateTypes
  <2>5. PhaseOk(p)'
    BY <2>4 DEF PhaseOk
  <2>6. \A q \in Proc \ {p} : Still(q)
    BY <1>1, <1>3, StateTypes DEF Still
  <2>7. \A q \in Proc : PhaseOk(q)'
    BY <1>1, <2>5, <2>6, PhasesKept
  <2>8. QED
    BY <1>1, <1>2, <1>3, <2>2, <2>3, <2>7 DEF TypeInv
<1>4. CASE /\ fails < MaxFail /\ fails' = fails + 1
           /\ scan' = [scan EXCEPT ![p] = Nil] /\ fault' = TRUE
           /\ UNCHANGED <<store, pc, op>>
  <2>1. scan' \in [Proc -> Notes \cup {Nil}]
    BY <1>4, StateTypes
  <2>2. fails' \in 0..MaxFail
    BY <1>4, BoundAssumption DEF TypeInv
  <2>3. PhaseOk(p)'
    <3>1. PhaseOk(p)
      BY StateTypes
    <3>2. QED
      BY <1>1, <1>4, <3>1 DEF PhaseOk
  <2>4. \A q \in Proc \ {p} : Still(q)
    BY <1>1, <1>4, StateTypes DEF Still
  <2>5. \A q \in Proc : PhaseOk(q)'
    BY <1>1, <2>3, <2>4, PhasesKept
  <2>6. QED
    BY <1>1, <1>2, <1>4, <2>1, <2>2, <2>5 DEF TypeInv
<1>5. QED
  BY <1>3, <1>4 DEF RebuildClears

\* Then its edges.
LEMMA RebuildClearsEdgesTypes ==
    ASSUME TypeInv, NEW p \in Proc, RebuildClearsEdges(p)
    PROVE  TypeInv'
<1>1. pc[p] = "clearing" /\ UNCHANGED <<log, seen, trusted, vault, outdated, torn, unheard, crashes>> /\ Gen' = Gen
  BY DEF RebuildClearsEdges, Gen
<1>2. op[p].kind = "rebuild" /\ scan[p] \in Notes
  BY <1>1, StateTypes DEF PhaseOk
<1>3. CASE /\ store' = [store EXCEPT !.edges = NoGraph.edges]
           /\ mem' = [mem EXCEPT ![p] = Unlinked(scan[p])]
           /\ buf' = [buf EXCEPT ![p] = [left |-> Present(scan[p])]]
           /\ pc' = [pc EXCEPT ![p] = "cleared"]
           /\ UNCHANGED <<op, scan, fault, fails>>
  <2>1. "cleared" \in Phases
    BY DEF Phases
  <2>2. store' \in Graph
    <3>1. NoGraph.edges \subseteq Edge /\ store \in Graph
      BY EmptyGraph, StateTypes DEF Graph
    <3>2. QED
      BY <1>3, <3>1 DEF Graph
  <2>3. mem' \in [Proc -> Graph] /\ mem'[p] = Unlinked(scan[p])
    BY <1>3, StateTypes, UnlinkedTypes
  <2>4. pc' \in [Proc -> Phases] /\ buf' = [q \in Proc |-> buf'[q]]
    BY <1>3, <2>1, StateTypes
  <2>5. pc'[p] = "cleared" /\ op'[p].kind = "rebuild" /\ buf'[p].left = Present(scan[p]) /\ scan'[p] = scan[p]
    BY <1>2, <1>3, StateTypes
  <2>6. IdsBelow(mem'[p].edges, mem'[p].next)
    BY <2>3, UnlinkedTypes DEF IdsBelow
  <2>7. PhaseOk(p)'
    BY <1>2, <2>5, <2>6 DEF PhaseOk
  <2>8. \A q \in Proc \ {p} : Still(q)
    BY <1>3, StateTypes DEF Still
  <2>9. \A q \in Proc : PhaseOk(q)'
    BY <1>1, <2>7, <2>8, PhasesKept
  <2>10. QED
    BY <1>1, <1>3, <2>2, <2>3, <2>4, <2>9, StateTypes DEF TypeInv
<1>4. CASE CommitRefused(p) /\ scan' = [scan EXCEPT ![p] = Nil] /\ UNCHANGED <<mem, buf>>
  <2>1. /\ pc' \in [Proc -> Phases] /\ op' \in [Proc -> Operation] /\ PhaseOk(p)'
        /\ \A q \in Proc \ {p} : pc'[q] = pc[q] /\ op'[q] = op[q]
        /\ fault' = TRUE /\ fails' \in 0..MaxFail /\ UNCHANGED <<store, log>>
    BY <1>4, Refusing
  <2>2. scan' \in [Proc -> Notes \cup {Nil}] /\ \A q \in Proc \ {p} : scan'[q] = scan[q]
    BY <1>4, StateTypes
  <2>3. \A q \in Proc \ {p} : Still(q)
    BY <1>4, <2>1, <2>2 DEF Still
  <2>4. \A q \in Proc : PhaseOk(q)'
    BY <1>1, <2>1, <2>3, PhasesKept
  <2>5. QED
    BY <1>1, <1>4, <2>1, <2>2, <2>4 DEF TypeInv
<1>5. QED
  BY <1>3, <1>4 DEF RebuildClearsEdges

\* It wires a note.
LEMMA RebuildWiresTypes ==
    ASSUME TypeInv, NEW p \in Proc, RebuildWires(p)
    PROVE  TypeInv'
<1>0. PICK n \in buf[p].left : \E ks \in Resolutions(mem[p].nodes, scan[p][n]) :
        /\ mem' = [mem EXCEPT ![p] = Wired(mem[p], n, ks)]
        /\ buf' = [buf EXCEPT ![p] = [left |-> buf[p].left \ {n}]]
  BY StateTypes DEF RebuildWires
<1>1. PICK ks \in Resolutions(mem[p].nodes, scan[p][n]) :
        /\ mem' = [mem EXCEPT ![p] = Wired(mem[p], n, ks)]
        /\ buf' = [buf EXCEPT ![p] = [left |-> buf[p].left \ {n}]]
  BY <1>0
<1>2. pc[p] = "cleared" /\ Gen' = Gen
      /\ UNCHANGED <<store, log, seen, trusted, pc, op, scan, vault, fault, outdated, torn, unheard, fails, crashes>>
  BY DEF RebuildWires, Gen
<1>3. /\ scan[p] \in Notes /\ buf[p].left \subseteq Present(scan[p]) /\ op[p].kind = "rebuild"
      /\ IdsBelow(mem[p].edges, mem[p].next) /\ mem[p] \in Graph
  BY <1>2, StateTypes DEF PhaseOk
<1>4. n \in Note /\ scan[p][n] \in LinkLists
  BY <1>3 DEF Notes, Present
<1>5. WiredTo(mem[p], n, scan[p][n], ks, Wired(mem[p], n, ks))
  BY <1>3, <1>4, WiredIs
<1>6. IdsBelow(Wired(mem[p], n, ks).edges, Wired(mem[p], n, ks).next)
  <2>1. Len(scan[p][n]) \in Nat /\ mem[p].next \in Nat /\ \A e \in mem[p].edges : e.id \in Nat
    BY <1>3, <1>4, LinkTypes DEF Graph, Edge
  <2>2. \A e \in mem[p].edges : e.id < mem[p].next + Len(scan[p][n])
    BY <1>3, <2>1 DEF IdsBelow
  <2>3. QED
    BY <1>5, <2>2 DEF IdsBelow, WiredTo
<1>7. mem' \in [Proc -> Graph] /\ mem'[p] = Wired(mem[p], n, ks) /\ buf' = [q \in Proc |-> buf'[q]]
  BY <1>1, <1>5, StateTypes DEF WiredTo
<1>8. buf'[p].left \subseteq Present(scan[p])
  BY <1>1, <1>3, StateTypes
<1>9. PhaseOk(p)'
  BY <1>2, <1>3, <1>6, <1>7, <1>8 DEF PhaseOk
<1>10. \A q \in Proc \ {p} : Still(q)
  BY <1>1, <1>2, StateTypes DEF Still
<1>11. \A q \in Proc : PhaseOk(q)'
  BY <1>2, <1>9, <1>10, PhasesKept
<1>12. QED
  BY <1>2, <1>7, <1>11 DEF TypeInv

\* It writes what it has wired.
LEMMA RebuildWritesTypes ==
    ASSUME TypeInv, NEW p \in Proc, RebuildWrites(p)
    PROVE  TypeInv'
<1> DEFINE b == Changes(NoGraph, mem[p], {}, TRUE)
<1>1. /\ trusted' = [trusted EXCEPT ![p] = TRUE] /\ buf' = [buf EXCEPT ![p] = Nil] /\ scan' = [scan EXCEPT ![p] = Nil]
      /\ \/ /\ Commits(p, b, mem[p].next) /\ outdated' = (outdated \/ \E n \in Note \ unheard : scan[p][n] # vault[n])
            /\ unheard' = {n \in unheard : scan[p][n] # vault[n]}
         \/ CommitRefused(p) /\ UNCHANGED <<outdated, unheard>>
      /\ pc[p] = "cleared" /\ UNCHANGED <<mem, seen, vault, torn, crashes>>
  BY DEF RebuildWrites
<1>2. op[p].kind = "rebuild" /\ IdsBelow(mem[p].edges, mem[p].next) /\ mem[p] \in Graph /\ mem[p].next \in Nat
  BY <1>1, StateTypes DEF PhaseOk, Graph
<1>3. trusted' \in [Proc -> BOOLEAN] /\ buf' = [q \in Proc |-> buf'[q]] /\ scan' \in [Proc -> Notes \cup {Nil}]
      /\ outdated' \in BOOLEAN /\ unheard' \in SUBSET Note
  BY <1>1, StateTypes DEF TypeInv
<1>4. \A q \in Proc \ {p} : buf'[q] = buf[q] /\ scan'[q] = scan[q] /\ mem'[q] = mem[q]
  BY <1>1, StateTypes
<1>5. b \in Record /\ b.edges = mem[p].edges \ NoGraph.edges
  BY <1>2, EmptyGraph, ChangesRecord
<1> HIDE DEF b
<1>6. CASE Commits(p, b, mem[p].next)
  <2>1. \E n \in Nat : IdsBelow(b.edges, n)
    BY <1>2, <1>5 DEF IdsBelow
  <2>2. /\ store' \in Graph /\ log' \in Seq(Record) /\ Gen \in Nat /\ Gen' = Gen + 1 /\ Gen' <= MaxGen
        /\ \A i \in 1..Gen' : \E n \in Nat : IdsBelow(log'[i].edges, n)
        /\ pc' \in [Proc -> Phases] /\ pc'[p] = "persisted" /\ \A q \in Proc \ {p} : pc'[q] = pc[q]
        /\ op' = op /\ fault' = fault /\ fails' = fails
    BY <1>2, <1>5, <1>6, <2>1, Committing
  <2>3. PhaseOk(p)'
    BY <1>2, <2>2 DEF PhaseOk
  <2>4. \A q \in Proc \ {p} : Still(q)
    BY <1>4, <2>2 DEF Still
  <2>5. \A q \in Proc : PhaseOk(q)'
    BY <2>2, <2>3, <2>4, PhasesKept
  <2>6. \A q \in Proc : seen'[q] <= Gen'
    BY <1>1, <2>2, StateTypes
  <2>7. QED
    BY <1>1, <1>3, <2>2, <2>5, <2>6 DEF TypeInv
<1>7. CASE CommitRefused(p)
  <2>1. /\ pc' \in [Proc -> Phases] /\ op' \in [Proc -> Operation] /\ PhaseOk(p)'
        /\ \A q \in Proc \ {p} : pc'[q] = pc[q] /\ op'[q] = op[q]
        /\ fault' = TRUE /\ fails' \in 0..MaxFail /\ UNCHANGED <<store, log>> /\ Gen' = Gen
    BY <1>7, Refusing
  <2>2. \A q \in Proc \ {p} : Still(q)
    BY <1>4, <2>1 DEF Still
  <2>3. \A q \in Proc : PhaseOk(q)'
    BY <2>1, <2>2, PhasesKept
  <2>4. QED
    BY <1>1, <1>3, <2>1, <2>3 DEF TypeInv
<1>8. QED
  BY <1>1, <1>6, <1>7

\* A process stops.
LEMMA StopTypes ==
    ASSUME TypeInv, NEW p \in Proc, Stop(p)
    PROVE  TypeInv'
<1>1. /\ crashes < MaxCrash /\ crashes' = crashes + 1 /\ fault' = (fault \/ (Mutating(p) /\ pc[p] # "persisted"))
      /\ pc' = [pc EXCEPT ![p] = "closed"] /\ op' = [op EXCEPT ![p] = NoOp]
      /\ mem' = [mem EXCEPT ![p] = NoGraph] /\ seen' = [seen EXCEPT ![p] = 0]
      /\ trusted' = [trusted EXCEPT ![p] = FALSE]
      /\ buf' = [buf EXCEPT ![p] = Nil] /\ scan' = [scan EXCEPT ![p] = Nil]
      /\ UNCHANGED <<store, log, vault, outdated, torn, unheard, fails>> /\ Gen' = Gen
  BY DEF Stop, Gen
<1>2. NoOp \in Operation /\ "closed" \in Phases /\ NoOp.kind = "none"
  BY DEF Operation, Phases, NoOp
<1>3. /\ pc' \in [Proc -> Phases] /\ op' \in [Proc -> Operation] /\ buf' = [q \in Proc |-> buf'[q]]
      /\ scan' \in [Proc -> Notes \cup {Nil}]
  BY <1>1, <1>2, StateTypes
<1>4. mem' \in [Proc -> Graph] /\ seen' \in [Proc -> Nat] /\ (\A q \in Proc : seen'[q] <= Gen) /\ trusted' \in [Proc -> BOOLEAN]
  BY <1>1, StateTypes, EmptyGraph DEF TypeInv
<1>5. crashes' \in 0..MaxCrash /\ fault' \in BOOLEAN
  BY <1>1, BoundAssumption DEF TypeInv
<1>6. pc'[p] = "closed" /\ op'[p] = NoOp
  BY <1>1, StateTypes
<1>7. PhaseOk(p)'
  BY <1>2, <1>6 DEF PhaseOk
<1>8. \A q \in Proc \ {p} : Still(q)
  BY <1>1, StateTypes DEF Still
<1>9. \A q \in Proc : PhaseOk(q)'
  BY <1>1, <1>7, <1>8, PhasesKept
<1>10. QED
  BY <1>1, <1>3, <1>4, <1>5, <1>9 DEF TypeInv

\* The types hold at first.
LEMMA TypeInit == Init => TypeInv
<1> SUFFICES ASSUME Init PROVE TypeInv
  OBVIOUS
<1>1. Gen = 0 /\ log \in Seq(Record)
  BY DEF Init, Gen
<1>2. {NoOp} \subseteq Operation /\ "closed" \in Phases /\ NoOp.kind = "none"
  BY DEF Operation, Phases, NoOp
<1>3. \A p \in Proc : PhaseOk(p)
  BY <1>2 DEF Init, PhaseOk
<1>4. vault \in Notes
  BY DEF Init, Notes
<1>5. store \in Graph /\ mem \in [Proc -> Graph]
  BY EmptyGraph DEF Init
<1>6. \A g \in 1..Gen : \E n \in Nat : IdsBelow(log[g].edges, n)
  BY <1>1
<1>7. /\ seen \in [Proc -> Nat] /\ \A p \in Proc : seen[p] <= Gen
      /\ pc \in [Proc -> Phases] /\ op \in [Proc -> Operation]
  BY <1>1, <1>2 DEF Init
<1>8. buf = [p \in Proc |-> buf[p]] /\ scan \in [Proc -> Notes \cup {Nil}] /\ trusted \in [Proc -> BOOLEAN]
  BY DEF Init
<1>9. Gen <= MaxGen /\ fails \in 0..MaxFail /\ crashes \in 0..MaxCrash
  <2>1. fails = 0 /\ crashes = 0
    BY DEF Init
  <2>2. QED
    BY <1>1, <2>1, BoundAssumption
<1>10. fault \in BOOLEAN /\ outdated \in BOOLEAN /\ torn \in BOOLEAN /\ unheard \in SUBSET Note
  BY DEF Init
<1>11. QED
  BY <1>1, <1>3, <1>4, <1>5, <1>6, <1>7, <1>8, <1>9, <1>10 DEF TypeInv

\* Nothing changes.
LEMMA TypeStutter ==
    ASSUME TypeInv, UNCHANGED vars
    PROVE  TypeInv'
<1>1. \A q \in Proc : Still(q)
  BY DEF vars, Still
<1>2. Gen' = Gen /\ Gen \in Nat
  BY StateTypes DEF vars, Gen
<1>3. \A q \in Proc : PhaseOk(q)'
  <2>1. \A q \in Proc : Gen' \in Nat /\ Gen <= Gen'
    BY <1>2
  <2>2. QED
    BY <1>1, <2>1, PhaseKept
<1>4. QED
  BY <1>2, <1>3 DEF vars, TypeInv

\* And every step keeps them.
LEMMA TypeStep == TypeInv /\ [Next]_vars => TypeInv'
<1> SUFFICES ASSUME TypeInv, [Next]_vars PROVE TypeInv'
  OBVIOUS
<1>1. CASE UNCHANGED vars
  BY <1>1, TypeStutter
<1>2. ASSUME NEW p \in Proc,
             \/ Open(p) \/ ReadNextId(p) \/ ReadGeneration(p) \/ ReadNodes(p) \/ ReadEdges(p)
             \/ Query(p) \/ CheckLog(p) \/ ReadRows(p) \/ ApplyRows(p) \/ RowsApplied(p)
             \/ \E n \in Note, links \in LinkLists \cup {Absent} : Mutate(p, n, links)
             \/ \E m \in Moves : MoveDirectory(p, m) \/ RestoreDeletes(p, m)
             \/ Act(p) \/ RecordGeneration(p)
             \/ CollectNotes(p) \/ RebuildClears(p) \/ RebuildClearsEdges(p)
             \/ RebuildWires(p) \/ RebuildWrites(p)
             \/ Stop(p)
      PROVE  TypeInv'
  <2>1. CASE Open(p) \/ ReadNextId(p) \/ ReadGeneration(p) \/ ReadNodes(p) \/ ReadEdges(p)
    BY <2>1, OpenTypes, ReadNextIdTypes, ReadGenerationTypes, ReadNodesTypes, ReadEdgesTypes
  <2>2. CASE Query(p) \/ CheckLog(p) \/ ReadRows(p) \/ ApplyRows(p) \/ RowsApplied(p)
    BY <2>2, QueryTypes, CheckLogTypes, ReadRowsTypes, ApplyRowsTypes, RowsAppliedTypes
  <2>3. CASE \E n \in Note, links \in LinkLists \cup {Absent} : Mutate(p, n, links)
    BY <2>3, MutateTypes
  <2>4. CASE Act(p) \/ RecordGeneration(p)
    BY <2>4, ActTypes, RecordGenerationTypes
  <2>5. CASE CollectNotes(p) \/ RebuildClears(p) \/ RebuildClearsEdges(p)
    BY <2>5, CollectNotesTypes, RebuildClearsTypes, RebuildClearsEdgesTypes
  <2>6. CASE RebuildWires(p) \/ RebuildWrites(p) \/ Stop(p)
    BY <2>6, RebuildWiresTypes, RebuildWritesTypes, StopTypes
  <2>7. CASE \E m \in Moves : MoveDirectory(p, m) \/ RestoreDeletes(p, m)
    BY <2>7, DirectoryTypes, WithDirectoryTypes
  <2>8. QED
    BY <1>2, <2>1, <2>2, <2>3, <2>4, <2>5, <2>6, <2>7
<1>3. QED
  BY <1>1, <1>2 DEF Next

\* They are stronger than those the runs check.
LEMMA TypesShown == TypeInv => TypeOK
<1> SUFFICES ASSUME TypeInv PROVE TypeOK
  OBVIOUS
<1>1. \A g \in {store} \cup {mem[p] : p \in Proc} : g \in Graph
  BY StateTypes
<1>2. \A g \in {store} \cup {mem[p] : p \in Proc} :
         /\ g.nodes \in [Key -> Kinds]
         /\ \A e \in g.edges : e.id \in Nat /\ e.from \in Note /\ e.to \in Key
         /\ g.next \in Nat
  BY <1>1 DEF Graph, Edge
<1>3. \A p \in Proc : seen[p] \in 0..Gen
  BY StateTypes
<1>4. QED
  BY <1>2, <1>3 DEF TypeInv, TypeOK

\* Whatever the processes do to each other, graphs keep their shape, and no process
\* has seen a generation that the store has not reached.
THEOREM GraphTypeCorrect == Spec => []TypeOK
<1>1. Spec => []TypeInv
  BY TypeInit, TypeStep, PTL DEF Spec
<1>2. QED
  BY <1>1, TypesShown, PTL

-----------------------------------------------------------------------------
(* Operations keep graphs sound and other notes' links as they were.        *)

\* An edge is its id and its two ends.
LEMMA SameEdge ==
    ASSUME NEW e \in Edge, NEW f \in Edge, e.id = f.id, e.from = f.from, e.to = f.to
    PROVE  e = f
  BY DEF Edge

\* The nodes that wiring makes.
LEMMA WiredNodes ==
    ASSUME NEW m \in Graph, NEW n \in Note, NEW links \in LinkLists, NEW ks, NEW g,
           WiredTo(m, n, links, ks, g)
    PROVE  /\ \A k \in Key : m.nodes[k] # "none" => g.nodes[k] # "none"
           /\ \A i \in 1..Len(links) : ks[i] \in Key /\ g.nodes[ks[i]] # "none"
<1> DEFINE K == {ks[i] : i \in 1..Len(links)}
<1>1. g.nodes = WithPhantoms(m.nodes, K) /\ ks \in [1..Len(links) -> Key]
  BY DEF WiredTo
<1>2. \A i \in 1..Len(links) : ks[i] \in Key /\ ks[i] \in K
  BY <1>1
<1> HIDE DEF K
<1>3. \A k \in Key : g.nodes[k] = IF m.nodes[k] = "none" /\ k \in K THEN "phantom" ELSE m.nodes[k]
  BY <1>1 DEF WithPhantoms
<1>4. QED
  BY <1>2, <1>3

\* The notes that have a node of their own.
RealNotes(g) == {n \in Note : g.nodes[n] = "real"}

\* Wiring makes no note real.
LEMMA WiredReal ==
    ASSUME NEW m \in Graph, NEW n \in Note, NEW links \in LinkLists, NEW ks, NEW g,
           WiredTo(m, n, links, ks, g)
    PROVE  RealNotes(g) = RealNotes(m)
<1>1. g.nodes = WithPhantoms(m.nodes, {ks[i] : i \in 1..Len(links)})
  BY DEF WiredTo
<1>2. QED
  BY <1>1 DEF WithPhantoms, RealNotes, Key

\* Wiring keeps a graph sound.
LEMMA WiredSound ==
    ASSUME NEW m \in Graph, NEW n \in Note, NEW links \in LinkLists, NEW ks, NEW g,
           WiredTo(m, n, links, ks, g), Sound(m), m.nodes[n] # "none"
    PROVE  Sound(g)
<1> DEFINE new == NewEdges(m.next, n, ks)
<1>1. /\ g \in Graph /\ g.edges = m.edges \cup new /\ g.next = m.next + Len(links) /\ ks \in [1..Len(links) -> Key]
      /\ \A e \in new : /\ e \in Edge /\ e.from = n /\ e.id >= m.next /\ e.id < m.next + Len(links)
                        /\ e.to = ks[e.id - m.next + 1] /\ e.id - m.next + 1 \in 1..Len(links)
  BY DEF WiredTo
<1>2. m.edges \subseteq Edge /\ m.next \in Nat /\ Len(links) \in Nat
  BY LinkTypes DEF Graph
<1>3. \A e \in m.edges : e.id \in Nat /\ e.id < m.next
  BY <1>2 DEF Sound, IdsBelow, Edge
<1> HIDE DEF new
<1>4. \A e, f \in g.edges : e.id = f.id => e = f
  <2>1. \A e, f \in m.edges : e.id = f.id => e = f
    BY DEF Sound
  <2>2. ASSUME NEW e \in new, NEW f \in new, e.id = f.id
        PROVE  e = f
    BY <1>1, <2>2, SameEdge
  <2>3. \A e \in m.edges, f \in new : e.id # f.id
    <3>1. \A f \in new : f.id \in Nat /\ f.id >= m.next
      BY <1>1 DEF Edge
    <3>2. QED
      BY <1>2, <1>3, <3>1
  <2>4. QED
    BY <1>1, <2>1, <2>2, <2>3
<1>5. IdsBelow(g.edges, g.next)
  <2>1. \A e \in m.edges : e.id < m.next + Len(links)
    BY <1>2, <1>3
  <2>2. QED
    BY <1>1, <2>1 DEF IdsBelow
<1>6. \A e \in g.edges : g.nodes[e.from] # "none" /\ g.nodes[e.to] # "none"
  <2>1. \A e \in g.edges : e.from \in Key /\ e.to \in Key
    BY <1>1 DEF Graph, Edge, Key
  <2>2. \A e \in m.edges : m.nodes[e.from] # "none" /\ m.nodes[e.to] # "none"
    BY DEF Sound
  <2>3. n \in Key
    BY DEF Key
  <2>4. QED
    BY <1>1, <2>1, <2>2, <2>3, WiredNodes
<1>7. QED
  BY <1>4, <1>5, <1>6 DEF Sound

\* A note gets as many edges as it has links; other notes keep theirs.
LEMMA WiredLinks ==
    ASSUME NEW m \in Graph, NEW n \in Note, NEW links \in LinkLists, NEW ks, NEW g,
           WiredTo(m, n, links, ks, g), From(m.edges, n) = {}
    PROVE  /\ \A j \in Note \ {n} : From(g.edges, j) = From(m.edges, j)
           /\ IsFiniteSet(From(g.edges, n)) /\ Cardinality(From(g.edges, n)) = Len(links)
<1> DEFINE new == NewEdges(m.next, n, ks)
           f == [i \in 1..Len(links) |-> [id |-> m.next + i - 1, from |-> n, to |-> ks[i]]]
<1>1. /\ g.edges = m.edges \cup new /\ ks \in [1..Len(links) -> Key]
      /\ \A e \in new : e.from = n
  BY DEF WiredTo
<1>2. m.next \in Nat /\ Len(links) \in Nat
  BY LinkTypes DEF Graph
<1>3. new = {f[i] : i \in 1..Len(links)}
  BY <1>1 DEF NewEdges
<1>4. \A i, j \in 1..Len(links) : f[i] = f[j] => i = j
  <2>1. \A i \in 1..Len(links) : f[i].id = m.next + i - 1
    OBVIOUS
  <2>2. \A i, j \in 1..Len(links) : m.next + i - 1 = m.next + j - 1 => i = j
    BY <1>2
  <2>3. QED
    BY <2>1, <2>2
<1>5. f = [i \in 1..Len(links) |-> f[i]]
  OBVIOUS
<1> HIDE DEF f, new
<1>6. f \in Bijection(1..Len(links), new)
  BY <1>3, <1>4, <1>5 DEF Bijection, Injection, Surjection, IsInjective
<1>7. ExistsBijection(1..Len(links), new)
  BY <1>6 DEF ExistsBijection
<1>8. IsFiniteSet(new) /\ Cardinality(new) = Len(links)
  <2>1. IsFiniteSet(1..Len(links)) /\ Cardinality(1..Len(links)) = Len(links)
    <3>1. Len(links) \in Int /\ 1 \in Int
      BY <1>2
    <3>2. /\ IsFiniteSet(1..Len(links))
          /\ Cardinality(1..Len(links)) = IF 1 > Len(links) THEN 0 ELSE Len(links) - 1 + 1
      BY <3>1, FS_Interval
    <3>3. (IF 1 > Len(links) THEN 0 ELSE Len(links) - 1 + 1) = Len(links)
      BY <1>2
    <3>4. QED
      BY <3>2, <3>3
  <2>2. QED
    BY <1>7, <2>1, FS_Bijection
<1>9. From(g.edges, n) = new
  BY <1>1 DEF From
<1>10. \A j \in Note \ {n} : From(g.edges, j) = From(m.edges, j)
  BY <1>1 DEF From
<1>11. QED
  BY <1>8, <1>9, <1>10

\* Making the note's node and taking its edges away does, too.
LEMMA BaredSound ==
    ASSUME NEW m \in Graph, NEW n \in Note, Sound(m)
    PROVE  Sound(Bared(m, n)) /\ Bared(m, n).nodes[n] = "real"
<1>1. /\ Bared(m, n).nodes = [m.nodes EXCEPT ![n] = "real"]
      /\ Bared(m, n).edges = {e \in m.edges : e.from # n}
      /\ Bared(m, n).next = m.next
  BY BaredIs
<1>2. m.nodes \in [Key -> Kinds] /\ n \in Key /\ \A e \in m.edges : e.from \in Key /\ e.to \in Key
  BY DEF Graph, Edge, Key
<1>3. \A k \in Key : Bared(m, n).nodes[k] = IF k = n THEN "real" ELSE m.nodes[k]
  BY <1>1, <1>2
<1>4. QED
  BY <1>1, <1>2, <1>3 DEF Sound, IdsBelow

\* What an upsert makes of a sound graph.
LEMMA UpsertKeeps ==
    ASSUME NEW m \in Graph, NEW n \in Note, NEW links \in LinkLists, NEW g \in UpsertNote(m, n, links), Sound(m)
    PROVE  /\ Sound(g) /\ Holds(g, n, links)
           /\ \A j \in Note \ {n} : From(g.edges, j) = From(m.edges, j)
           /\ RealNotes(g) \ {n} = RealNotes(m) \ {n}
<1> DEFINE h == Bared(m, n)
<1>1. PICK ks \in [1..Len(links) -> Key] : WiredTo(h, n, links, ks, g)
  BY UpsertIs
<1>2. /\ h \in Graph /\ h.nodes = [m.nodes EXCEPT ![n] = "real"]
      /\ h.edges = {e \in m.edges : e.from # n}
  BY BaredIs
<1>3. Sound(h) /\ h.nodes[n] = "real"
  BY BaredSound
<1> HIDE DEF h
<1>4. Sound(g)
  BY <1>1, <1>2, <1>3, WiredSound
<1>5. From(h.edges, n) = {} /\ \A j \in Note \ {n} : From(h.edges, j) = From(m.edges, j)
  BY <1>2 DEF From
<1>6. /\ \A j \in Note \ {n} : From(g.edges, j) = From(h.edges, j)
      /\ IsFiniteSet(From(g.edges, n)) /\ Cardinality(From(g.edges, n)) = Len(links)
  BY <1>1, <1>2, <1>5, WiredLinks
<1>7. RealNotes(g) = RealNotes(h)
  BY <1>1, <1>2, WiredReal
<1>8. RealNotes(h) = RealNotes(m) \cup {n}
  BY <1>2 DEF Graph, Key, RealNotes
<1>9. links # Absent
  BY ResolutionAssumption
<1>10. Holds(g, n, links)
  <2>1. g.nodes[n] = "real"
    BY <1>7, <1>8 DEF RealNotes
  <2>2. QED
    BY <1>6, <1>9, <2>1 DEF Holds
<1>11. QED
  BY <1>4, <1>5, <1>6, <1>7, <1>8, <1>10

\* What a removal makes of one.
LEMMA RemoveKeeps ==
    ASSUME NEW m \in Graph, NEW n \in Note, Sound(m)
    PROVE  LET g == RemoveNote(m, n)
           IN  /\ Sound(g) /\ Holds(g, n, Absent)
               /\ \A j \in Note \ {n} : From(g.edges, j) = From(m.edges, j)
               /\ RealNotes(g) \ {n} = RealNotes(m) \ {n}
<1> DEFINE es == {e \in m.edges : e.from # n}
           linked(k) == Touching(es, {k}) # {}
           g == RemoveNote(m, n)
<1>1. /\ g \in Graph /\ g.edges = es /\ g.next = m.next
      /\ \A k \in Key : g.nodes[k] =
           IF k = n THEN IF m.nodes[k] # "none" /\ linked(k) THEN "phantom" ELSE "none"
           ELSE IF m.nodes[k] = "phantom" /\ ~linked(k) THEN "none" ELSE m.nodes[k]
  BY RemovedIs
<1>2. es \subseteq m.edges /\ \A e \in es : e.from # n /\ linked(e.from) /\ linked(e.to)
  BY DEF Touching
<1>3. \A j \in Note \ {n} : From(es, j) = From(m.edges, j)
  BY DEF From
<1>4. From(es, n) = {}
  BY DEF From
<1> HIDE DEF g, es, linked
<1>5. n \in Key /\ Note \subseteq Key /\ \A e \in m.edges : e.from \in Key /\ e.to \in Key
  BY DEF Key, Graph, Edge
<1>6. \A e \in es : m.nodes[e.from] # "none" /\ m.nodes[e.to] # "none"
  BY <1>2 DEF Sound
<1>7. \A e \in es : g.nodes[e.from] # "none" /\ g.nodes[e.to] # "none"
  BY <1>1, <1>2, <1>5, <1>6
<1>8. Sound(g)
  <2>1. \A e, f \in es : e.id = f.id => e = f
    BY <1>2 DEF Sound
  <2>2. \A e \in es : e.id < m.next
    BY <1>2 DEF Sound, IdsBelow
  <2>3. QED
    BY <1>1, <1>7, <2>1, <2>2 DEF Sound, IdsBelow
<1>9. g.nodes[n] # "real"
  BY <1>1, <1>5
<1>10. RealNotes(g) \ {n} = RealNotes(m) \ {n}
  <2>1. \A j \in Note \ {n} : g.nodes[j] = "real" <=> m.nodes[j] = "real"
    BY <1>1, <1>5
  <2>2. QED
    BY <2>1 DEF RealNotes
<1>11. Holds(g, n, Absent)
  BY <1>1, <1>4, <1>9 DEF Holds
<1>12. QED
  BY <1>1, <1>3, <1>8, <1>10, <1>11 DEF g

-----------------------------------------------------------------------------
(* What a memory knows lasts, while generations are persisted and applied.  *)

\* A process that has seen the last generation holds the store's graph.
LEMMA UpToDate ==
    ASSUME store \in Graph, Gen \in Nat, NEW graph \in Graph, NEW g \in Nat, g = Gen, GraphFollows(graph, g), ~Clearing
    PROVE  graph.nodes = store.nodes /\ graph.edges = store.edges /\ IdsBelow(store.edges, graph.next)
<1>1. \A i \in g + 1..Gen : FALSE
  OBVIOUS
<1>2. Steady(g) /\ (\A k : QuietNode(k, g)) /\ \A d : QuietEdge(d, g)
  BY <1>1 DEF Steady, QuietNode, QuietEdge
<1>3. \A k \in Key : graph.nodes[k] = store.nodes[k]
  BY <1>2 DEF GraphFollows, NodesFollow
<1>4. graph.nodes \in [Key -> Kinds] /\ store.nodes \in [Key -> Kinds]
  BY DEF Graph
<1>5. \A e \in graph.edges \cup store.edges : e \in graph.edges <=> e \in store.edges
  BY <1>2 DEF GraphFollows, EdgesFollow
<1>6. IdsBelow(store.edges, graph.next)
  BY <1>2 DEF GraphFollows, NextFollows, IdsBelow
<1>7. QED
  BY <1>3, <1>4, <1>5, <1>6

\* One that knows more than a generation knows that.
LEMMA FollowsEarlier ==
    ASSUME Gen \in Nat, NEW graph, NEW g \in Nat, NEW h \in Nat, g <= h, GraphFollows(graph, h)
    PROVE  GraphFollows(graph, g)
<1>1. \A i \in h + 1..Gen : i \in g + 1..Gen
  OBVIOUS
<1>2. /\ Steady(g) => Steady(h)
      /\ \A k : QuietNode(k, g) => QuietNode(k, h)
      /\ \A d : QuietEdge(d, g) => QuietEdge(d, h)
  BY <1>1 DEF Steady, QuietNode, QuietEdge
<1>3. QED
  BY <1>2 DEF GraphFollows, NodesFollow, EdgesFollow, NextFollows

\* Applying the rows of the next generation brings a graph up to it.
LEMMA AppliedFollows ==
    ASSUME TypeInv, NEW g \in Graph, NEW i \in 1..Gen, GraphFollows(g, i - 1), ~log[i].reset, RowsHold(i)
    PROVE  GraphFollows(ApplyExternal(g, log[i]), i)
<1> DEFINE b == log[i]
           r == ApplyExternal(g, b)
           nodes == Renode(g.nodes, b)
           ends == {e.from : e \in b.edges} \cup {e.to : e \in b.edges}
<1>1. b \in Record /\ (\E n \in Nat : IdsBelow(b.edges, n)) /\ Gen \in Nat /\ i \in Nat
  BY StateTypes DEF TypeInv, Gen
<1>2. g.nodes \in [Key -> Kinds] /\ g.next \in Nat /\ b.edges \in SUBSET Edge
  BY <1>1 DEF Graph, Record
<1>3. \A k \in Key : nodes[k] = IF k \in DOMAIN b.nodes THEN b.nodes[k]
                                ELSE IF k \in b.gone THEN "none" ELSE g.nodes[k]
  BY <1>1, <1>2, RenodeTypes
<1>4. \A k \in Key : r.nodes[k] = IF k \in ends /\ nodes[k] = "none" THEN "phantom" ELSE nodes[k]
  BY DEF ApplyExternal
<1>5. \A e : e \in r.edges <=> \/ e \in b.edges
                               \/ /\ e \in g.edges /\ e \notin Touching(g.edges, b.gone)
                                  /\ e.id \notin b.cut \cup Ids(b.edges)
  BY DEF ApplyExternal, PutEdges
<1>6. g.next <= r.next /\ IdsBelow(b.edges, r.next)
  BY <1>1, <1>2, NextIsAfter DEF ApplyExternal
<1>7. r.next \in Nat
  BY <1>1, <1>2, NextIsAfter DEF ApplyExternal
<1> HIDE DEF r, nodes
<1>8. SUFFICES ASSUME Steady(i)
               PROVE  NodesFollow(r.nodes, i) /\ EdgesFollow(r.edges, i) /\ NextFollows(r.next, i)
  BY DEF GraphFollows, r
<1>9. \A j \in i - 1 + 1..Gen : j = i \/ j \in i + 1..Gen
  BY <1>1
<1>10. Steady(i - 1)
  BY <1>8, <1>9 DEF Steady
<1>11. /\ \A k : QuietNode(k, i) /\ ~SpeaksOfNode(i, k) => QuietNode(k, i - 1)
       /\ \A d : QuietEdge(d, i) /\ ~SpeaksOfEdge(i, d) => QuietEdge(d, i - 1)
  BY <1>9 DEF QuietNode, QuietEdge
<1>12. NodesFollow(g.nodes, i - 1) /\ EdgesFollow(g.edges, i - 1) /\ NextFollows(g.next, i - 1)
  BY <1>10 DEF GraphFollows
<1>13. /\ \A k \in Key : SpeaksOfNode(i, k) /\ QuietNode(k, i) => store.nodes[k] = LeavesNode(b, k)
       /\ \A e \in store.edges \cup b.edges :
            SpeaksOfEdge(i, e.id) /\ QuietEdge(e.id, i) => (e \in store.edges <=> e \in b.edges)
       /\ \A e \in Touching(store.edges, b.gone) : ~QuietEdge(e.id, i)
       /\ \A e \in b.edges : \A k \in {e.from, e.to} : QuietNode(k, i) => store.nodes[k] # "none"
  BY <1>8 DEF RowsHold
<1> HIDE DEF b
<1>14. NodesFollow(r.nodes, i)
  <2>1. ASSUME NEW k \in Key, QuietNode(k, i)
        PROVE  r.nodes[k] = store.nodes[k]
    <3>1. nodes[k] = store.nodes[k]
      <4>1. CASE SpeaksOfNode(i, k)
        <5>1. store.nodes[k] = LeavesNode(b, k) /\ k \in b.gone \cup DOMAIN b.nodes
          BY <1>13, <2>1, <4>1 DEF SpeaksOfNode, b
        <5>2. QED
          BY <1>3, <5>1 DEF LeavesNode
      <4>2. CASE ~SpeaksOfNode(i, k)
        <5>1. g.nodes[k] = store.nodes[k] /\ k \notin b.gone \cup DOMAIN b.nodes
          BY <1>11, <1>12, <2>1, <4>2 DEF SpeaksOfNode, NodesFollow, b
        <5>2. QED
          BY <1>3, <5>1
      <4>3. QED
        BY <4>1, <4>2
    <3>2. k \in ends => nodes[k] # "none"
      BY <1>13, <2>1, <3>1
    <3>3. QED
      BY <1>4, <3>1, <3>2
  <2>2. QED
    BY <2>1 DEF NodesFollow
<1>15. EdgesFollow(r.edges, i)
  <2>1. ASSUME NEW e \in r.edges \cup store.edges, QuietEdge(e.id, i)
        PROVE  e \in r.edges <=> e \in store.edges
    <3>1. CASE SpeaksOfEdge(i, e.id)
      <4>1. e.id \in b.cut \cup Ids(b.edges)
        BY <3>1 DEF SpeaksOfEdge, b
      <4>2. e \in r.edges <=> e \in b.edges
        BY <1>5, <4>1
      <4>3. QED
        BY <1>13, <2>1, <3>1, <4>2
    <3>2. CASE ~SpeaksOfEdge(i, e.id)
      <4>1. e.id \notin b.cut \cup Ids(b.edges)
        BY <3>2 DEF SpeaksOfEdge, b
      <4>2. e \notin b.edges
        BY <4>1 DEF Ids
      <4>3. e \in g.edges \cup store.edges => (e \in g.edges <=> e \in store.edges)
        BY <1>11, <1>12, <2>1, <3>2 DEF EdgesFollow
      <4>4. e \in store.edges /\ e \in g.edges => e \notin Touching(g.edges, b.gone)
        BY <1>13, <2>1 DEF Touching
      <4>5. QED
        BY <1>5, <2>1, <4>1, <4>2, <4>3, <4>4
    <3>3. QED
      BY <3>1, <3>2
  <2>2. QED
    BY <2>1 DEF EdgesFollow
<1>16. NextFollows(r.next, i)
  <2>1. ASSUME NEW e \in store.edges, QuietEdge(e.id, i)
        PROVE  e.id < r.next
    <3>1. CASE SpeaksOfEdge(i, e.id)
      BY <1>6, <1>13, <2>1, <3>1 DEF IdsBelow
    <3>2. CASE ~SpeaksOfEdge(i, e.id)
      <4>1. e.id < g.next /\ e.id \in Nat
        BY <1>11, <1>12, <2>1, <3>2, StateTypes DEF NextFollows, Graph, Edge
      <4>2. QED
        BY <1>2, <1>6, <1>7, <4>1
    <3>3. QED
      BY <3>1, <3>2
  <2>2. QED
    BY <2>1 DEF NextFollows
<1>17. QED
  BY <1>14, <1>15, <1>16

-----------------------------------------------------------------------------
(* A generation is persisted.                                               *)

\* What Commits(p, b, next) does to the store and the log.
Grows(b, next) ==
    /\ b \in Record /\ store' = Persist(store, b, next) /\ Gen' = Gen + 1
    /\ \A i \in 1..Gen : log'[i] = log[i]
    /\ log'[Gen + 1] = b

\* The rows it writes.
LEMMA RowsWritten ==
    ASSUME TypeInv, NEW b, NEW next, Grows(b, next)
    PROVE  /\ \A k \in Key : store'.nodes[k] = IF k \in DOMAIN b.nodes THEN b.nodes[k]
                                               ELSE IF k \in b.gone THEN "none" ELSE store.nodes[k]
           /\ \A e : e \in store'.edges <=> e \in b.edges \/ (e \in store.edges /\ e.id \notin b.cut \cup Ids(b.edges))
<1>1. store.nodes \in [Key -> Kinds] /\ b \in Record /\ store' = Persist(store, b, next)
  BY StateTypes DEF Graph, Grows
<1>2. \A k \in Key : store'.nodes[k] = IF k \in DOMAIN b.nodes THEN b.nodes[k]
                                       ELSE IF k \in b.gone THEN "none" ELSE store.nodes[k]
  <2>1. store'.nodes = Renode(store.nodes, b)
    BY <1>1 DEF Persist
  <2>2. QED
    BY <1>1, <2>1, RenodeTypes
<1>3. \A e : e \in store'.edges <=> e \in b.edges \/ (e \in store.edges /\ e.id \notin b.cut \cup Ids(b.edges))
  BY <1>1 DEF Persist, PutEdges
<1>4. QED
  BY <1>2, <1>3

\* What is quiet after it was quiet before it, and it does not speak of it.
LEMMA QuietBefore ==
    ASSUME TypeInv, NEW b, NEW next, Grows(b, next), NEW h \in 0..Gen
    PROVE  /\ \A k : QuietNode(k, h)' => QuietNode(k, h) /\ k \notin b.gone \cup DOMAIN b.nodes
           /\ \A d : QuietEdge(d, h)' => QuietEdge(d, h) /\ d \notin b.cut \cup Ids(b.edges)
<1>1. /\ Gen \in Nat /\ h \in Nat /\ Gen' = Gen + 1 /\ log'[Gen + 1] = b
      /\ \A i \in h + 1..Gen : i \in h + 1..Gen + 1 /\ log'[i] = log[i]
      /\ Gen + 1 \in h + 1..Gen + 1
  BY StateTypes DEF Grows
<1>2. ASSUME NEW k, QuietNode(k, h)'
      PROVE  QuietNode(k, h) /\ k \notin b.gone \cup DOMAIN b.nodes
  <2>1. \A i \in h + 1..Gen + 1 : k \notin log'[i].gone \cup DOMAIN log'[i].nodes
    BY <1>1, <1>2 DEF QuietNode, SpeaksOfNode
  <2>2. QED
    BY <1>1, <2>1 DEF QuietNode, SpeaksOfNode
<1>3. ASSUME NEW d, QuietEdge(d, h)'
      PROVE  QuietEdge(d, h) /\ d \notin b.cut \cup Ids(b.edges)
  <2>1. \A i \in h + 1..Gen + 1 : d \notin log'[i].cut \cup Ids(log'[i].edges)
    BY <1>1, <1>3 DEF QuietEdge, SpeaksOfEdge
  <2>2. QED
    BY <1>1, <2>1 DEF QuietEdge, SpeaksOfEdge
<1>4. QED
  BY <1>2, <1>3

\* The store has not been cleared since, unless the generation is a reset.
LEMMA SteadyBefore ==
    ASSUME TypeInv, NEW b, NEW next, Grows(b, next), NEW h \in 0..Gen, Clearing' \/ ~Clearing \/ b.reset, Steady(h)'
    PROVE  Steady(h) /\ ~b.reset
<1>1. /\ Gen \in Nat /\ h \in Nat /\ Gen' = Gen + 1 /\ log'[Gen + 1] = b
      /\ \A i \in h + 1..Gen : i \in h + 1..Gen + 1 /\ log'[i] = log[i]
      /\ Gen + 1 \in h + 1..Gen + 1
  BY StateTypes DEF Grows
<1>2. ~Clearing' /\ \A i \in h + 1..Gen + 1 : ~log'[i].reset
  BY <1>1 DEF Steady
<1>3. QED
  BY <1>1, <1>2 DEF Steady

\* So what was known of the store is still known.
LEMMA NodesLast ==
    ASSUME TypeInv, NEW b, NEW next, Grows(b, next), NEW h \in 0..Gen, NEW nodes, NodesFollow(nodes, h)
    PROVE  NodesFollow(nodes, h)'
<1>1. ASSUME NEW k \in Key, QuietNode(k, h)'
      PROVE  nodes[k] = store'.nodes[k]
  BY <1>1, QuietBefore, RowsWritten DEF NodesFollow
<1>2. QED
  BY <1>1 DEF NodesFollow

\* So are the edges it knows.
LEMMA EdgesLast ==
    ASSUME TypeInv, NEW b, NEW next, Grows(b, next), NEW h \in 0..Gen, NEW es, EdgesFollow(es, h)
    PROVE  EdgesFollow(es, h)'
<1>1. ASSUME NEW e \in es \cup store'.edges, QuietEdge(e.id, h)'
      PROVE  e \in es <=> e \in store'.edges
  <2>1. QuietEdge(e.id, h) /\ e.id \notin b.cut \cup Ids(b.edges)
    BY <1>1, QuietBefore
  <2>2. e \notin b.edges
    BY <2>1 DEF Ids
  <2>3. e \in store'.edges <=> e \in store.edges
    BY <2>1, <2>2, RowsWritten
  <2>4. QED
    BY <1>1, <2>1, <2>3 DEF EdgesFollow
<1>2. QED
  BY <1>1 DEF EdgesFollow

\* So is its allocator past the ids it knows.
LEMMA NextLasts ==
    ASSUME TypeInv, NEW b, NEW next, Grows(b, next), NEW h \in 0..Gen, NEW n, NextFollows(n, h)
    PROVE  NextFollows(n, h)'
<1>1. ASSUME NEW e \in store'.edges, QuietEdge(e.id, h)'
      PROVE  e.id < n
  <2>1. QuietEdge(e.id, h) /\ e.id \notin b.cut \cup Ids(b.edges)
    BY <1>1, QuietBefore
  <2>2. e \in store.edges
    BY <1>1, <2>1, RowsWritten DEF Ids
  <2>3. QED
    BY <2>1, <2>2 DEF NextFollows
<1>2. QED
  BY <1>1 DEF NextFollows

\* And so is the whole of it.
LEMMA GraphLasts ==
    ASSUME TypeInv, NEW b, NEW next, Grows(b, next), NEW h \in 0..Gen, NEW graph,
           Clearing' \/ ~Clearing \/ b.reset, GraphFollows(graph, h)
    PROVE  GraphFollows(graph, h)'
<1>1. SUFFICES ASSUME Steady(h)'
               PROVE  NodesFollow(graph.nodes, h)' /\ EdgesFollow(graph.edges, h)' /\ NextFollows(graph.next, h)'
  BY DEF GraphFollows
<1>2. Steady(h)
  BY <1>1, SteadyBefore
<1>3. NodesFollow(graph.nodes, h) /\ EdgesFollow(graph.edges, h) /\ NextFollows(graph.next, h)
  BY <1>2 DEF GraphFollows
<1>4. QED
  BY <1>3, NodesLast, EdgesLast, NextLasts

\* What an earlier generation says still holds where the new one is quiet.
LEMMA RowsLast ==
    ASSUME TypeInv, NEW b, NEW next, Grows(b, next), NEW i \in 1..Gen, Clearing' \/ ~Clearing \/ b.reset, RowsHold(i)
    PROVE  RowsHold(i)'
<1>1. SUFFICES ASSUME Steady(i)'
               PROVE  /\ \A k \in Key : SpeaksOfNode(i, k)' /\ QuietNode(k, i)' => store'.nodes[k] = LeavesNode(log'[i], k)
                      /\ \A e \in store'.edges \cup log'[i].edges :
                           SpeaksOfEdge(i, e.id)' /\ QuietEdge(e.id, i)' => (e \in store'.edges <=> e \in log'[i].edges)
                      /\ \A e \in Touching(store'.edges, log'[i].gone) : ~QuietEdge(e.id, i)'
                      /\ \A e \in log'[i].edges : \A k \in {e.from, e.to} : QuietNode(k, i)' => store'.nodes[k] # "none"
  BY DEF RowsHold
<1>2. i \in 0..Gen /\ log'[i] = log[i]
  BY StateTypes DEF Grows
<1>3. Steady(i)
  BY <1>1, <1>2, SteadyBefore
<1>4. /\ \A k : SpeaksOfNode(i, k)' <=> SpeaksOfNode(i, k)
      /\ \A d : SpeaksOfEdge(i, d)' <=> SpeaksOfEdge(i, d)
  BY <1>2 DEF SpeaksOfNode, SpeaksOfEdge
<1>5. \A k \in Key : QuietNode(k, i)' => QuietNode(k, i) /\ store'.nodes[k] = store.nodes[k]
  BY <1>2, QuietBefore, RowsWritten
<1>6. \A e : QuietEdge(e.id, i)' => QuietEdge(e.id, i) /\ (e \in store'.edges <=> e \in store.edges)
  <2>1. ASSUME NEW e, QuietEdge(e.id, i)'
        PROVE  QuietEdge(e.id, i) /\ (e \in store'.edges <=> e \in store.edges)
    <3>1. QuietEdge(e.id, i) /\ e.id \notin b.cut \cup Ids(b.edges)
      BY <1>2, <2>1, QuietBefore
    <3>2. e \notin b.edges
      BY <3>1 DEF Ids
    <3>3. QED
      BY <3>1, <3>2, RowsWritten
  <2>2. QED
    BY <2>1
<1>7. /\ \A k \in Key : SpeaksOfNode(i, k) /\ QuietNode(k, i) => store.nodes[k] = LeavesNode(log[i], k)
      /\ \A e \in store.edges \cup log[i].edges :
           SpeaksOfEdge(i, e.id) /\ QuietEdge(e.id, i) => (e \in store.edges <=> e \in log[i].edges)
      /\ \A e \in Touching(store.edges, log[i].gone) : ~QuietEdge(e.id, i)
      /\ \A e \in log[i].edges : \A k \in {e.from, e.to} : QuietNode(k, i) => store.nodes[k] # "none"
  BY <1>3 DEF RowsHold
<1>8. \A k \in Key : SpeaksOfNode(i, k)' /\ QuietNode(k, i)' => store'.nodes[k] = LeavesNode(log'[i], k)
  BY <1>2, <1>4, <1>5, <1>7
<1>9. \A e \in store'.edges \cup log'[i].edges :
        SpeaksOfEdge(i, e.id)' /\ QuietEdge(e.id, i)' => (e \in store'.edges <=> e \in log'[i].edges)
  BY <1>2, <1>4, <1>6, <1>7
<1>10. \A e \in Touching(store'.edges, log'[i].gone) : ~QuietEdge(e.id, i)'
  BY <1>2, <1>6, <1>7 DEF Touching
<1>11. \A e \in log'[i].edges : \A k \in {e.from, e.to} : QuietNode(k, i)' => store'.nodes[k] # "none"
  <2>1. \A e \in log[i].edges : e.from \in Key /\ e.to \in Key
    <3>1. log[i] \in Record
      BY StateTypes DEF Gen
    <3>2. QED
      BY <3>1 DEF Record, Edge, Key
  <2>2. QED
    BY <1>2, <1>5, <1>7, <2>1
<1>12. QED
  BY <1>8, <1>9, <1>10, <1>11

\* And the new generation says what the store then holds.
LEMMA NewRows ==
    ASSUME TypeInv, NEW b, NEW next, Grows(b, next), NEW i, i = Gen + 1, b.gone \cap DOMAIN b.nodes = {},
           store' \in Graph, Sound(store)'
    PROVE  RowsHold(i)'
<1>1. log'[i] = b /\ b \in Record
  BY DEF Grows
<1>2. /\ \A k \in Key : store'.nodes[k] = IF k \in DOMAIN b.nodes THEN b.nodes[k]
                                          ELSE IF k \in b.gone THEN "none" ELSE store.nodes[k]
      /\ \A e : e \in store'.edges <=> e \in b.edges \/ (e \in store.edges /\ e.id \notin b.cut \cup Ids(b.edges))
  BY RowsWritten
<1>3. \A e \in store'.edges : store'.nodes[e.from] # "none" /\ store'.nodes[e.to] # "none" /\ e.from \in Key /\ e.to \in Key
  BY DEF Sound, Graph, Edge, Key
<1>4. \A k \in Key : SpeaksOfNode(i, k)' => store'.nodes[k] = LeavesNode(log'[i], k)
  BY <1>1, <1>2 DEF SpeaksOfNode, LeavesNode
<1>5. \A e : SpeaksOfEdge(i, e.id)' => (e \in store'.edges <=> e \in log'[i].edges)
  BY <1>1, <1>2 DEF SpeaksOfEdge
<1>6. Touching(store'.edges, log'[i].gone) = {}
  <2>1. \A k \in b.gone : k \in Key /\ store'.nodes[k] = "none"
    BY <1>1, <1>2 DEF Record
  <2>2. QED
    BY <1>1, <1>3, <2>1 DEF Touching
<1>7. \A e \in log'[i].edges : store'.nodes[e.from] # "none" /\ store'.nodes[e.to] # "none"
  BY <1>1, <1>2, <1>3
<1>8. QED
  BY <1>4, <1>5, <1>6, <1>7 DEF RowsHold

\* Persisting what an operation did to a graph equal to the store's makes the store
\* equal to its result.
LEMMA ChangesMake ==
    ASSUME NEW before \in Graph, NEW after \in Graph, NEW s \in Graph, NEW touched,
           NEW b, Recorded(b, before, after, touched), NEW next, NEW t, t = Persist(s, b, next),
           s.nodes = before.nodes, s.edges = before.edges, Sound(before), Sound(after)
    PROVE  t.nodes = after.nodes /\ t.edges = after.edges /\ t.next = next
<1> DEFINE put == Altered(before, after, touched)
<1>1. /\ b \in Record
      /\ \A k : k \in b.gone <=> k \in put /\ after.nodes[k] = "none"
      /\ \A k : k \in DOMAIN b.nodes <=> k \in put /\ after.nodes[k] # "none"
      /\ \A k \in DOMAIN b.nodes : b.nodes[k] = after.nodes[k]
      /\ b.cut = Ids(before.edges \ after.edges) /\ b.edges = after.edges \ before.edges
  BY DEF Recorded
<1>2. t.nodes = Renode(s.nodes, b) /\ t.edges = PutEdges({e \in s.edges : e.id \notin b.cut}, b.edges) /\ t.next = next
  BY DEF Persist
<1>3. s.nodes \in [Key -> Kinds] /\ after.nodes \in [Key -> Kinds]
  BY DEF Graph
<1>4. t.nodes = after.nodes
  <2>1. t.nodes \in [Key -> Kinds]
    BY <1>1, <1>2, <1>3, RenodeTypes
  <2>2. \A k \in Key : t.nodes[k] = IF k \in DOMAIN b.nodes THEN b.nodes[k]
                                    ELSE IF k \in b.gone THEN "none" ELSE s.nodes[k]
    BY <1>1, <1>2, <1>3, RenodeTypes
  <2>3. \A k \in Key : k \in put \/ after.nodes[k] = before.nodes[k]
    BY DEF Altered
  <2> HIDE DEF put
  <2>4. \A k \in Key : t.nodes[k] = after.nodes[k]
    BY <1>1, <2>2, <2>3
  <2>5. QED
    BY <1>3, <2>1, <2>4
<1>5. t.edges = after.edges
  <2>1. \A e : e \in t.edges <=> e \in b.edges \/ (e \in s.edges /\ e.id \notin b.cut /\ e.id \notin Ids(b.edges))
    BY <1>2 DEF PutEdges
  <2>2. \A e \in before.edges \cap after.edges : e.id \notin b.cut /\ e.id \notin Ids(b.edges)
    BY <1>1 DEF Sound, Ids
  <2>3. \A e \in before.edges \ after.edges : e.id \in b.cut
    BY <1>1 DEF Ids
  <2>4. \A e : e \in t.edges <=> e \in after.edges
    BY <1>1, <2>1, <2>2, <2>3
  <2>5. QED
    BY <2>4
<1>6. QED
  BY <1>2, <1>4, <1>5

-----------------------------------------------------------------------------
(* What the processes know is kept, action by action.                       *)

StoreSame == store' = store /\ log' = log /\ (Clearing' <=> Clearing) /\ (Emptied' <=> Emptied)

\* An action that leaves the store and the log leaves what is known of them.
LEMMA Unmoved ==
    ASSUME StoreSame
    PROVE  /\ \A graph, h : GraphFollows(graph, h)' <=> GraphFollows(graph, h)
           /\ \A nodes, h : NodesFollow(nodes, h)' <=> NodesFollow(nodes, h)
           /\ \A n, h : NextFollows(n, h)' <=> NextFollows(n, h)
           /\ \A h : Steady(h)' <=> Steady(h)
           /\ StoreInv => StoreInv'
<1>1. Gen' = Gen /\ \A i : log'[i] = log[i]
  BY DEF StoreSame, Gen
<1>2. /\ \A k, h : QuietNode(k, h)' <=> QuietNode(k, h)
      /\ \A d, h : QuietEdge(d, h)' <=> QuietEdge(d, h)
      /\ \A i, k : SpeaksOfNode(i, k)' <=> SpeaksOfNode(i, k)
      /\ \A i, d : SpeaksOfEdge(i, d)' <=> SpeaksOfEdge(i, d)
  BY <1>1 DEF QuietNode, QuietEdge, SpeaksOfNode, SpeaksOfEdge
<1>3. \A h : Steady(h)' <=> Steady(h)
  BY <1>1 DEF Steady, StoreSame
<1>4. \A nodes, h : NodesFollow(nodes, h)' <=> NodesFollow(nodes, h)
  BY <1>2 DEF NodesFollow, StoreSame
<1>5. \A n, h : NextFollows(n, h)' <=> NextFollows(n, h)
  BY <1>2 DEF NextFollows, StoreSame
<1>6. \A es, h : EdgesFollow(es, h)' <=> EdgesFollow(es, h)
  BY <1>2 DEF EdgesFollow, StoreSame
<1>7. \A graph, h : GraphFollows(graph, h)' <=> GraphFollows(graph, h)
  BY <1>3, <1>4, <1>5, <1>6 DEF GraphFollows
<1>8. \A i : RowsHold(i)' <=> RowsHold(i)
  BY <1>1, <1>2, <1>3 DEF RowsHold, StoreSame, LeavesNode
<1>9. StoreInv => StoreInv'
  BY <1>1, <1>7, <1>8 DEF StoreInv, StoreSame, Sound, IdsBelow
<1>10. QED
  BY <1>3, <1>4, <1>5, <1>7, <1>9

\* It leaves what a process knows that it does not touch.
LEMMA StillKnows ==
    ASSUME StoreSame, NEW q \in Proc, Still(q), seen'[q] = seen[q], MemoryInv(q), MutationInv(q)
    PROVE  MemoryInv(q)' /\ MutationInv(q)'
<1>1. Gen' = Gen /\ log' = log
  BY DEF StoreSame, Gen
<1>2. MemoryInv(q)'
  BY <1>1, Unmoved DEF MemoryInv, Still, StoreSame, Sound, IdsBelow
<1>3. MutationInv(q)'
  BY <1>1 DEF MutationInv, Mutating, Still
<1>4. QED
  BY <1>2, <1>3

\* Nobody else mutates.
Alone(p) == \A q \in Proc \ {p} : ~Mutating(q)

\* Who mutates is alone in it.
LEMMA MutatesAlone ==
    ASSUME GraphInv, NEW p \in Proc, Mutating(p)
    PROVE  Alone(p)
  BY DEF GraphInv, Exclusive, Alone

\* So for such an action, and where no mutation joins another, only the process
\* that acts need be looked at.
LEMMA OneProcess ==
    ASSUME GraphInv, NEW p \in Proc, StoreSame, fault => fault', torn => torn',
           \A q \in Proc \ {p} : Still(q) /\ seen'[q] = seen[q],
           Mutating(p)' => Alone(p),
           Whole' => MemoryInv(p)' /\ MutationInv(p)'
    PROVE  GraphInv'
<1>1. \A q \in Proc \ {p} : Mutating(q)' <=> Mutating(q)
  BY DEF Mutating, Still
<1>2. Exclusive'
  <2>1. ASSUME NEW q \in Proc, NEW r \in Proc, Mutating(q)', Mutating(r)'
        PROVE  q = r
    <3>1. CASE q = p /\ r # p
      BY <1>1, <2>1, <3>1 DEF Alone
    <3>2. CASE r = p /\ q # p
      BY <1>1, <2>1, <3>2 DEF Alone
    <3>3. CASE q # p /\ r # p
      BY <1>1, <2>1, <3>3 DEF GraphInv, Exclusive
    <3>4. QED
      BY <3>1, <3>2, <3>3
  <2>2. QED
    BY <2>1 DEF Exclusive
<1>3. ASSUME Whole'
      PROVE  StoreInv' /\ \A q \in Proc : MemoryInv(q)' /\ MutationInv(q)'
  <2>1. StoreInv /\ \A q \in Proc : MemoryInv(q) /\ MutationInv(q)
    BY <1>3 DEF GraphInv, Whole
  <2>2. StoreInv'
    BY <2>1, Unmoved
  <2>3. \A q \in Proc \ {p} : MemoryInv(q)' /\ MutationInv(q)'
    BY <2>1, StillKnows
  <2>4. QED
    BY <1>3, <2>2, <2>3
<1>4. QED
  BY <1>2, <1>3 DEF GraphInv

\* Whether a rebuild has cleared the store depends on where the processes are.
LEMMA ClearingSame ==
    ASSUME TypeInv, NEW p \in Proc, \A q \in Proc \ {p} : pc'[q] = pc[q],
           pc'[p] = "cleared" <=> pc[p] = "cleared", pc'[p] = "clearing" <=> pc[p] = "clearing"
    PROVE  (Clearing' <=> Clearing) /\ (Emptied' <=> Emptied)
<1>1. \A q \in Proc : /\ pc'[q] = "cleared" <=> pc[q] = "cleared"
                      /\ pc'[q] = "clearing" <=> pc[q] = "clearing"
  OBVIOUS
<1>2. QED
  BY <1>1 DEF Clearing, Emptied

\* Opening a graph changes nothing that is known.
LEMMA OpenFollows ==
    ASSUME TypeInv, GraphInv, NEW p \in Proc, Open(p)
    PROVE  GraphInv'
<1>1. /\ pc[p] = "closed" /\ pc'[p] = "meta" /\ op'[p].kind = "open"
      /\ UNCHANGED <<store, log, mem, seen, fault, torn>>
      /\ \A q \in Proc \ {p} : Still(q)
  BY StateTypes DEF Open, Still
<1>2. StoreSame
  BY <1>1, ClearingSame DEF StoreSame, Still
<1>3. ~Mutating(p)'
  BY <1>1 DEF Mutating
<1>4. ASSUME Whole'
      PROVE  MemoryInv(p)' /\ MutationInv(p)'
  <2>1. GraphFollows(mem[p], seen[p])
    BY <1>1, <1>4 DEF Whole, GraphInv, MemoryInv
  <2>2. GraphFollows(mem[p], seen[p])'
    BY <1>1, <1>2, <2>1, Unmoved
  <2>3. QED
    BY <1>1, <1>3, <2>2 DEF MemoryInv, MutationInv
<1>5. QED
  BY <1>1, <1>2, <1>3, <1>4, OneProcess

\* A load that fails for a mutation is a fault; for an open or a query nothing changes.
LEMMA FailedLoadFollows ==
    ASSUME TypeInv, GraphInv, NEW p \in Proc, LoadFails(p), UNCHANGED <<store, log, scan, torn>>, pc[p] \in {"meta", "edges"}
    PROVE  GraphInv'
<1>1. /\ pc'[p] = "idle" /\ op'[p].kind = "none" /\ (fault => fault')
      /\ UNCHANGED <<store, log, mem, seen, torn>>
      /\ \A q \in Proc \ {p} : Still(q)
  BY StateTypes DEF LoadFails, NoOp, Still
<1>2. StoreSame
  BY <1>1, ClearingSame DEF StoreSame, Still
<1>3. ~Mutating(p)'
  BY <1>1 DEF Mutating
<1>4. ASSUME Whole'
      PROVE  MemoryInv(p)' /\ MutationInv(p)'
  <2>1. GraphFollows(mem[p], seen[p])
    BY <1>1, <1>4 DEF Whole, GraphInv, MemoryInv
  <2>2. GraphFollows(mem[p], seen[p])'
    BY <1>1, <1>2, <2>1, Unmoved
  <2>3. QED
    BY <1>1, <1>3, <2>2 DEF MemoryInv, MutationInv
<1>5. QED
  BY <1>1, <1>2, <1>3, <1>4, OneProcess

\* A load that begins knows nothing yet.
LEMMA ReadNextIdFollows ==
    ASSUME TypeInv, GraphInv, NEW p \in Proc, ReadNextId(p)
    PROVE  GraphInv'
<1>1. CASE Gen = 0
  BY <1>1, FailedLoadFollows DEF ReadNextId
<1>2. CASE Gen # 0
  <2>1. /\ pc[p] = "meta" /\ pc'[p] = "generation"
        /\ UNCHANGED <<store, log, mem, seen, op, fault, torn>>
        /\ \A q \in Proc \ {p} : Still(q)
    BY <1>2, StateTypes DEF ReadNextId, Still
  <2>2. StoreSame /\ Gen' = Gen
    BY <2>1, ClearingSame DEF StoreSame, Still, Gen
  <2>3. Mutating(p)' <=> Mutating(p)
    BY <2>1 DEF Mutating
  <2>4. ASSUME Whole'
        PROVE  MemoryInv(p)' /\ MutationInv(p)'
    <3>1. GraphFollows(mem[p], seen[p])
      BY <2>1, <2>4 DEF Whole, GraphInv, MemoryInv
    <3>2. GraphFollows(mem[p], seen[p])'
      BY <2>1, <2>2, <3>1, Unmoved
    <3>3. QED
      BY <2>1, <3>2 DEF MemoryInv, MutationInv
  <2>5. QED
    BY <2>1, <2>2, <2>3, <2>4, OneProcess, MutatesAlone
<1>3. QED
  BY <1>1, <1>2

\* The metadata is read before the rows it describes, so it is never ahead of them;
\* unless the reads are torn, no edge has an id that is yet to be handed out.
LEMMA ReadGenerationFollows ==
    ASSUME TypeInv, GraphInv, NEW p \in Proc, ReadGeneration(p)
    PROVE  GraphInv'
<1>1. /\ pc[p] = "generation" /\ pc'[p] = "nodes" /\ buf'[p].gen = Gen /\ buf'[p].next = buf[p].next
      /\ torn' = (torn \/ \E e \in store.edges : e.id >= buf[p].next)
      /\ UNCHANGED <<store, log, mem, seen, op, fault>>
      /\ \A q \in Proc \ {p} : Still(q)
  BY StateTypes DEF ReadGeneration, Still
<1>2. StoreSame /\ Gen' = Gen
  BY <1>1, ClearingSame DEF StoreSame, Still, Gen
<1>3. Mutating(p)' <=> Mutating(p)
  BY <1>1 DEF Mutating
<1>4. ASSUME Whole'
      PROVE  MemoryInv(p)' /\ MutationInv(p)'
  <2>1. GraphFollows(mem[p], seen[p])
    BY <1>1, <1>4 DEF Whole, GraphInv, MemoryInv
  <2>2. GraphFollows(mem[p], seen[p])'
    BY <1>1, <1>2, <2>1, Unmoved
  <2>3. \A e \in store.edges : e.id < buf[p].next
    <3>1. \A e \in store.edges : ~(e.id >= buf[p].next)
      BY <1>1, <1>4 DEF Whole
    <3>2. buf[p].next \in Nat /\ \A e \in store.edges : e.id \in Nat
      BY <1>1, StateTypes DEF PhaseOk, Graph, Edge
    <3>3. QED
      BY <3>1, <3>2
  <2>4. \A h : NextFollows(buf[p].next, h)
    BY <2>3 DEF NextFollows
  <2>5. NextFollows(buf[p].next, buf[p].gen)'
    BY <1>1, <1>2, <2>4, Unmoved
  <2>6. QED
    BY <1>1, <1>2, <1>3, <2>2, <2>5 DEF MemoryInv, MutationInv
<1>5. QED
  BY <1>1, <1>2, <1>3, <1>4, OneProcess, MutatesAlone

\* The nodes are read at its generation, or later.
LEMMA ReadNodesFollows ==
    ASSUME TypeInv, GraphInv, NEW p \in Proc, ReadNodes(p)
    PROVE  GraphInv'
<1>1. /\ pc[p] = "nodes" /\ pc'[p] = "edges"
      /\ buf'[p].gen = buf[p].gen /\ buf'[p].next = buf[p].next /\ buf'[p].nodes = store.nodes
      /\ UNCHANGED <<store, log, mem, seen, op, fault, torn>>
      /\ \A q \in Proc \ {p} : Still(q)
  BY StateTypes DEF ReadNodes, Still
<1>2. StoreSame /\ Gen' = Gen
  BY <1>1, ClearingSame DEF StoreSame, Still, Gen
<1>3. Mutating(p)' <=> Mutating(p)
  BY <1>1 DEF Mutating
<1>4. ASSUME Whole'
      PROVE  MemoryInv(p)' /\ MutationInv(p)'
  <2>1. GraphFollows(mem[p], seen[p]) /\ (Steady(buf[p].gen) => NextFollows(buf[p].next, buf[p].gen))
    BY <1>1, <1>4 DEF Whole, GraphInv, MemoryInv
  <2>2. GraphFollows(mem[p], seen[p])'
    BY <1>1, <1>2, <2>1, Unmoved
  <2>3. Steady(buf[p].gen)' => NextFollows(buf[p].next, buf[p].gen)'
    BY <1>1, <1>2, <2>1, Unmoved
  <2>4. \A h : NodesFollow(store.nodes, h)
    BY DEF NodesFollow
  <2>5. NodesFollow(buf[p].nodes, buf[p].gen)'
    BY <1>1, <1>2, <2>4, Unmoved
  <2>6. Mutating(p) => buf[p].gen = Gen
    BY <1>1, <1>4 DEF Whole, GraphInv, MutationInv
  <2>7. QED
    BY <1>1, <1>2, <1>3, <2>2, <2>3, <2>5, <2>6 DEF MemoryInv, MutationInv
<1>5. QED
  BY <1>1, <1>2, <1>3, <1>4, OneProcess, MutatesAlone

\* So are the edges: a graph torn between the two follows the generation it was read at.
LEMMA ReadEdgesFollows ==
    ASSUME TypeInv, GraphInv, NEW p \in Proc, ReadEdges(p)
    PROVE  GraphInv'
<1>1. CASE Dangling(buf[p].nodes, store.edges)
  BY <1>1, FailedLoadFollows DEF ReadEdges
<1>2. CASE ~Dangling(buf[p].nodes, store.edges)
  <2>1. /\ pc[p] = "edges" /\ AfterCatchUp(p) /\ seen'[p] = buf[p].gen
        /\ mem'[p] = [nodes |-> buf[p].nodes, edges |-> store.edges, next |-> buf[p].next]
        /\ UNCHANGED <<store, log, scan, fault, torn>>
        /\ \A q \in Proc \ {p} : mem'[q] = mem[q] /\ seen'[q] = seen[q]
    BY <1>2, StateTypes DEF ReadEdges
  <2>2. op[p].kind # "rebuild"
    BY <2>1, StateTypes DEF PhaseOk
  <2>3. /\ \A q \in Proc \ {p} : pc'[q] = pc[q] /\ op'[q] = op[q] /\ buf'[q] = buf[q]
        /\ \/ pc'[p] = "acting" /\ op'[p] = op[p] /\ op[p].kind \in {"upsert", "remove"}
           \/ pc'[p] = "idle" /\ op'[p] = NoOp
    BY <2>1, <2>2, Resuming
  <2>4. \A q \in Proc \ {p} : Still(q)
    BY <2>1, <2>3 DEF Still
  <2>5. StoreSame /\ Gen' = Gen
    BY <2>1, <2>3, ClearingSame DEF StoreSame, Gen
  <2>6. Mutating(p)' => Mutating(p)
    BY <2>3 DEF Mutating, NoOp
  <2>7. ASSUME Whole'
        PROVE  MemoryInv(p)' /\ MutationInv(p)'
    <3>1. Steady(buf[p].gen) => NextFollows(buf[p].next, buf[p].gen) /\ NodesFollow(buf[p].nodes, buf[p].gen)
      BY <2>1, <2>7 DEF Whole, GraphInv, MemoryInv
    <3>2. \A h : EdgesFollow(store.edges, h)
      BY DEF EdgesFollow
    <3>3. \A m : m.nodes = buf[p].nodes /\ m.edges = store.edges /\ m.next = buf[p].next => GraphFollows(m, buf[p].gen)
      BY <3>1, <3>2 DEF GraphFollows
    <3>4. GraphFollows(mem'[p], seen'[p])
      BY <2>1, <3>3
    <3>5. GraphFollows(mem[p], seen[p])'
      BY <2>5, <3>4, Unmoved
    <3>6. Mutating(p) => buf[p].gen = Gen
      BY <2>1, <2>7 DEF Whole, GraphInv, MutationInv
    <3>7. QED
      BY <2>1, <2>3, <2>5, <2>6, <3>5, <3>6 DEF MemoryInv, MutationInv
  <2>8. QED
    BY <2>1, <2>4, <2>5, <2>6, <2>7, OneProcess, MutatesAlone
<1>3. QED
  BY <1>1, <1>2

\* A query keeps what it knows until it has read more.
LEMMA QueryFollows ==
    ASSUME TypeInv, GraphInv, NEW p \in Proc, Query(p)
    PROVE  GraphInv'
<1>1. /\ pc[p] = "idle" /\ Enter(p) /\ op'[p].kind = "query"
      /\ UNCHANGED <<store, log, mem, seen, buf, scan, fault, torn>>
      /\ \A q \in Proc \ {p} : op'[q] = op[q]
  BY StateTypes DEF Query
<1>2. /\ \A q \in Proc \ {p} : pc'[q] = pc[q]
      /\ pc'[p] \in {"acting", "log"}
  BY <1>1, Entering
<1>3. \A q \in Proc \ {p} : Still(q)
  BY <1>1, <1>2 DEF Still
<1>4. StoreSame
  BY <1>1, <1>2, ClearingSame DEF StoreSame
<1>5. ~Mutating(p)'
  BY <1>1 DEF Mutating
<1>6. ASSUME Whole'
      PROVE  MemoryInv(p)' /\ MutationInv(p)'
  <2>1. GraphFollows(mem[p], seen[p])
    BY <1>1, <1>6 DEF Whole, GraphInv, MemoryInv
  <2>2. GraphFollows(mem[p], seen[p])'
    BY <1>1, <1>4, <2>1, Unmoved
  <2>3. QED
    BY <1>2, <1>5, <2>2 DEF MemoryInv, MutationInv
<1>7. QED
  BY <1>1, <1>3, <1>4, <1>5, <1>6, OneProcess

\* A mutation starts alone, and up to date or about to be.
LEMMA MutateFollows ==
    ASSUME Serial, TypeInv, GraphInv, NEW p \in Proc, NEW n \in Note, NEW links \in LinkLists \cup {Absent},
           Mutate(p, n, links)
    PROVE  GraphInv'
<1>1. /\ pc[p] = "idle" /\ Enter(p) /\ Alone(p)
      /\ UNCHANGED <<store, log, mem, seen, buf, scan, fault, torn>>
      /\ \A q \in Proc \ {p} : op'[q] = op[q]
  BY StateTypes DEF Mutate, MayMutate, Alone
<1>2. /\ \A q \in Proc \ {p} : pc'[q] = pc[q]
      /\ \/ pc'[p] = "acting" /\ Gen <= seen[p]
         \/ pc'[p] = "log"
      /\ Gen' = Gen
  BY <1>1, Entering
<1>3. \A q \in Proc \ {p} : Still(q)
  BY <1>1, <1>2 DEF Still
<1>4. StoreSame
  BY <1>1, <1>2, ClearingSame DEF StoreSame
<1>5. ASSUME Whole'
      PROVE  MemoryInv(p)' /\ MutationInv(p)'
  <2>1. GraphFollows(mem[p], seen[p])
    BY <1>1, <1>5 DEF Whole, GraphInv, MemoryInv
  <2>2. GraphFollows(mem[p], seen[p])'
    BY <1>1, <1>4, <2>1, Unmoved
  <2>3. pc'[p] = "acting" => seen'[p] = Gen'
    BY <1>1, <1>2, StateTypes
  <2>4. QED
    BY <1>2, <2>2, <2>3 DEF MemoryInv, MutationInv
<1>6. QED
  BY <1>1, <1>3, <1>4, <1>5, OneProcess

\* The notes below a directory are in no graph.
LEMMA WithDirectoryFollows ==
    ASSUME TypeInv, GraphInv, NEW p \in Proc, NEW v, WithDirectory(p, v)
    PROVE  GraphInv'
<1>1. /\ UNCHANGED <<store, log, mem, seen, pc, op, buf, scan, fault, torn>>
      /\ \A q \in Proc : Still(q)
  BY DEF WithDirectory, Still
<1>2. StoreSame
  BY <1>1 DEF StoreSame, Clearing, Emptied
<1>3. Mutating(p)' <=> Mutating(p)
  BY <1>1 DEF Mutating
<1>4. ASSUME Whole'
      PROVE  MemoryInv(p)' /\ MutationInv(p)'
  <2>1. MemoryInv(p) /\ MutationInv(p)
    BY <1>1, <1>4 DEF Whole, GraphInv
  <2>2. QED
    BY <1>1, <1>2, <2>1, StillKnows
<1>5. QED
  BY <1>1, <1>2, <1>3, <1>4, OneProcess, MutatesAlone

\* No reset lies between what the process has seen and the generation it found.
LEMMA CheckLogFollows ==
    ASSUME TypeInv, GraphInv, NEW p \in Proc, CheckLog(p)
    PROVE  GraphInv'
<1>1. /\ pc[p] = "log" /\ UNCHANGED <<store, log, mem, seen, op, scan, fault, torn>>
      /\ \/ pc'[p] = "meta"
         \/ ~ResetIn(seen[p] + 1 .. Gen) /\ pc'[p] = "rows" /\ buf'[p].gen = Gen
      /\ \A q \in Proc \ {p} : Still(q)
  BY StateTypes DEF CheckLog, Still
<1>2. StoreSame /\ Gen' = Gen
  BY <1>1, ClearingSame DEF StoreSame, Still, Gen
<1>3. Mutating(p)' <=> Mutating(p)
  BY <1>1 DEF Mutating
<1>4. ASSUME Whole'
      PROVE  MemoryInv(p)' /\ MutationInv(p)'
  <2>1. GraphFollows(mem[p], seen[p])
    BY <1>1, <1>4 DEF Whole, GraphInv, MemoryInv
  <2>2. GraphFollows(mem[p], seen[p])'
    BY <1>1, <1>2, <2>1, Unmoved
  <2>3. CASE pc'[p] = "meta"
    BY <2>2, <2>3 DEF MemoryInv, MutationInv
  <2>4. CASE ~ResetIn(seen[p] + 1 .. Gen) /\ pc'[p] = "rows" /\ buf'[p].gen = Gen
    <3>1. \A i \in seen'[p] + 1..buf'[p].gen : ~log'[i].reset
      BY <1>1, <2>4 DEF ResetIn
    <3>2. QED
      BY <1>2, <2>2, <2>4, <3>1 DEF MemoryInv, MutationInv
  <2>5. QED
    BY <1>1, <2>3, <2>4
<1>5. QED
  BY <1>1, <1>2, <1>3, <1>4, OneProcess, MutatesAlone

\* The rows read reach back to what the process has seen, unless the log was pruned.
LEMMA ReadRowsFollows ==
    ASSUME TypeInv, GraphInv, NEW p \in Proc, ReadRows(p)
    PROVE  GraphInv'
<1>1. /\ pc[p] = "rows" /\ pc'[p] = "applying"
      /\ buf'[p].gen = buf[p].gen /\ buf'[p].at = KeptFrom(p)
      /\ torn' = (torn \/ KeptFrom(p) # seen[p])
      /\ UNCHANGED <<store, log, mem, seen, op, scan, fault>>
      /\ \A q \in Proc \ {p} : Still(q)
  BY StateTypes DEF ReadRows, KeptFrom, Still
<1>2. StoreSame /\ Gen' = Gen
  BY <1>1, ClearingSame DEF StoreSame, Still, Gen
<1>3. Mutating(p)' <=> Mutating(p)
  BY <1>1 DEF Mutating
<1>4. ASSUME Whole'
      PROVE  MemoryInv(p)' /\ MutationInv(p)'
  <2>1. /\ GraphFollows(mem[p], seen[p]) /\ (Mutating(p) => buf[p].gen = Gen)
        /\ \A i \in seen[p] + 1..buf[p].gen : ~log[i].reset
    BY <1>1, <1>4 DEF Whole, GraphInv, MemoryInv, MutationInv
  <2>2. buf'[p].at = seen[p]
    BY <1>1, <1>4 DEF Whole
  <2>3. GraphFollows(mem[p], buf[p].at)'
    BY <1>1, <1>2, <2>1, <2>2, Unmoved
  <2>4. \A i \in buf'[p].at + 1..buf'[p].gen : ~log'[i].reset
    BY <1>1, <2>1, <2>2
  <2>5. QED
    BY <1>1, <1>2, <1>3, <2>1, <2>3, <2>4 DEF MemoryInv, MutationInv
<1>5. QED
  BY <1>1, <1>2, <1>3, <1>4, OneProcess, MutatesAlone

\* Each generation applied brings the memory up to it.
LEMMA ApplyRowsFollows ==
    ASSUME TypeInv, GraphInv, NEW p \in Proc, ApplyRows(p)
    PROVE  GraphInv'
<1>1. /\ pc[p] = "applying" /\ buf[p].at < buf[p].to
      /\ mem'[p] = ApplyExternal(mem[p], log[buf[p].at + 1])
      /\ buf'[p].gen = buf[p].gen /\ buf'[p].at = buf[p].at + 1 /\ buf'[p].to = buf[p].to
      /\ UNCHANGED <<store, log, seen, pc, op, scan, fault, torn>>
      /\ \A q \in Proc \ {p} : Still(q)
  BY StateTypes DEF ApplyRows, Still
<1>2. StoreSame /\ Gen' = Gen
  BY <1>1, ClearingSame DEF StoreSame, Gen
<1>3. Mutating(p)' <=> Mutating(p)
  BY <1>1 DEF Mutating
<1>4. Gen \in Nat /\ buf[p].gen \in 0..Gen /\ buf[p].at \in 0..buf[p].to /\ buf[p].to \in buf[p].gen..Gen
  BY <1>1, StateTypes DEF PhaseOk
<1>5. ASSUME Whole'
      PROVE  MemoryInv(p)' /\ MutationInv(p)'
  <2>1. /\ Steady(buf[p].gen) => GraphFollows(mem[p], buf[p].at)
        /\ \A i \in buf[p].at + 1..buf[p].gen : ~log[i].reset
        /\ Mutating(p) => buf[p].gen = Gen
    BY <1>1, <1>5 DEF Whole, GraphInv, MemoryInv, MutationInv
  <2>2. PICK i \in 1..Gen : i = buf[p].at + 1
    BY <1>1, <1>4
  <2>3. RowsHold(i)
    BY <1>1, <1>5 DEF Whole, GraphInv, StoreInv
  <2>4. Steady(buf[p].gen)' => GraphFollows(mem[p], buf[p].at)'
    <3>1. SUFFICES ASSUME Steady(buf[p].gen)
                   PROVE  GraphFollows(ApplyExternal(mem[p], log[i]), i)
      BY <1>1, <1>2, <2>2, Unmoved
    <3>2. i - 1 = buf[p].at /\ GraphFollows(mem[p], buf[p].at)
      BY <1>4, <2>1, <2>2, <3>1
    <3>3. GraphFollows(mem[p], i - 1)
      BY <3>2
    <3>4. ~log[i].reset
      <4>1. i \in buf[p].at + 1..buf[p].gen \/ i \in buf[p].gen + 1..Gen
        BY <1>4, <2>2
      <4>2. QED
        BY <2>1, <3>1, <4>1 DEF Steady
    <3>5. QED
      BY <2>3, <3>3, <3>4, AppliedFollows, StateTypes
  <2>5. \A j \in buf'[p].at + 1..buf'[p].gen : ~log'[j].reset
    <3>1. \A j \in buf[p].at + 1 + 1..buf[p].gen : j \in buf[p].at + 1..buf[p].gen
      BY <1>4
    <3>2. QED
      BY <1>1, <2>1, <3>1
  <2>6. QED
    BY <1>1, <1>2, <1>3, <2>1, <2>4, <2>5 DEF MemoryInv, MutationInv
<1>6. QED
  BY <1>1, <1>2, <1>3, <1>5, OneProcess, MutatesAlone

\* The memory is at least at the generation it reports.
LEMMA RowsAppliedFollows ==
    ASSUME TypeInv, GraphInv, NEW p \in Proc, RowsApplied(p)
    PROVE  GraphInv'
<1>1. /\ pc[p] = "applying" /\ buf[p].at = buf[p].to /\ seen'[p] = buf[p].gen /\ AfterCatchUp(p)
      /\ UNCHANGED <<store, log, mem, scan, fault, torn>>
      /\ \A q \in Proc \ {p} : seen'[q] = seen[q]
  BY StateTypes DEF RowsApplied
<1>2. /\ Gen \in Nat /\ buf[p].gen \in 0..Gen /\ buf[p].to \in buf[p].gen..Gen
      /\ op[p].kind # "rebuild"
  BY <1>1, StateTypes DEF PhaseOk
<1>3. /\ \A q \in Proc \ {p} : pc'[q] = pc[q] /\ op'[q] = op[q] /\ buf'[q] = buf[q]
      /\ \/ pc'[p] = "acting" /\ op'[p] = op[p] /\ op[p].kind \in {"upsert", "remove"}
         \/ pc'[p] = "idle" /\ op'[p] = NoOp
  BY <1>1, <1>2, Resuming
<1>4. \A q \in Proc \ {p} : Still(q)
  BY <1>1, <1>3 DEF Still
<1>5. StoreSame /\ Gen' = Gen
  BY <1>1, <1>3, ClearingSame DEF StoreSame, Gen
<1>6. Mutating(p)' => Mutating(p)
  BY <1>3 DEF Mutating, NoOp
<1>7. ASSUME Whole'
      PROVE  MemoryInv(p)' /\ MutationInv(p)'
  <2>1. (Steady(buf[p].gen) => GraphFollows(mem[p], buf[p].to)) /\ (Mutating(p) => buf[p].gen = Gen)
    BY <1>1, <1>7 DEF Whole, GraphInv, MemoryInv, MutationInv
  <2>2. buf[p].gen \in Nat /\ buf[p].to \in Nat /\ buf[p].gen <= buf[p].to
    BY <1>2
  <2>3. GraphFollows(mem[p], buf[p].gen)
    <3>1. CASE Steady(buf[p].gen)
      BY <1>2, <2>1, <2>2, <3>1, FollowsEarlier
    <3>2. CASE ~Steady(buf[p].gen)
      BY <3>2 DEF GraphFollows
    <3>3. QED
      BY <3>1, <3>2
  <2>4. GraphFollows(mem[p], seen[p])'
    BY <1>1, <1>5, <2>3, Unmoved
  <2>5. QED
    BY <1>1, <1>3, <1>5, <1>6, <2>1, <2>4 DEF MemoryInv, MutationInv
<1>8. QED
  BY <1>1, <1>4, <1>5, <1>6, <1>7, OneProcess, MutatesAlone

\* A process that has persisted has the store in memory.
LEMMA RecordGenerationFollows ==
    ASSUME TypeInv, GraphInv, NEW p \in Proc, RecordGeneration(p)
    PROVE  GraphInv'
<1>1. /\ pc[p] = "persisted" /\ pc'[p] = "idle" /\ op'[p].kind = "none" /\ seen'[p] = Gen
      /\ UNCHANGED <<store, log, mem, buf, scan, fault, torn>>
      /\ \A q \in Proc \ {p} : Still(q) /\ seen'[q] = seen[q]
  BY StateTypes DEF RecordGeneration, Written, NoOp, Still
<1>2. StoreSame /\ Gen' = Gen
  BY <1>1, ClearingSame DEF StoreSame, Still, Gen
<1>3. ~Mutating(p)'
  BY <1>1 DEF Mutating
<1>4. ASSUME Whole'
      PROVE  MemoryInv(p)' /\ MutationInv(p)'
  <2>1. mem[p].nodes = store.nodes /\ mem[p].edges = store.edges /\ mem[p].next = store.next /\ (~Clearing => Sound(store))
    BY <1>1, <1>4 DEF Whole, GraphInv, MemoryInv, StoreInv
  <2>2. ~Clearing => \A h : NodesFollow(mem[p].nodes, h) /\ EdgesFollow(mem[p].edges, h) /\ NextFollows(mem[p].next, h)
    BY <2>1 DEF NodesFollow, EdgesFollow, NextFollows, Sound, IdsBelow
  <2>3. \A h : GraphFollows(mem[p], h)
    BY <2>2 DEF GraphFollows, Steady
  <2>4. GraphFollows(mem[p], seen[p])'
    BY <1>1, <1>2, <2>3, Unmoved
  <2>5. QED
    BY <1>1, <1>3, <2>4 DEF MemoryInv, MutationInv
<1>5. QED
  BY <1>1, <1>2, <1>3, <1>4, OneProcess

\* A walk of the vault touches no graph.
LEMMA CollectNotesFollows ==
    ASSUME TypeInv, GraphInv, NEW p \in Proc, CollectNotes(p)
    PROVE  GraphInv'
<1>1. /\ op[p].kind # "rebuild" /\ UNCHANGED <<store, log, mem, seen, pc, op, buf, fault, torn>>
      /\ \A q \in Proc \ {p} : Still(q)
  BY StateTypes DEF CollectNotes, Still
<1>2. StoreSame /\ Gen' = Gen
  BY <1>1, ClearingSame DEF StoreSame, Gen
<1>3. Mutating(p)' <=> Mutating(p)
  BY <1>1 DEF Mutating
<1>4. ASSUME Whole'
      PROVE  MemoryInv(p)' /\ MutationInv(p)'
  <2>1. MemoryInv(p) /\ MutationInv(p)
    BY <1>1, <1>4 DEF GraphInv, Whole
  <2>2. MemoryInv(p)'
    BY <1>1, <1>2, <2>1, Unmoved DEF MemoryInv, StoreSame, Sound, IdsBelow
  <2>3. MutationInv(p)'
    BY <1>1, <1>2, <2>1 DEF MutationInv, Mutating
  <2>4. QED
    BY <2>2, <2>3
<1>5. QED
  BY <1>1, <1>2, <1>3, <1>4, OneProcess, MutatesAlone

\* Wiring keeps a rebuilt graph sound.
LEMMA RebuildWiresFollows ==
    ASSUME TypeInv, GraphInv, NEW p \in Proc, RebuildWires(p)
    PROVE  GraphInv'
<1>1. PICK n \in buf[p].left : \E ks \in Resolutions(mem[p].nodes, scan[p][n]) :
        /\ mem' = [mem EXCEPT ![p] = Wired(mem[p], n, ks)]
        /\ buf' = [buf EXCEPT ![p] = [left |-> buf[p].left \ {n}]]
  BY StateTypes DEF RebuildWires
<1>2. PICK ks \in Resolutions(mem[p].nodes, scan[p][n]) :
        /\ mem' = [mem EXCEPT ![p] = Wired(mem[p], n, ks)]
        /\ buf' = [buf EXCEPT ![p] = [left |-> buf[p].left \ {n}]]
  BY <1>1
<1>3. /\ pc[p] = "cleared" /\ UNCHANGED <<store, log, seen, pc, op, scan, fault, torn>>
      /\ mem'[p] = Wired(mem[p], n, ks) /\ buf'[p].left = buf[p].left \ {n}
      /\ \A q \in Proc \ {p} : Still(q)
  BY <1>2, StateTypes DEF RebuildWires, Still
<1>4. scan[p] \in Notes /\ buf[p].left \subseteq Present(scan[p]) /\ mem[p] \in Graph
  BY <1>3, StateTypes DEF PhaseOk
<1>5. n \in Note /\ scan[p][n] \in LinkLists /\ buf[p].left \subseteq Note
  BY <1>4 DEF Notes, Present
<1>6. WiredTo(mem[p], n, scan[p][n], ks, mem'[p])
  BY <1>3, <1>4, <1>5, WiredIs
<1>7. StoreSame /\ Gen' = Gen
  BY <1>3, ClearingSame DEF StoreSame, Gen
<1>8. Mutating(p)' <=> Mutating(p)
  BY <1>3 DEF Mutating
<1>9. ASSUME Whole'
      PROVE  MemoryInv(p)' /\ MutationInv(p)'
  <2>1. Sound(mem[p]) /\ \A j \in buf[p].left : mem[p].nodes[j] = "real"
    BY <1>3, <1>9 DEF Whole, GraphInv, MemoryInv
  <2>2. Sound(mem'[p])
    BY <1>4, <1>5, <1>6, <2>1, WiredSound
  <2>3. RealNotes(mem'[p]) = RealNotes(mem[p])
    BY <1>4, <1>5, <1>6, WiredReal
  <2>4. \A j \in buf'[p].left : mem'[p].nodes[j] = "real"
    BY <1>3, <1>5, <2>1, <2>3 DEF RealNotes
  <2>5. QED
    BY <1>3, <2>2, <2>4 DEF MemoryInv, MutationInv, Sound, IdsBelow
<1>10. QED
  BY <1>3, <1>7, <1>8, <1>9, OneProcess, MutatesAlone

\* A process that stops amid a mutation is a fault.
LEMMA StopFollows ==
    ASSUME TypeInv, GraphInv, NEW p \in Proc, Stop(p)
    PROVE  GraphInv'
<1>1. /\ pc'[p] = "closed" /\ op'[p].kind = "none" /\ mem'[p] = NoGraph /\ seen'[p] = 0
      /\ fault' = (fault \/ (Mutating(p) /\ pc[p] # "persisted"))
      /\ UNCHANGED <<store, log, torn>>
      /\ \A q \in Proc \ {p} : Still(q) /\ seen'[q] = seen[q]
  BY StateTypes DEF Stop, NoOp, Still
<1>2. CASE ~Whole'
  <2>1. \A q \in Proc : Mutating(q)' => Mutating(q)
    BY <1>1 DEF Mutating, Still
  <2>2. Exclusive'
    BY <2>1 DEF Whole, GraphInv, Exclusive
  <2>3. QED
    BY <1>2, <2>2 DEF GraphInv
<1>3. CASE Whole'
  <2>1. pc[p] \notin {"clearing", "cleared"}
    BY <1>1, <1>3, StateTypes DEF PhaseOk, Mutating, Whole
  <2>2. StoreSame
    BY <1>1, <2>1, ClearingSame DEF StoreSame, Still
  <2>3. ~Mutating(p)'
    BY <1>1 DEF Mutating
  <2>4. GraphFollows(NoGraph, 0)
    BY <1>1, <1>3 DEF Whole, GraphInv, StoreInv
  <2>5. GraphFollows(mem[p], seen[p])'
    BY <1>1, <2>2, <2>4, Unmoved
  <2>6. MemoryInv(p)' /\ MutationInv(p)'
    BY <1>1, <2>3, <2>5 DEF MemoryInv, MutationInv
  <2>7. QED
    BY <1>1, <2>2, <2>3, <2>6, OneProcess
<1>4. QED
  BY <1>2, <1>3

\* No mutation joins another.
LEMMA ExclusiveKept ==
    ASSUME GraphInv, NEW p \in Proc, \A q \in Proc \ {p} : op'[q] = op[q], Mutating(p)' => Alone(p)
    PROVE  Exclusive'
<1>1. \A q \in Proc \ {p} : Mutating(q)' <=> Mutating(q)
  BY DEF Mutating
<1>2. ASSUME NEW q \in Proc, NEW r \in Proc, Mutating(q)', Mutating(r)'
      PROVE  q = r
  <2>1. CASE q = p /\ r # p
    BY <1>1, <1>2, <2>1 DEF Alone
  <2>2. CASE r = p /\ q # p
    BY <1>1, <1>2, <2>2 DEF Alone
  <2>3. CASE q # p /\ r # p
    BY <1>1, <1>2, <2>3 DEF GraphInv, Exclusive
  <2>4. QED
    BY <2>1, <2>2, <2>3
<1>3. QED
  BY <1>2 DEF Exclusive

\* Nothing is known of a store that a rebuild has cleared.
LEMMA ClearedKnows ==
    ASSUME Clearing'
    PROVE  /\ \A h : ~Steady(h)'
           /\ \A graph, h : GraphFollows(graph, h)'
           /\ \A i : RowsHold(i)'
<1>1. \A h : ~Steady(h)'
  BY DEF Steady
<1>2. QED
  BY <1>1 DEF GraphFollows, RowsHold

\* While the store is cleared nothing is known of it, by the others either.
LEMMA ClearingKnows ==
    ASSUME TypeInv, Clearing', log' = log, NEW q \in Proc, Still(q), seen'[q] = seen[q], ~Mutating(q), MemoryInv(q)
    PROVE  MemoryInv(q)' /\ MutationInv(q)'
<1>1. pc[q] \notin {"clearing", "cleared", "persisted"}
  BY StateTypes DEF PhaseOk, Mutating
<1>2. MemoryInv(q)'
  BY <1>1, ClearedKnows DEF MemoryInv, Still
<1>3. MutationInv(q)'
  BY DEF MutationInv, Mutating, Still
<1>4. QED
  BY <1>2, <1>3

\* The nodes are cleared,
LEMMA RebuildClearsFollows ==
    ASSUME Serial, TypeInv, GraphInv, NEW p \in Proc, RebuildClears(p)
    PROVE  GraphInv'
<1>1. pc[p] = "idle" /\ Alone(p) /\ UNCHANGED <<log, seen, buf, torn>>
  BY DEF RebuildClears, MayMutate, Alone
<1>2. CASE /\ store' = [store EXCEPT !.nodes = NoGraph.nodes]
           /\ pc' = [pc EXCEPT ![p] = "clearing"]
           /\ op' = [op EXCEPT ![p] = [kind |-> "rebuild"]]
           /\ UNCHANGED <<scan, fault, fails>>
  <2>1. /\ pc'[p] = "clearing" /\ \A q \in Proc \ {p} : Still(q)
    BY <1>1, <1>2, StateTypes DEF Still, RebuildClears
  <2>2. Clearing' /\ ~Emptied'
    <3>1. \A q \in Proc \ {p} : pc[q] # "cleared"
      BY <1>1, StateTypes DEF PhaseOk, Mutating, Alone
    <3>2. QED
      BY <2>1, <3>1 DEF Clearing, Emptied, Still
  <2>3. Exclusive'
    BY <1>1, <2>1, ExclusiveKept DEF Still
  <2>4. StoreInv'
    BY <2>2, ClearedKnows DEF StoreInv
  <2>5. ASSUME Whole', NEW q \in Proc \ {p}
        PROVE  MemoryInv(q)' /\ MutationInv(q)'
    <3>1. MemoryInv(q) /\ Still(q) /\ ~Mutating(q)
      BY <1>1, <1>2, <2>1, <2>5 DEF Whole, GraphInv, Alone
    <3>2. QED
      BY <1>1, <2>2, <3>1, ClearingKnows
  <2>6. MemoryInv(p)' /\ MutationInv(p)'
    <3>1. store'.nodes = NoGraph.nodes
      BY <1>2, StateTypes DEF Graph
    <3>2. QED
      BY <2>1, <3>1 DEF MemoryInv, MutationInv
  <2>7. QED
    BY <2>3, <2>4, <2>5, <2>6 DEF GraphInv
<1>3. CASE fault' = TRUE /\ UNCHANGED op
  <2>1. Exclusive'
    BY <1>3, MutatesAlone, ExclusiveKept DEF Mutating
  <2>2. QED
    BY <1>3, <2>1 DEF GraphInv, Whole
<1>4. QED
  BY <1>2, <1>3 DEF RebuildClears

\* and then the edges, which leaves nothing.
LEMMA RebuildClearsEdgesFollows ==
    ASSUME TypeInv, GraphInv, NEW p \in Proc, RebuildClearsEdges(p)
    PROVE  GraphInv'
<1>1. pc[p] = "clearing" /\ Alone(p) /\ Clearing /\ UNCHANGED <<log, seen, torn>>
  <2>1. pc[p] = "clearing" /\ Mutating(p)
    BY StateTypes DEF RebuildClearsEdges, PhaseOk, Mutating
  <2>2. QED
    BY <2>1, MutatesAlone DEF RebuildClearsEdges, Clearing
<1>2. CASE /\ store' = [store EXCEPT !.edges = NoGraph.edges]
           /\ mem' = [mem EXCEPT ![p] = Unlinked(scan[p])]
           /\ buf' = [buf EXCEPT ![p] = [left |-> Present(scan[p])]]
           /\ pc' = [pc EXCEPT ![p] = "cleared"]
           /\ UNCHANGED <<op, scan, fault, fails>>
  <2>1. /\ pc'[p] = "cleared" /\ mem'[p] = Unlinked(scan[p]) /\ buf'[p].left = Present(scan[p])
        /\ \A q \in Proc \ {p} : Still(q)
    BY <1>2, StateTypes DEF Still
  <2>2. Clearing'
    BY <2>1 DEF Clearing
  <2>3. Exclusive'
    BY <1>1, <1>2, ExclusiveKept
  <2>4. ASSUME Whole' PROVE StoreInv'
    <3>1. store.nodes = NoGraph.nodes
      BY <1>1, <1>2, <2>4 DEF Whole, GraphInv, MemoryInv
    <3>2. store'.nodes = NoGraph.nodes /\ store'.edges = {}
      BY <1>2, <3>1, StateTypes DEF Graph, NoGraph
    <3>3. QED
      BY <2>2, <3>2, ClearedKnows DEF StoreInv, NoGraph
  <2>5. ASSUME Whole', NEW q \in Proc \ {p}
        PROVE  MemoryInv(q)' /\ MutationInv(q)'
    <3>1. MemoryInv(q) /\ Still(q) /\ ~Mutating(q)
      BY <1>1, <1>2, <2>1, <2>5 DEF Whole, GraphInv, Alone
    <3>2. QED
      BY <1>1, <2>2, <3>1, ClearingKnows
  <2>6. MemoryInv(p)' /\ MutationInv(p)'
    <3>1. /\ mem'[p].edges = {} /\ \A k \in Key : mem'[p].nodes[k] = IF k \in Present(scan[p]) THEN "real" ELSE "none"
          /\ Present(scan[p]) \subseteq Key
      BY <2>1, UnlinkedTypes DEF Present, Key
    <3>2. Sound(mem[p])'
      BY <3>1 DEF Sound, IdsBelow
    <3>3. QED
      BY <2>1, <3>1, <3>2 DEF MemoryInv, MutationInv
  <2>7. QED
    BY <2>3, <2>4, <2>5, <2>6 DEF GraphInv
<1>3. CASE CommitRefused(p)
  <2>1. fault' = TRUE /\ op'[p].kind = "none" /\ \A q \in Proc \ {p} : op'[q] = op[q]
    BY <1>3, StateTypes DEF CommitRefused, NoOp
  <2>2. Exclusive'
    BY <2>1, ExclusiveKept DEF Mutating
  <2>3. QED
    BY <2>1, <2>2 DEF GraphInv, Whole
<1>4. QED
  BY <1>2, <1>3 DEF RebuildClearsEdges

\* What a process that does not mutate knows lasts when another persists.
LEMMA GrownKnows ==
    ASSUME TypeInv, NEW b, NEW next, Grows(b, next), Clearing' \/ ~Clearing \/ b.reset,
           NEW q \in Proc, Still(q), seen'[q] = seen[q], ~Mutating(q), MemoryInv(q)
    PROVE  MemoryInv(q)' /\ MutationInv(q)'
<1>1. pc[q] \notin {"clearing", "cleared", "persisted"}
  BY StateTypes DEF PhaseOk, Mutating
<1>2. Gen \in Nat /\ seen[q] \in 0..Gen
  BY StateTypes
<1>3. GraphFollows(mem[q], seen[q]) => GraphFollows(mem[q], seen[q])'
  BY <1>2, GraphLasts DEF Still
<1>4. pc[q] = "applying" => /\ Steady(buf[q].gen)' => GraphFollows(mem[q], buf[q].at)'
                            /\ \A i \in buf[q].at + 1..buf[q].gen : ~log'[i].reset
  <2>1. SUFFICES ASSUME pc[q] = "applying"
                 PROVE  /\ Steady(buf[q].gen)' => GraphFollows(mem[q], buf[q].at)'
                        /\ \A i \in buf[q].at + 1..buf[q].gen : ~log'[i].reset
    OBVIOUS
  <2>2. buf[q].gen \in 0..Gen /\ buf[q].at \in 0..buf[q].to /\ buf[q].to \in buf[q].gen..Gen
    BY <2>1, StateTypes DEF PhaseOk
  <2>3. buf[q].at \in 0..Gen /\ \A i \in buf[q].at + 1..buf[q].gen : i \in 1..Gen
    BY <1>2, <2>2
  <2>4. /\ Steady(buf[q].gen) => GraphFollows(mem[q], buf[q].at)
        /\ \A i \in buf[q].at + 1..buf[q].gen : ~log[i].reset
    BY <2>1 DEF MemoryInv
  <2>5. Steady(buf[q].gen)' => GraphFollows(mem[q], buf[q].at)'
    <3>1. SUFFICES ASSUME Steady(buf[q].gen)' PROVE GraphFollows(mem[q], buf[q].at)'
      OBVIOUS
    <3>2. Steady(buf[q].gen)
      BY <2>2, <3>1, SteadyBefore DEF Still
    <3>3. QED
      BY <2>3, <2>4, <3>2, GraphLasts DEF Still
  <2>6. QED
    BY <2>3, <2>4, <2>5 DEF Grows
<1>5. pc[q] \in {"nodes", "edges"} /\ Steady(buf[q].gen)' => NextFollows(buf[q].next, buf[q].gen)'
  <2>1. SUFFICES ASSUME pc[q] \in {"nodes", "edges"}, Steady(buf[q].gen)'
                 PROVE  NextFollows(buf[q].next, buf[q].gen)'
    OBVIOUS
  <2>2. buf[q].gen \in 0..Gen
    BY <2>1, StateTypes DEF PhaseOk
  <2>3. Steady(buf[q].gen)
    BY <2>1, <2>2, SteadyBefore DEF Still
  <2>4. NextFollows(buf[q].next, buf[q].gen)
    BY <2>1, <2>3 DEF MemoryInv
  <2>5. QED
    BY <2>2, <2>4, NextLasts DEF Still
<1>6. pc[q] = "edges" /\ Steady(buf[q].gen)' => NodesFollow(buf[q].nodes, buf[q].gen)'
  <2>1. SUFFICES ASSUME pc[q] = "edges", Steady(buf[q].gen)'
                 PROVE  NodesFollow(buf[q].nodes, buf[q].gen)'
    OBVIOUS
  <2>2. buf[q].gen \in 0..Gen
    BY <2>1, StateTypes DEF PhaseOk
  <2>3. Steady(buf[q].gen)
    BY <2>1, <2>2, SteadyBefore DEF Still
  <2>4. NodesFollow(buf[q].nodes, buf[q].gen)
    BY <2>1, <2>3 DEF MemoryInv
  <2>5. QED
    BY <2>2, <2>4, NodesLast DEF Still
<1>7. pc[q] = "rows" => \A i \in seen[q] + 1..buf[q].gen : ~log'[i].reset
  <2>1. SUFFICES ASSUME pc[q] = "rows" PROVE \A i \in seen[q] + 1..buf[q].gen : ~log'[i].reset
    OBVIOUS
  <2>2. buf[q].gen \in 0..Gen
    BY <2>1, StateTypes DEF PhaseOk
  <2>3. \A i \in seen[q] + 1..buf[q].gen : i \in 1..Gen /\ ~log[i].reset
    BY <1>2, <2>1, <2>2 DEF MemoryInv
  <2>4. QED
    BY <2>3 DEF Grows
<1>8. MemoryInv(q)'
  BY <1>1, <1>3, <1>4, <1>5, <1>6, <1>7 DEF MemoryInv, Still
<1>9. MutationInv(q)'
  BY DEF MutationInv, Mutating, Still
<1>10. QED
  BY <1>8, <1>9

\* A commit leaves the process that persisted with the store's graph, and the
\* others with what they knew.
LEMMA CommitFollows ==
    ASSUME TypeInv, GraphInv, NEW p \in Proc, NEW b, NEW next, Grows(b, next), Whole, Alone(p),
           \A q \in Proc \ {p} : Still(q) /\ seen'[q] = seen[q],
           pc'[p] = "persisted", ~Clearing', ~Clearing \/ b.reset, b.gone \cap DOMAIN b.nodes = {},
           store' \in Graph, Sound(store)',
           mem'[p].nodes = store'.nodes, mem'[p].edges = store'.edges, mem'[p].next = store'.next
    PROVE  StoreInv' /\ \A q \in Proc : MemoryInv(q)' /\ MutationInv(q)'
<1>1. StoreInv /\ \A q \in Proc : MemoryInv(q)
  BY DEF GraphInv
<1>2. Gen \in Nat /\ Gen' = Gen + 1
  BY StateTypes DEF Grows
<1>3. \A i \in 1..Gen : RowsHold(i)'
  BY <1>1, RowsLast DEF StoreInv
<1>4. \A i \in {Gen + 1} : RowsHold(i)'
  BY NewRows
<1>5. \A i \in 1..Gen + 1 : i \in 1..Gen \/ i \in {Gen + 1}
  BY <1>2
<1>6. GraphFollows(NoGraph, 0)'
  <2>1. 0 \in 0..Gen
    BY <1>2
  <2>2. \A graph, h : h \in 0..Gen /\ GraphFollows(graph, h) => GraphFollows(graph, h)'
    BY GraphLasts
  <2>3. QED
    BY <1>1, <2>1, <2>2 DEF StoreInv
<1>7. StoreInv'
  <2>1. ~Emptied'
    BY DEF Clearing, Emptied
  <2>2. QED
    BY <1>2, <1>3, <1>4, <1>5, <1>6, <2>1 DEF StoreInv
<1>8. \A q \in Proc \ {p} : MemoryInv(q)' /\ MutationInv(q)'
  BY <1>1, GrownKnows DEF Alone
<1>9. MemoryInv(p)' /\ MutationInv(p)'
  BY DEF MemoryInv, MutationInv
<1>10. QED
  BY <1>7, <1>8, <1>9

\* A store is being rebuilt by a process that mutates.
LEMMA ClearedMutates ==
    ASSUME TypeInv, NEW p \in Proc, Alone(p), pc[p] \notin {"clearing", "cleared"}
    PROVE  ~Clearing
<1>1. \A q \in Proc : pc[q] \in {"clearing", "cleared"} => Mutating(q)
  BY StateTypes DEF PhaseOk, Mutating
<1>2. QED
  BY <1>1 DEF Clearing, Alone

\* A record leaves no path both gone and there.
LEMMA RecordedApart ==
    ASSUME NEW b, NEW before, NEW after, NEW touched, Recorded(b, before, after, touched)
    PROVE  b.gone \cap DOMAIN b.nodes = {}
  BY DEF Recorded

\* An operation acts on the store's graph, and its commit makes the store its result.
LEMMA ActMakes ==
    ASSUME TypeInv, GraphInv, Whole, NEW p \in Proc, pc[p] = "acting", NEW g \in Acted(p),
           NEW b, b = Changes(mem[p], g, Touched(p), FALSE), Commits(p, b, g.next)
    PROVE  /\ Grows(b, g.next) /\ ~b.reset /\ b.gone \cap DOMAIN b.nodes = {}
           /\ b.cut = Ids(mem[p].edges \ g.edges)
           /\ Alone(p) /\ ~Clearing
           /\ g \in Graph /\ Sound(mem[p]) /\ Sound(g)
           /\ mem[p].nodes = store.nodes /\ mem[p].edges = store.edges
           /\ store'.nodes = g.nodes /\ store'.edges = g.edges /\ store'.next = g.next
<1>1. mem[p] \in Graph /\ store \in Graph /\ op[p] \in Operation /\ op[p].kind \in {"upsert", "remove"} /\ Gen \in Nat
  BY StateTypes DEF PhaseOk
<1>2. op[p].note \in Note /\ (op[p].kind = "upsert" => op[p].links \in LinkLists)
  BY <1>1 DEF Operation
<1>3. Mutating(p) /\ Alone(p) /\ ~Clearing
  BY <1>1, MutatesAlone, ClearedMutates DEF Mutating
<1>4. GraphFollows(mem[p], seen[p]) /\ seen[p] = Gen /\ Sound(store)
  BY <1>3 DEF GraphInv, MemoryInv, MutationInv, StoreInv
<1>5. mem[p].nodes = store.nodes /\ mem[p].edges = store.edges /\ IdsBelow(store.edges, mem[p].next)
  BY <1>1, <1>3, <1>4, UpToDate
<1>6. Sound(mem[p])
  BY <1>4, <1>5 DEF Sound
<1>7. Sound(g)
  <2>1. CASE op[p].kind = "upsert"
    <3>1. g \in UpsertNote(mem[p], op[p].note, op[p].links) /\ op[p].links \in LinkLists
      BY <1>2, <2>1 DEF Acted
    <3>2. QED
      BY <1>1, <1>2, <1>6, <3>1, UpsertKeeps
  <2>2. CASE op[p].kind = "remove"
    <3>1. g = RemoveNote(mem[p], op[p].note)
      BY <2>2 DEF Acted
    <3>2. QED
      BY <1>1, <1>2, <1>6, <3>1, RemoveKeeps
  <2>3. QED
    BY <1>1, <2>1, <2>2
<1>8. g \in Graph /\ Touched(p) \in SUBSET Key /\ g.next \in Nat /\ IdsBelow(g.edges \ mem[p].edges, g.next)
  BY ActedTypes DEF Graph
<1>9. b.reset = FALSE /\ Recorded(b, mem[p], g, Touched(p))
  <2>1. b.reset = FALSE
    BY DEF Changes
  <2>2. FALSE \in BOOLEAN
    OBVIOUS
  <2>3. Recorded(b, mem[p], g, Touched(p))
    BY <1>1, <1>8, <2>2, ChangesTypes
  <2>4. QED
    BY <2>1, <2>3
<1>10. b \in Record /\ b.edges = g.edges \ mem[p].edges /\ b.cut = Ids(mem[p].edges \ g.edges)
  BY <1>9 DEF Recorded
<1>11. Grows(b, g.next)
  <2>1. \E n \in Nat : IdsBelow(b.edges, n)
    BY <1>8, <1>10
  <2>2. Gen' = Gen + 1 /\ (\A i \in 1..Gen : log'[i] = log[i]) /\ log'[Gen + 1] = b
    BY <1>8, <1>10, <2>1, Committing
  <2>3. QED
    BY <1>10, <2>2 DEF Grows, Commits
<1>12. store'.nodes = g.nodes /\ store'.edges = g.edges /\ store'.next = g.next
  <2>1. store' = Persist(store, b, g.next)
    BY DEF Commits
  <2>2. ASSUME NEW s \in Graph, NEW t, NEW next, t = Persist(s, b, next),
               s.nodes = mem[p].nodes, s.edges = mem[p].edges
        PROVE  t.nodes = g.nodes /\ t.edges = g.edges /\ t.next = next
    <3>1. mem[p] \in Graph /\ g \in Graph /\ Recorded(b, mem[p], g, Touched(p)) /\ Sound(mem[p]) /\ Sound(g)
      BY <1>1, <1>6, <1>7, <1>8, <1>9
    <3>2. QED
      BY ONLY <2>2, <3>1, ChangesMake
  <2>3. QED
    BY <1>1, <1>5, <2>1, <2>2
<1>13. QED
  BY <1>3, <1>5, <1>6, <1>7, <1>8, <1>9, <1>10, <1>11, <1>12, RecordedApart

\* An upsert or a removal is the store's next generation.
LEMMA ActFollows ==
    ASSUME TypeInv, TypeInv', GraphInv, NEW p \in Proc, Act(p)
    PROVE  GraphInv'
<1>1. PICK g \in Acted(p) :
        /\ mem' = [mem EXCEPT ![p] = g]
        /\ Commits(p, Changes(mem[p], g, Touched(p), FALSE), g.next) \/ CommitRefused(p)
  BY DEF Act
<1>2. /\ pc[p] = "acting" /\ UNCHANGED <<seen, buf, scan, torn>> /\ mem'[p] = g
      /\ \A q \in Proc \ {p} : mem'[q] = mem[q]
  BY <1>1, StateTypes DEF Act
<1> DEFINE b == Changes(mem[p], g, Touched(p), FALSE)
<1>3. CASE Commits(p, b, g.next)
  <2>1. /\ op' = op /\ fault' = fault /\ pc'[p] = "persisted"
        /\ \A q \in Proc \ {p} : pc'[q] = pc[q]
    BY <1>3, StateTypes DEF Commits
  <2>2. Exclusive'
    BY <2>1, MutatesAlone, ExclusiveKept DEF Mutating
  <2>3. ASSUME Whole
        PROVE  StoreInv' /\ \A q \in Proc : MemoryInv(q)' /\ MutationInv(q)'
    <3>1. /\ Grows(b, g.next) /\ ~b.reset /\ b.gone \cap DOMAIN b.nodes = {}
          /\ Alone(p) /\ ~Clearing /\ Sound(g)
          /\ store'.nodes = g.nodes /\ store'.edges = g.edges /\ store'.next = g.next
      BY <1>2, <1>3, <2>3, ActMakes
    <3> HIDE DEF b
    <3>2. ~Clearing'
      BY <2>1, <3>1 DEF Clearing
    <3>3. store' \in Graph
      BY DEF TypeInv
    <3>4. Sound(store)'
      BY <3>1 DEF Sound, IdsBelow
    <3>5. \A q \in Proc \ {p} : Still(q) /\ seen'[q] = seen[q]
      BY <1>2, <2>1 DEF Still
    <3>6. mem'[p].nodes = store'.nodes /\ mem'[p].edges = store'.edges /\ mem'[p].next = store'.next
      BY <1>2, <3>1
    <3>7. QED
      BY <2>1, <2>3, <3>1, <3>2, <3>3, <3>4, <3>5, <3>6, CommitFollows
  <2>4. QED
    BY <1>2, <2>1, <2>2, <2>3 DEF GraphInv, Whole
<1>4. CASE CommitRefused(p)
  <2>1. fault' = TRUE /\ op'[p].kind = "none" /\ \A q \in Proc \ {p} : op'[q] = op[q]
    BY <1>4, StateTypes DEF CommitRefused, NoOp
  <2>2. Exclusive'
    BY <2>1, ExclusiveKept DEF Mutating
  <2>3. QED
    BY <2>1, <2>2 DEF GraphInv, Whole
<1>5. QED
  BY <1>1, <1>3, <1>4

\* A rebuild's write makes the store the graph it has wired.
LEMMA WriteMakes ==
    ASSUME TypeInv, GraphInv, Whole, NEW p \in Proc, pc[p] = "cleared",
           NEW b, b = Changes(NoGraph, mem[p], {}, TRUE), Commits(p, b, mem[p].next)
    PROVE  /\ Grows(b, mem[p].next) /\ b.reset /\ b.gone \cap DOMAIN b.nodes = {} /\ Alone(p)
           /\ Sound(mem[p])
           /\ store'.nodes = mem[p].nodes /\ store'.edges = mem[p].edges /\ store'.next = mem[p].next
<1>1. mem[p] \in Graph /\ store \in Graph /\ op[p].kind = "rebuild" /\ IdsBelow(mem[p].edges, mem[p].next) /\ mem[p].next \in Nat
  BY StateTypes DEF PhaseOk, Graph
<1>2. Mutating(p) /\ Alone(p)
  BY <1>1, MutatesAlone DEF Mutating
<1>3. Sound(mem[p]) /\ store.nodes = NoGraph.nodes /\ store.edges = {}
  BY DEF GraphInv, MemoryInv, StoreInv, Emptied
<1>4. NoGraph \in Graph /\ NoGraph.edges = {} /\ Sound(NoGraph)
  BY EmptyGraph DEF NoGraph, Sound, IdsBelow
<1>5. b.reset = TRUE /\ Recorded(b, NoGraph, mem[p], {})
  <2>1. b.reset = TRUE
    BY DEF Changes
  <2>2. TRUE \in BOOLEAN /\ {} \in SUBSET Key
    OBVIOUS
  <2>3. Recorded(b, NoGraph, mem[p], {})
    BY <1>1, <1>4, <2>2, ChangesTypes
  <2>4. QED
    BY <2>1, <2>3
<1>6. b \in Record /\ b.edges = mem[p].edges \ NoGraph.edges
  BY <1>5 DEF Recorded
<1>7. Grows(b, mem[p].next)
  <2>1. \E n \in Nat : IdsBelow(b.edges, n)
    BY <1>1, <1>4, <1>6
  <2>2. Gen' = Gen + 1 /\ (\A i \in 1..Gen : log'[i] = log[i]) /\ log'[Gen + 1] = b
    BY <1>1, <1>6, <2>1, Committing
  <2>3. QED
    BY <1>6, <2>2 DEF Grows, Commits
<1>8. store'.nodes = mem[p].nodes /\ store'.edges = mem[p].edges /\ store'.next = mem[p].next
  <2>1. store' = Persist(store, b, mem[p].next)
    BY DEF Commits
  <2>2. ASSUME NEW s \in Graph, NEW t, NEW next, t = Persist(s, b, next),
               s.nodes = NoGraph.nodes, s.edges = NoGraph.edges
        PROVE  t.nodes = mem[p].nodes /\ t.edges = mem[p].edges /\ t.next = next
    <3>1. mem[p] \in Graph /\ NoGraph \in Graph /\ Recorded(b, NoGraph, mem[p], {}) /\ Sound(mem[p]) /\ Sound(NoGraph)
      BY <1>1, <1>3, <1>4, <1>5
    <3>2. QED
      BY ONLY <2>2, <3>1, ChangesMake
  <2>3. store.nodes = NoGraph.nodes /\ store.edges = NoGraph.edges
    BY <1>3, <1>4
  <2>4. QED
    BY <1>1, <2>1, <2>2, <2>3
<1>9. QED
  BY <1>2, <1>3, <1>5, <1>7, <1>8, RecordedApart

\* So is a rebuild.
LEMMA RebuildWritesFollows ==
    ASSUME TypeInv, TypeInv', GraphInv, NEW p \in Proc, RebuildWrites(p)
    PROVE  GraphInv'
<1> DEFINE b == Changes(NoGraph, mem[p], {}, TRUE)
<1>1. /\ pc[p] = "cleared" /\ UNCHANGED <<mem, seen, torn>>
      /\ \A q \in Proc \ {p} : buf'[q] = buf[q] /\ scan'[q] = scan[q]
      /\ Commits(p, b, mem[p].next) \/ CommitRefused(p)
  BY StateTypes DEF RebuildWrites
<1>2. CASE Commits(p, b, mem[p].next)
  <2>1. /\ op' = op /\ fault' = fault /\ pc'[p] = "persisted"
        /\ \A q \in Proc \ {p} : pc'[q] = pc[q]
    BY <1>2, StateTypes DEF Commits
  <2>2. Exclusive'
    BY <2>1, MutatesAlone, ExclusiveKept DEF Mutating
  <2>3. ASSUME Whole
        PROVE  StoreInv' /\ \A q \in Proc : MemoryInv(q)' /\ MutationInv(q)'
    <3>1. /\ Grows(b, mem[p].next) /\ b.reset /\ b.gone \cap DOMAIN b.nodes = {} /\ Alone(p)
          /\ Sound(mem[p])
          /\ store'.nodes = mem[p].nodes /\ store'.edges = mem[p].edges /\ store'.next = mem[p].next
      BY <1>1, <1>2, <2>3, WriteMakes
    <3> HIDE DEF b
    <3>2. ~Clearing'
      <4>1. \A q \in Proc : pc[q] \in {"clearing", "cleared"} => Mutating(q)
        BY StateTypes DEF PhaseOk, Mutating
      <4>2. QED
        BY <2>1, <3>1, <4>1 DEF Clearing, Alone
    <3>3. store' \in Graph
      BY DEF TypeInv
    <3>4. Sound(store)'
      BY <3>1 DEF Sound, IdsBelow
    <3>5. \A q \in Proc \ {p} : Still(q) /\ seen'[q] = seen[q]
      BY <1>1, <2>1 DEF Still
    <3>6. mem'[p].nodes = store'.nodes /\ mem'[p].edges = store'.edges /\ mem'[p].next = store'.next
      BY <1>1, <3>1
    <3>7. QED
      BY <2>1, <2>3, <3>1, <3>2, <3>3, <3>4, <3>5, <3>6, CommitFollows
  <2>4. QED
    BY <1>1, <2>1, <2>2, <2>3 DEF GraphInv, Whole
<1>3. CASE CommitRefused(p)
  <2>1. fault' = TRUE /\ op'[p].kind = "none" /\ \A q \in Proc \ {p} : op'[q] = op[q]
    BY <1>3, StateTypes DEF CommitRefused, NoOp
  <2>2. Exclusive'
    BY <2>1, ExclusiveKept DEF Mutating
  <2>3. QED
    BY <2>1, <2>2 DEF GraphInv, Whole
<1>4. QED
  BY <1>1, <1>2, <1>3

-----------------------------------------------------------------------------
(* A caught-up memory is the store's graph, and no edge replaces another.   *)

\* An empty vault, and a store that has never been written.
LEMMA GraphInit == Init => GraphInv
<1> SUFFICES ASSUME Init PROVE GraphInv
  OBVIOUS
<1>1. /\ store = NoGraph /\ Gen = 0
      /\ \A p \in Proc : /\ mem[p] = NoGraph /\ seen[p] = 0 /\ pc[p] = "closed"
                         /\ op[p].kind = "none"
  BY DEF Init, Gen, NoOp
<1>2. ~Clearing /\ ~Emptied /\ \A p \in Proc : ~Mutating(p)
  BY <1>1 DEF Clearing, Emptied, Mutating
<1>3. NoGraph.edges = {}
  BY DEF NoGraph
<1>4. GraphFollows(NoGraph, 0)
  BY <1>1, <1>3 DEF GraphFollows, NodesFollow, EdgesFollow, NextFollows
<1>5. Sound(store)
  BY <1>1, <1>3 DEF Sound, IdsBelow
<1>6. StoreInv
  <2>1. 1..Gen = {}
    BY <1>1
  <2>2. QED
    BY <1>2, <1>4, <1>5, <2>1 DEF StoreInv
<1>7. \A p \in Proc : MemoryInv(p) /\ MutationInv(p)
  BY <1>1, <1>2, <1>4 DEF MemoryInv, MutationInv
<1>8. QED
  BY <1>2, <1>6, <1>7 DEF GraphInv, Exclusive

\* Nothing changes.
LEMMA GraphStutter ==
    ASSUME TypeInv, GraphInv, UNCHANGED vars
    PROVE  GraphInv'
<1>1. StoreSame /\ Whole' = Whole /\ op' = op
  <2>1. (Clearing' <=> Clearing) /\ (Emptied' <=> Emptied)
    BY DEF vars, Clearing, Emptied
  <2>2. QED
    BY <2>1 DEF vars, StoreSame, Whole
<1>2. \A q \in Proc : Still(q) /\ seen'[q] = seen[q]
  BY DEF vars, Still
<1>3. Whole' => StoreInv' /\ \A q \in Proc : MemoryInv(q)' /\ MutationInv(q)'
  <2>1. ASSUME Whole' PROVE StoreInv'
    BY <1>1, <2>1, Unmoved DEF GraphInv
  <2>2. ASSUME Whole', NEW q \in Proc PROVE MemoryInv(q)' /\ MutationInv(q)'
    BY <1>1, <1>2, <2>2, StillKnows DEF GraphInv
  <2>3. QED
    BY <2>1, <2>2
<1>4. Exclusive'
  BY <1>1 DEF GraphInv, Exclusive, Mutating
<1>5. QED
  BY <1>3, <1>4 DEF GraphInv

\* Every step keeps what the processes know.
LEMMA GraphStep ==
    ASSUME Serial, TypeInv, TypeInv', GraphInv, [Next]_vars
    PROVE  GraphInv'
<1>1. CASE UNCHANGED vars
  BY <1>1, GraphStutter
<1>2. ASSUME NEW p \in Proc,
             \/ Open(p) \/ ReadNextId(p) \/ ReadGeneration(p) \/ ReadNodes(p) \/ ReadEdges(p)
             \/ Query(p) \/ CheckLog(p) \/ ReadRows(p) \/ ApplyRows(p) \/ RowsApplied(p)
             \/ \E n \in Note, links \in LinkLists \cup {Absent} : Mutate(p, n, links)
             \/ \E m \in Moves : MoveDirectory(p, m) \/ RestoreDeletes(p, m)
             \/ Act(p) \/ RecordGeneration(p)
             \/ CollectNotes(p) \/ RebuildClears(p) \/ RebuildClearsEdges(p)
             \/ RebuildWires(p) \/ RebuildWrites(p)
             \/ Stop(p)
      PROVE  GraphInv'
  <2>1. CASE Open(p) \/ ReadNextId(p) \/ ReadGeneration(p) \/ ReadNodes(p) \/ ReadEdges(p)
    BY <2>1, OpenFollows, ReadNextIdFollows, ReadGenerationFollows, ReadNodesFollows, ReadEdgesFollows
  <2>2. CASE Query(p) \/ CheckLog(p) \/ ReadRows(p) \/ ApplyRows(p) \/ RowsApplied(p)
    BY <2>2, QueryFollows, CheckLogFollows, ReadRowsFollows, ApplyRowsFollows, RowsAppliedFollows
  <2>3. CASE \E n \in Note, links \in LinkLists \cup {Absent} : Mutate(p, n, links)
    BY <2>3, MutateFollows
  <2>4. CASE Act(p) \/ RecordGeneration(p)
    BY <2>4, ActFollows, RecordGenerationFollows
  <2>5. CASE CollectNotes(p) \/ RebuildClears(p) \/ RebuildClearsEdges(p)
    BY <2>5, CollectNotesFollows, RebuildClearsFollows, RebuildClearsEdgesFollows
  <2>6. CASE RebuildWires(p) \/ RebuildWrites(p) \/ Stop(p)
    BY <2>6, RebuildWiresFollows, RebuildWritesFollows, StopFollows
  <2>7. CASE \E m \in Moves : MoveDirectory(p, m) \/ RestoreDeletes(p, m)
    BY <2>7, DirectoryTypes, WithDirectoryFollows
  <2>8. QED
    BY <1>2, <2>1, <2>2, <2>3, <2>4, <2>5, <2>6, <2>7
<1>3. QED
  BY <1>1, <1>2 DEF Next

\* A graph that follows the last generation is the store's.
LEMMA FollowingIsCurrent == TypeInv /\ GraphInv => CaughtUpIsCurrent
<1> SUFFICES ASSUME TypeInv, GraphInv, NEW p \in Proc,
                    pc[p] = "idle", seen[p] = Gen, Whole, ~Clearing
             PROVE  mem[p].nodes = store.nodes /\ mem[p].edges = store.edges
  BY DEF CaughtUpIsCurrent
<1>1. GraphFollows(mem[p], seen[p])
  BY DEF GraphInv, MemoryInv
<1>2. store \in Graph /\ mem[p] \in Graph /\ Gen \in Nat /\ seen[p] \in Nat
  BY StateTypes
<1>3. QED
  BY <1>1, <1>2, UpToDate

\* Where mutations do not overlap, the processes know what they should.
LEMMA GraphInvariant ==
    ASSUME Serial
    PROVE  Spec => [](TypeInv /\ GraphInv)
<1>1. Init => TypeInv /\ GraphInv
  BY TypeInit, GraphInit
<1>2. TypeInv /\ GraphInv /\ [Next]_vars => TypeInv' /\ GraphInv'
  BY TypeStep, GraphStep
<1>3. QED
  BY <1>1, <1>2, PTL DEF Spec

\* Whatever nodes and edges of different generations and replayed deltas brought it
\* there, a process that has seen the store's generation holds the store's graph, until
\* one reads its next id before a sibling's commit and its generation after it, or the
\* rows of a log that a sibling has pruned since it was checked (torn).
THEOREM CaughtUp ==
    ASSUME Serial
    PROVE  Spec => []CaughtUpIsCurrent
<1>1. Spec => [](TypeInv /\ GraphInv)
  BY GraphInvariant
<1>2. QED
  BY <1>1, FollowingIsCurrent, PTL

\* Only an operation's commit, or a rebuild's, makes a generation.
LEMMA OnlyCommits ==
    ASSUME TypeInv, [Next]_vars, Gen' = Gen + 1
    PROVE  \E p \in Proc : Act(p) \/ RebuildWrites(p)
<1>1. log' # log
  BY StateTypes DEF Gen
<1>2. QED
  BY <1>1 DEF Next, vars, Open, ReadNextId, ReadGeneration, ReadNodes, ReadEdges, Query, CheckLog, ReadRows,
              ApplyRows, RowsApplied, Mutate, MoveDirectory, RestoreDeletes, WithDirectory, RecordGeneration, CollectNotes, RebuildClears,
              RebuildClearsEdges, CommitRefused, RebuildWires, Stop

\* A commit writes an edge over another's row only where it cuts it.
LEMMA EdgesKeepTheirRows ==
    ASSUME TypeInv, GraphInv, [Next]_vars, NEW e \in store.edges, NEW f \in store'.edges, Whole, e.id = f.id,
           Gen' = Gen + 1, ~log'[Gen'].reset, e.id \notin log'[Gen'].cut
    PROVE  e = f
<1>1. PICK p \in Proc : Act(p) \/ RebuildWrites(p)
  BY OnlyCommits
<1>2. Gen \in Nat /\ log' # log
  BY StateTypes DEF Gen
<1>3. CASE Act(p)
  <2>1. PICK g \in Acted(p) : Commits(p, Changes(mem[p], g, Touched(p), FALSE), g.next)
    BY <1>2, <1>3 DEF Act, CommitRefused
  <2> DEFINE b == Changes(mem[p], g, Touched(p), FALSE)
  <2>2. pc[p] = "acting"
    BY <1>3 DEF Act
  <2>3. /\ Grows(b, g.next) /\ b.cut = Ids(mem[p].edges \ g.edges)
        /\ mem[p].edges = store.edges /\ store'.edges = g.edges /\ Sound(g)
    BY <2>1, <2>2, ActMakes
  <2> HIDE DEF b
  <2>4. log'[Gen'] = b
    BY <2>3 DEF Grows
  <2>5. e \in g.edges
    BY <2>3, <2>4 DEF Ids
  <2>6. QED
    BY <2>3, <2>5 DEF Sound
<1>4. CASE RebuildWrites(p)
  <2> DEFINE b == Changes(NoGraph, mem[p], {}, TRUE)
  <2>1. pc[p] = "cleared" /\ Commits(p, b, mem[p].next)
    BY <1>2, <1>4 DEF RebuildWrites, CommitRefused
  <2>2. Grows(b, mem[p].next) /\ b.reset
    BY <2>1, WriteMakes
  <2> HIDE DEF b
  <2>3. QED
    BY <2>2 DEF Grows
<1>5. QED
  BY <1>1, <1>3, <1>4

\* No commit puts an edge where the store holds another, however the ids were
\* handed out before: a process has moved its allocator past what it has seen, unless
\* reads were torn or an operation failed.
THEOREM NoIdHandedOutTwice ==
    ASSUME Serial
    PROVE  Spec => NoEdgeOverwritten
<1>1. Spec => [](TypeInv /\ GraphInv)
  BY GraphInvariant
<1> DEFINE Kept == \A e \in store.edges, f \in store'.edges :
              (Whole /\ e.id = f.id /\ Gen' = Gen + 1 /\ ~log'[Gen'].reset /\ e.id \notin log'[Gen'].cut)
                => e = f
<1>2. TypeInv /\ GraphInv /\ [Next]_vars => [Kept]_vars
  BY EdgesKeepTheirRows
<1>3. Spec => [][Kept]_vars
  BY <1>1, <1>2, PTL DEF Spec
<1>4. QED
  BY <1>3 DEF NoEdgeOverwritten

-----------------------------------------------------------------------------
(* The store is the vault's graph.                                          *)

\* Steps that change neither the store nor the vault.
LEMMA VaultStays ==
    ASSUME TypeInv, VaultInv, NEW p \in Proc, \A q \in Proc \ {p} : Still(q),
           UNCHANGED <<store, vault, outdated, unheard>>,
           pc[p] \notin {"clearing", "cleared"}, pc'[p] \notin {"clearing", "cleared"},
           \/ op'[p] = op[p] /\ (pc'[p] = "persisted" <=> pc[p] = "persisted")
           \/ \A n \in Note : ~Pending(p, n) /\ ~Pending(p, n)'
    PROVE  VaultInv'
<1>1. \A q \in Proc \ {p}, n \in Note : Pending(q, n)' <=> Pending(q, n)
  BY DEF Pending, Still
<1>2. \A n \in Note : /\ Pending(p, n)' <=> Pending(p, n)
                      /\ Pending(p, n) => op'[p] = op[p]
  BY DEF Pending
<1>3. Clearing' <=> Clearing
  BY ClearingSame DEF Still
<1>4. \A q \in Proc : PendingShown(q)'
  <2>1. \A q \in Proc \ {p} : PendingShown(q)'
    BY <1>1 DEF VaultInv, PendingShown, Still
  <2>2. PendingShown(p)'
    BY <1>2 DEF VaultInv, PendingShown
  <2>3. QED
    BY <2>1, <2>2
<1>5. \A q \in Proc : WiringInv(q)'
  <2>1. \A q \in Proc \ {p} : WiringInv(q)'
    BY DEF VaultInv, WiringInv, Still
  <2>2. QED
    BY <2>1 DEF WiringInv
<1>6. StoreShown => StoreShown'
  <2>1. \A q \in Proc, n \in Note : Pending(q, n) => Pending(q, n)'
    BY <1>1, <1>2
  <2>2. QED
    BY <2>1 DEF StoreShown
<1>7. QED
  BY <1>3, <1>4, <1>5, <1>6 DEF VaultInv

\* A process that resumes its operation goes on with it, or it has been a query.
LEMMA ResumingStays ==
    ASSUME TypeInv, NEW p \in Proc, AfterCatchUp(p), op[p].kind # "rebuild", pc[p] # "persisted"
    PROVE  /\ pc'[p] \notin {"clearing", "cleared"} /\ \A q \in Proc \ {p} : pc'[q] = pc[q] /\ op'[q] = op[q] /\ buf'[q] = buf[q]
           /\ \/ op'[p] = op[p] /\ (pc'[p] = "persisted" <=> pc[p] = "persisted")
              \/ \A n \in Note : ~Pending(p, n) /\ ~Pending(p, n)'
<1>1. /\ \A q \in Proc \ {p} : pc'[q] = pc[q] /\ op'[q] = op[q] /\ buf'[q] = buf[q]
      /\ \/ pc'[p] = "acting" /\ op'[p] = op[p] /\ op[p].kind \in {"upsert", "remove"}
         \/ pc'[p] = "idle" /\ op'[p] = NoOp
  BY Resuming
<1>2. CASE op[p].kind \in {"upsert", "remove"}
  <2>1. Resumed(p) = "acting"
    BY <1>2 DEF Resumed
  <2>2. pc'[p] = "acting"
    BY <2>1, StateTypes DEF AfterCatchUp
  <2>3. QED
    BY <1>1, <2>2
<1>3. CASE op[p].kind \notin {"upsert", "remove"}
  BY <1>1, <1>3 DEF Pending, NoOp
<1>4. QED
  BY <1>2, <1>3

\* A load that fails a mutation is a fault.
LEMMA FailedLoadStays ==
    ASSUME TypeInv, VaultInv, Whole', NEW p \in Proc, LoadFails(p), UNCHANGED <<store, scan, vault, outdated, unheard>>,
           pc[p] \in {"meta", "edges"}
    PROVE  VaultInv'
<1>1. /\ pc'[p] = "idle" /\ op'[p].kind = "none" /\ ~Mutating(p)
      /\ \A q \in Proc \ {p} : Still(q)
  BY StateTypes DEF LoadFails, NoOp, Still, Whole
<1>2. \A n \in Note : ~Pending(p, n) /\ ~Pending(p, n)'
  BY <1>1 DEF Pending, Mutating
<1>3. QED
  BY <1>1, <1>2, VaultStays

\* Opening, catching up, queries and walks.
LEMMA ReadersStay ==
    ASSUME TypeInv, VaultInv, Whole', NEW p \in Proc,
           \/ Open(p) \/ ReadNextId(p) \/ ReadGeneration(p) \/ ReadNodes(p) \/ ReadEdges(p)
           \/ Query(p) \/ CheckLog(p) \/ ReadRows(p) \/ ApplyRows(p) \/ RowsApplied(p)
    PROVE  VaultInv'
<1>1. CASE Open(p)
  <2>1. /\ pc[p] = "closed" /\ pc'[p] = "meta" /\ op'[p].kind = "open" /\ UNCHANGED <<store, vault, outdated, unheard>>
        /\ \A q \in Proc \ {p} : Still(q)
    BY <1>1, StateTypes DEF Open, Still
  <2>2. op[p].kind = "none"
    BY <2>1, StateTypes DEF PhaseOk
  <2>3. \A n \in Note : ~Pending(p, n) /\ ~Pending(p, n)'
    BY <2>1, <2>2 DEF Pending
  <2>4. QED
    BY <2>1, <2>3, VaultStays
<1>2. CASE ReadNextId(p)
  <2>1. CASE Gen = 0
    BY <1>2, <2>1, FailedLoadStays DEF ReadNextId
  <2>2. CASE Gen # 0
    <3>1. /\ pc[p] = "meta" /\ pc'[p] = "generation" /\ op' = op /\ UNCHANGED <<store, vault, outdated, unheard>>
          /\ \A q \in Proc \ {p} : Still(q)
      BY <1>2, <2>2, StateTypes DEF ReadNextId, Still
    <3>2. QED
      BY <3>1, VaultStays
  <2>3. QED
    BY <2>1, <2>2
<1>3. CASE ReadNodes(p)
  <2>1. /\ pc[p] = "nodes" /\ pc'[p] = "edges" /\ op' = op /\ UNCHANGED <<store, vault, outdated, unheard>>
        /\ \A q \in Proc \ {p} : Still(q)
    BY <1>3, StateTypes DEF ReadNodes, Still
  <2>2. QED
    BY <2>1, VaultStays
<1>4. CASE ReadEdges(p)
  <2>1. CASE Dangling(buf[p].nodes, store.edges)
    BY <1>4, <2>1, FailedLoadStays DEF ReadEdges
  <2>2. CASE ~Dangling(buf[p].nodes, store.edges)
    <3>1. /\ pc[p] = "edges" /\ AfterCatchUp(p) /\ UNCHANGED <<store, scan, vault, outdated, unheard>>
          /\ \A q \in Proc \ {p} : mem'[q] = mem[q]
      BY <1>4, <2>2, StateTypes DEF ReadEdges
    <3>2. op[p].kind # "rebuild"
      BY <3>1, StateTypes DEF PhaseOk
    <3>3. /\ pc'[p] \notin {"clearing", "cleared"} /\ \A q \in Proc \ {p} : pc'[q] = pc[q] /\ op'[q] = op[q] /\ buf'[q] = buf[q]
          /\ \/ op'[p] = op[p] /\ (pc'[p] = "persisted" <=> pc[p] = "persisted")
             \/ \A n \in Note : ~Pending(p, n) /\ ~Pending(p, n)'
      BY <3>1, <3>2, ResumingStays
    <3>4. \A q \in Proc \ {p} : Still(q)
      BY <3>1, <3>3 DEF Still
    <3>5. QED
      BY <3>1, <3>3, <3>4, VaultStays
  <2>3. QED
    BY <2>1, <2>2
<1>5. CASE Query(p)
  <2>1. /\ pc[p] = "idle" /\ Enter(p) /\ op'[p].kind = "query" /\ UNCHANGED <<store, log, mem, buf, scan, vault, outdated, unheard>>
        /\ \A q \in Proc \ {p} : op'[q] = op[q]
    BY <1>5, StateTypes DEF Query
  <2>2. /\ \A q \in Proc \ {p} : pc'[q] = pc[q]
        /\ pc'[p] \in {"acting", "log"}
    BY <2>1, Entering
  <2>3. op[p].kind = "none"
    BY <2>1, StateTypes DEF PhaseOk
  <2>4. \A n \in Note : ~Pending(p, n) /\ ~Pending(p, n)'
    BY <2>1, <2>3 DEF Pending
  <2>5. \A q \in Proc \ {p} : Still(q)
    BY <2>1, <2>2 DEF Still
  <2>6. QED
    BY <2>1, <2>2, <2>4, <2>5, VaultStays
<1>6. CASE ReadRows(p)
  <2>1. /\ pc[p] = "rows" /\ pc'[p] = "applying" /\ op' = op /\ UNCHANGED <<store, vault, outdated, unheard>>
        /\ \A q \in Proc \ {p} : Still(q)
    BY <1>6, StateTypes DEF ReadRows, Still
  <2>2. QED
    BY <2>1, VaultStays
<1>7. CASE ApplyRows(p)
  <2>1. /\ pc[p] = "applying" /\ pc' = pc /\ op' = op /\ UNCHANGED <<store, vault, outdated, unheard>>
        /\ \A q \in Proc \ {p} : Still(q)
    BY <1>7, StateTypes DEF ApplyRows, Still
  <2>2. QED
    BY <2>1, VaultStays
<1>8. CASE RowsApplied(p)
  <2>1. pc[p] = "applying" /\ AfterCatchUp(p) /\ UNCHANGED <<store, mem, scan, vault, outdated, unheard>>
    BY <1>8 DEF RowsApplied
  <2>2. op[p].kind # "rebuild"
    BY <2>1, StateTypes DEF PhaseOk
  <2>3. /\ pc'[p] \notin {"clearing", "cleared"} /\ \A q \in Proc \ {p} : pc'[q] = pc[q] /\ op'[q] = op[q] /\ buf'[q] = buf[q]
        /\ \/ op'[p] = op[p] /\ (pc'[p] = "persisted" <=> pc[p] = "persisted")
           \/ \A n \in Note : ~Pending(p, n) /\ ~Pending(p, n)'
    BY <2>1, <2>2, ResumingStays
  <2>4. \A q \in Proc \ {p} : Still(q)
    BY <2>1, <2>3 DEF Still
  <2>5. QED
    BY <2>1, <2>3, <2>4, VaultStays
<1>9. CASE ReadGeneration(p)
  <2>1. /\ pc[p] = "generation" /\ pc'[p] = "nodes" /\ op' = op /\ UNCHANGED <<store, vault, outdated, unheard>>
        /\ \A q \in Proc \ {p} : Still(q)
    BY <1>9, StateTypes DEF ReadGeneration, Still
  <2>2. QED
    BY <2>1, VaultStays
<1>10. CASE CheckLog(p)
  <2>1. /\ pc[p] = "log" /\ pc'[p] \in {"meta", "rows"} /\ op' = op /\ UNCHANGED <<store, vault, outdated, unheard>>
        /\ \A q \in Proc \ {p} : Still(q)
    BY <1>10, StateTypes DEF CheckLog, Still
  <2>2. QED
    BY <2>1, VaultStays
<1>11. QED
  BY <1>1, <1>2, <1>3, <1>4, <1>5, <1>6, <1>7, <1>8, <1>9, <1>10

\* The steps around a mutation.
LEMMA OthersStay ==
    ASSUME TypeInv, VaultInv, Whole', NEW p \in Proc, RecordGeneration(p) \/ CollectNotes(p) \/ Stop(p)
    PROVE  VaultInv'
<1>1. CASE RecordGeneration(p)
  <2>1. /\ pc[p] = "persisted" /\ pc'[p] = "idle" /\ op'[p].kind = "none" /\ UNCHANGED <<store, vault, outdated, unheard>>
        /\ \A q \in Proc \ {p} : Still(q)
    BY <1>1, StateTypes DEF RecordGeneration, NoOp, Still
  <2>2. \A n \in Note : ~Pending(p, n) /\ ~Pending(p, n)'
    BY <2>1 DEF Pending
  <2>3. QED
    BY <2>1, <2>2, VaultStays
<1>2. CASE CollectNotes(p)
  <2>1. /\ op[p].kind # "rebuild" /\ pc' = pc /\ op' = op /\ UNCHANGED <<store, vault, outdated, unheard>>
        /\ \A q \in Proc \ {p} : Still(q)
    BY <1>2, StateTypes DEF CollectNotes, Still
  <2>2. pc[p] \notin {"clearing", "cleared"}
    BY <2>1, StateTypes DEF PhaseOk
  <2>3. QED
    BY <2>1, <2>2, VaultStays
<1>3. CASE Stop(p)
  <2>1. /\ ~(Mutating(p) /\ pc[p] # "persisted") /\ pc'[p] = "closed" /\ op'[p].kind = "none"
        /\ UNCHANGED <<store, vault, outdated, unheard>> /\ \A q \in Proc \ {p} : Still(q)
    BY <1>3, StateTypes DEF Stop, NoOp, Still, Whole
  <2>2. pc[p] \notin {"clearing", "cleared"}
    BY <2>1, StateTypes DEF PhaseOk, Mutating
  <2>3. \A n \in Note : ~Pending(p, n) /\ ~Pending(p, n)'
    BY <2>1 DEF Pending, Mutating
  <2>4. QED
    BY <2>1, <2>2, <2>3, VaultStays
<1>4. QED
  BY <1>1, <1>2, <1>3

\* A changed note is pending until its change is persisted.
LEMMA MutateShown ==
    ASSUME Serial, TypeInv, VaultInv, NEW p \in Proc, NEW n \in Note, NEW links \in LinkLists \cup {Absent},
           Mutate(p, n, links)
    PROVE  VaultInv'
<1>1. /\ pc[p] = "idle" /\ Enter(p) /\ Alone(p)
      /\ UNCHANGED <<store, log, mem, buf, scan, outdated>> /\ unheard' = unheard \ {n}
      /\ \A q \in Proc \ {p} : op'[q] = op[q]
  BY StateTypes DEF Mutate, MayMutate, Alone
<1>2. /\ \A q \in Proc \ {p} : pc'[q] = pc[q]
      /\ pc'[p] \in {"acting", "log"}
  BY <1>1, Entering
<1>3. vault' = [vault EXCEPT ![n] = links] /\ vault \in Notes
  BY DEF Mutate, TypeInv
<1>4. /\ vault'[n] = links
      /\ \A j \in Note \ {n} : vault'[j] = vault[j]
  BY <1>3 DEF Notes
<1>5. /\ op'[p].note = n /\ op'[p].kind \in {"upsert", "remove"}
      /\ links = IF op'[p].kind = "upsert" THEN op'[p].links ELSE Absent
  BY StateTypes DEF Mutate
<1>6. ~Clearing /\ ~Clearing'
  <2>1. ~Clearing
    BY <1>1, ClearedMutates
  <2>2. QED
    BY <1>2, <2>1 DEF Clearing
<1>7. \A q \in Proc : \A j \in Note : Pending(q, j)' <=> (q = p /\ j = n)
  <2>1. \A j \in Note : Pending(p, j)' <=> j = n
    BY <1>2, <1>5 DEF Pending
  <2>2. \A q \in Proc \ {p}, j \in Note : ~Pending(q, j)'
    BY <1>1 DEF Pending, Alone, Mutating
  <2>3. QED
    BY <2>1, <2>2
<1>8. \A q \in Proc : PendingShown(q)' /\ WiringInv(q)'
  <2>1. \A q \in Proc : WiringInv(q)'
    BY <1>6 DEF WiringInv, Clearing
  <2>2. \A q \in Proc : PendingShown(q)'
    BY <1>4, <1>5, <1>7 DEF PendingShown
  <2>3. QED
    BY <2>1, <2>2
<1>9. ~outdated => StoreShown'
  <2>1. SUFFICES ASSUME ~outdated, NEW j \in Note \ unheard'
                 PROVE  Holds(store', j, vault'[j]) \/ \E q \in Proc : Pending(q, j)'
    BY DEF StoreShown
  <2>2. CASE j = n
    BY <1>7, <2>2
  <2>3. CASE j # n
    <3>1. Holds(store, j, vault[j]) \/ \E q \in Proc : Pending(q, j)
      BY <1>1, <1>6, <2>1, <2>3 DEF VaultInv, StoreShown
    <3>2. \A q \in Proc : ~Pending(q, j)
      <4>1. op[p].kind = "none"
        BY <1>1, StateTypes DEF PhaseOk
      <4>2. QED
        BY <1>1, <4>1 DEF Pending, Alone, Mutating
    <3>3. QED
      BY <1>1, <1>4, <2>3, <3>1, <3>2
  <2>4. QED
    BY <2>2, <2>3
<1>10. QED
  BY <1>1, <1>8, <1>9 DEF VaultInv

\* The notes that change with their directory are no longer spoken of.
LEMMA WithDirectoryShown ==
    ASSUME TypeInv, VaultInv, NEW p \in Proc, NEW v \in Notes, WithDirectory(p, v)
    PROVE  VaultInv'
<1>1. /\ UNCHANGED <<store, mem, pc, op, buf, scan, outdated>> /\ vault' = v
      /\ unheard' = unheard \cup {n \in Note : v[n] # vault[n]}
  BY DEF WithDirectory
<1>2. \A n \in Note \ unheard' : n \in Note \ unheard /\ vault'[n] = vault[n]
  BY <1>1
<1>3. (\A q \in Proc, n \in Note : Pending(q, n)' <=> Pending(q, n)) /\ (Clearing' <=> Clearing)
  BY <1>1 DEF Pending, Clearing
<1>4. \A q \in Proc : PendingShown(q)' /\ WiringInv(q)'
  <2>1. \A q \in Proc : PendingShown(q)'
    BY <1>1, <1>2, <1>3 DEF VaultInv, PendingShown
  <2>2. \A q \in Proc : WiringInv(q)'
    BY <1>1 DEF VaultInv, WiringInv
  <2>3. QED
    BY <2>1, <2>2
<1>5. StoreShown => StoreShown'
  BY <1>1, <1>2, <1>3 DEF StoreShown
<1>6. QED
  BY <1>1, <1>3, <1>4, <1>5 DEF VaultInv

\* What a graph has of a note depends on the note's node and its edges.
LEMMA HoldsSame ==
    ASSUME NEW g \in Graph, NEW m \in Graph, NEW n \in Note, NEW links,
           n \in RealNotes(g) <=> n \in RealNotes(m), From(g.edges, n) = From(m.edges, n), Holds(m, n, links)
    PROVE  Holds(g, n, links)
  BY DEF Holds, RealNotes

\* A commit puts the note that was changed into the store, and leaves the others.
LEMMA ActShown ==
    ASSUME TypeInv, TypeInv', GraphInv, VaultInv, Whole', NEW p \in Proc, Act(p)
    PROVE  VaultInv'
<1> DEFINE n == op[p].note
           links == IF op[p].kind = "upsert" THEN op[p].links ELSE Absent
<1>1. PICK g \in Acted(p) :
        /\ mem' = [mem EXCEPT ![p] = g]
        /\ Commits(p, Changes(mem[p], g, Touched(p), FALSE), g.next)
  BY DEF Act, CommitRefused, Whole
<1>2. /\ pc[p] = "acting" /\ pc'[p] = "persisted" /\ Whole
      /\ UNCHANGED <<op, buf, scan, vault, outdated, unheard>>
      /\ \A q \in Proc \ {p} : mem'[q] = mem[q] /\ pc'[q] = pc[q]
  BY <1>1, StateTypes DEF Act, Commits, Whole
<1>3. op[p].kind \in {"upsert", "remove"} /\ n \in Note /\ (op[p].kind = "upsert" => links \in LinkLists)
  <2>1. op[p].kind \in {"upsert", "remove"} /\ op[p] \in Operation
    BY <1>2, StateTypes DEF PhaseOk
  <2>2. QED
    BY <2>1 DEF Operation
<1> DEFINE b == Changes(mem[p], g, Touched(p), FALSE)
<1>4. /\ Alone(p) /\ ~Clearing /\ g \in Graph /\ Sound(mem[p])
      /\ mem[p].nodes = store.nodes /\ mem[p].edges = store.edges
      /\ store'.nodes = g.nodes /\ store'.edges = g.edges
  BY <1>1, <1>2, ActMakes
<1>5. mem[p] \in Graph /\ store \in Graph /\ store' \in Graph
  BY StateTypes DEF TypeInv
<1>6. /\ Holds(g, n, links) /\ \A j \in Note \ {n} : From(g.edges, j) = From(mem[p].edges, j)
      /\ RealNotes(g) \ {n} = RealNotes(mem[p]) \ {n}
  <2>1. CASE op[p].kind = "upsert"
    <3>1. g \in UpsertNote(mem[p], n, links)
      BY <2>1 DEF Acted
    <3>2. QED
      BY <1>3, <1>4, <1>5, <2>1, <3>1, UpsertKeeps
  <2>2. CASE op[p].kind = "remove"
    <3>1. g = RemoveNote(mem[p], n) /\ links = Absent
      BY <2>2 DEF Acted
    <3>2. QED
      BY <1>3, <1>4, <1>5, <3>1, RemoveKeeps
  <2>3. QED
    BY <1>3, <2>1, <2>2
<1>7. n \notin unheard => vault[n] = links
  <2>1. Pending(p, n)
    BY <1>2, <1>3 DEF Pending
  <2>2. QED
    BY <1>3, <2>1 DEF VaultInv, PendingShown
<1> HIDE DEF n, links, b
<1>8. \A q \in Proc, j \in Note : ~Pending(q, j)' /\ (Pending(q, j) => j = n)
  <2>1. \A q \in Proc \ {p}, j \in Note : ~Pending(q, j)' /\ ~Pending(q, j)
    BY <1>2, <1>4 DEF Pending, Alone, Mutating
  <2>2. \A j \in Note : ~Pending(p, j)' /\ (Pending(p, j) => j = n)
    BY <1>2 DEF Pending, n
  <2>3. QED
    BY <2>1, <2>2
<1>9. ~outdated => StoreShown'
  <2>1. SUFFICES ASSUME ~outdated, NEW j \in Note \ unheard
                 PROVE  Holds(store', j, vault'[j])
    BY <1>2 DEF StoreShown
  <2>2. CASE j = n
    BY <1>2, <1>4, <1>6, <1>7, <2>1, <2>2 DEF Holds
  <2>3. CASE j # n
    <3>1. Holds(store, j, vault[j])
      BY <1>4, <1>8, <2>1, <2>3 DEF VaultInv, StoreShown
    <3>2. RealNotes(store') \ {n} = RealNotes(store) \ {n}
      BY <1>4, <1>6 DEF RealNotes
    <3>3. From(store'.edges, j) = From(store.edges, j)
      BY <1>4, <1>6, <2>3
    <3>4. j \in RealNotes(store') <=> j \in RealNotes(store)
      BY <2>3, <3>2
    <3>5. QED
      BY <1>2, <1>5, <3>1, <3>3, <3>4, HoldsSame
  <2>4. QED
    BY <2>2, <2>3
<1>10. ~Clearing'
  BY <1>2, <1>4 DEF Clearing
<1>11. \A q \in Proc : PendingShown(q)' /\ WiringInv(q)'
  <2>1. \A q \in Proc : PendingShown(q)'
    BY <1>8 DEF PendingShown
  <2>2. \A q \in Proc : WiringInv(q)'
    BY <1>10 DEF WiringInv, Clearing
  <2>3. QED
    BY <2>1, <2>2
<1>12. QED
  BY <1>2, <1>9, <1>11 DEF VaultInv

\* While the store is being cleared nothing is said of it.
LEMMA RebuildClearsShown ==
    ASSUME Serial, TypeInv, GraphInv, VaultInv, Whole', NEW p \in Proc, RebuildClears(p)
    PROVE  VaultInv'
<1>1. /\ pc[p] = "idle" /\ Alone(p)
      /\ pc'[p] = "clearing" /\ op'[p].kind = "rebuild" /\ \A q \in Proc \ {p} : pc'[q] = pc[q] /\ op'[q] = op[q]
  BY StateTypes DEF RebuildClears, MayMutate, Alone, Whole
<1>2. \A q \in Proc, n \in Note : ~Pending(q, n)'
  <2>1. \A q \in Proc \ {p}, n \in Note : ~Pending(q, n)'
    BY <1>1 DEF Pending, Alone, Mutating
  <2>2. \A n \in Note : ~Pending(p, n)'
    BY <1>1 DEF Pending
  <2>3. QED
    BY <2>1, <2>2
<1>3. Clearing'
  BY <1>1 DEF Clearing
<1>4. \A q \in Proc : WiringInv(q)'
  <2>1. \A q \in Proc : pc'[q] # "cleared"
    BY <1>1, StateTypes DEF Alone, PhaseOk, Mutating
  <2>2. QED
    BY <2>1 DEF WiringInv
<1>5. \A q \in Proc : PendingShown(q)'
  BY <1>2 DEF PendingShown
<1>6. QED
  BY <1>3, <1>4, <1>5 DEF VaultInv

\* A rebuild starts with a node for each note and no edges.
LEMMA RebuildClearsEdgesShown ==
    ASSUME TypeInv, GraphInv, VaultInv, Whole', NEW p \in Proc, RebuildClearsEdges(p)
    PROVE  VaultInv'
<1>1. /\ pc[p] = "clearing" /\ Alone(p) /\ UNCHANGED <<op, vault, scan>>
      /\ mem'[p] = Unlinked(scan[p]) /\ buf'[p].left = Present(scan[p])
      /\ pc'[p] = "cleared" /\ op[p].kind = "rebuild" /\ \A q \in Proc \ {p} : pc'[q] = pc[q]
  <2>1. pc[p] = "clearing" /\ op[p].kind = "rebuild" /\ Mutating(p)
    BY StateTypes DEF RebuildClearsEdges, PhaseOk, Mutating
  <2>2. /\ UNCHANGED <<op, vault, scan>>
        /\ mem'[p] = Unlinked(scan[p]) /\ buf'[p].left = Present(scan[p])
        /\ pc'[p] = "cleared" /\ \A q \in Proc \ {p} : pc'[q] = pc[q]
    BY StateTypes DEF RebuildClearsEdges, CommitRefused, Whole
  <2>3. QED
    BY <2>1, <2>2, MutatesAlone
<1>2. \A q \in Proc, n \in Note : ~Pending(q, n)'
  <2>1. \A q \in Proc \ {p}, n \in Note : ~Pending(q, n)'
    BY <1>1 DEF Pending, Alone, Mutating
  <2>2. \A n \in Note : ~Pending(p, n)'
    BY <1>1 DEF Pending
  <2>3. QED
    BY <2>1, <2>2
<1>3. Clearing'
  BY <1>1 DEF Clearing
<1>4. WiringInv(p)'
  <2>1. SUFFICES ASSUME NEW n \in Note
                 PROVE  IF n \in buf'[p].left THEN mem'[p].nodes[n] = "real" /\ From(mem'[p].edges, n) = {}
                        ELSE Holds(mem'[p], n, scan'[p][n])
    BY DEF WiringInv
  <2>2. /\ mem'[p].edges = {} /\ n \in Key
        /\ mem'[p].nodes[n] = IF n \in Present(scan[p]) THEN "real" ELSE "none"
    BY <1>1, UnlinkedTypes DEF Key
  <2>3. From(mem'[p].edges, n) = {}
    BY <2>2 DEF From
  <2>4. n \notin Present(scan[p]) => scan'[p][n] = Absent
    BY <1>1 DEF Present
  <2>5. QED
    BY <1>1, <2>2, <2>3, <2>4 DEF Holds
<1>5. \A q \in Proc \ {p} : WiringInv(q)'
  <2>1. \A q \in Proc \ {p} : pc'[q] # "cleared"
    BY <1>1, StateTypes DEF Alone, PhaseOk, Mutating
  <2>2. QED
    BY <2>1 DEF WiringInv
<1>6. \A q \in Proc : PendingShown(q)'
  BY <1>2 DEF PendingShown
<1>7. QED
  BY <1>3, <1>4, <1>5, <1>6 DEF VaultInv

\* It wires a note at a time, and leaves those it has wired.
LEMMA RebuildWiresShown ==
    ASSUME TypeInv, GraphInv, VaultInv, NEW p \in Proc, RebuildWires(p)
    PROVE  VaultInv'
<1>1. PICK n \in buf[p].left : \E ks \in Resolutions(mem[p].nodes, scan[p][n]) :
        /\ mem' = [mem EXCEPT ![p] = Wired(mem[p], n, ks)]
        /\ buf' = [buf EXCEPT ![p] = [left |-> buf[p].left \ {n}]]
  BY StateTypes DEF RebuildWires
<1>2. PICK ks \in Resolutions(mem[p].nodes, scan[p][n]) :
        /\ mem' = [mem EXCEPT ![p] = Wired(mem[p], n, ks)]
        /\ buf' = [buf EXCEPT ![p] = [left |-> buf[p].left \ {n}]]
  BY <1>1
<1>3. /\ pc[p] = "cleared" /\ UNCHANGED <<store, pc, op, scan, vault, outdated, unheard>>
      /\ mem'[p] = Wired(mem[p], n, ks) /\ buf'[p].left = buf[p].left \ {n}
      /\ \A q \in Proc \ {p} : mem'[q] = mem[q] /\ buf'[q] = buf[q]
  BY <1>2, StateTypes DEF RebuildWires
<1>4. scan[p] \in Notes /\ buf[p].left \subseteq Present(scan[p]) /\ mem[p] \in Graph
  BY <1>3, StateTypes DEF PhaseOk
<1>5. n \in Note /\ scan[p][n] \in LinkLists /\ scan[p][n] # Absent
  BY <1>4, ResolutionAssumption DEF Notes, Present
<1>6. WiredTo(mem[p], n, scan[p][n], ks, mem'[p])
  BY <1>3, <1>4, <1>5, WiredIs
<1>7. mem[p].nodes[n] = "real" /\ From(mem[p].edges, n) = {}
  BY <1>3, <1>5 DEF VaultInv, WiringInv
<1>8. /\ \A j \in Note \ {n} : From(mem'[p].edges, j) = From(mem[p].edges, j)
      /\ IsFiniteSet(From(mem'[p].edges, n)) /\ Cardinality(From(mem'[p].edges, n)) = Len(scan[p][n])
  BY <1>4, <1>5, <1>6, <1>7, WiredLinks
<1>9. RealNotes(mem'[p]) = RealNotes(mem[p]) /\ mem'[p] \in Graph
  <2>1. mem'[p] \in Graph
    BY <1>6 DEF WiredTo
  <2>2. RealNotes(mem'[p]) = RealNotes(mem[p])
    BY <1>4, <1>5, <1>6, WiredReal
  <2>3. QED
    BY <2>1, <2>2
<1>10. WiringInv(p)'
  <2>1. SUFFICES ASSUME NEW j \in Note
                 PROVE  IF j \in buf'[p].left THEN mem'[p].nodes[j] = "real" /\ From(mem'[p].edges, j) = {}
                        ELSE Holds(mem'[p], j, scan'[p][j])
    BY DEF WiringInv
  <2>2. CASE j = n
    <3>1. mem'[p].nodes[n] = "real"
      BY <1>5, <1>7, <1>9 DEF RealNotes
    <3>2. Holds(mem'[p], n, scan[p][n])
      BY <1>5, <1>8, <3>1 DEF Holds
    <3>3. QED
      BY <1>3, <2>2, <3>2
  <2>3. CASE j # n
    <3>1. IF j \in buf[p].left THEN mem[p].nodes[j] = "real" /\ From(mem[p].edges, j) = {}
          ELSE Holds(mem[p], j, scan[p][j])
      BY <1>3 DEF VaultInv, WiringInv
    <3>2. CASE j \in buf[p].left
      BY <1>3, <1>8, <1>9, <2>3, <3>1, <3>2 DEF RealNotes
    <3>3. CASE j \notin buf[p].left
      <4>1. Holds(mem'[p], j, scan[p][j])
        BY <1>4, <1>8, <1>9, <2>3, <3>1, <3>3, HoldsSame
      <4>2. QED
        BY <1>3, <3>3, <4>1
    <3>4. QED
      BY <3>2, <3>3
  <2>4. QED
    BY <2>2, <2>3
<1>11. \A q \in Proc \ {p} : WiringInv(q)'
  BY <1>3 DEF VaultInv, WiringInv
<1>12. /\ \A q \in Proc, j \in Note : Pending(q, j)' <=> Pending(q, j)
       /\ Clearing' <=> Clearing
  BY <1>3 DEF Pending, Clearing
<1>13. \A q \in Proc : PendingShown(q)'
  BY <1>3, <1>12 DEF VaultInv, PendingShown
<1>14. Clearing'
  BY <1>3 DEF Clearing
<1>15. QED
  BY <1>10, <1>11, <1>13, <1>14 DEF VaultInv

\* And makes the store what it has wired.
LEMMA RebuildWritesShown ==
    ASSUME TypeInv, GraphInv, VaultInv, Whole', NEW p \in Proc, RebuildWrites(p)
    PROVE  VaultInv'
<1> DEFINE b == Changes(NoGraph, mem[p], {}, TRUE)
<1>1. /\ pc[p] = "cleared" /\ buf[p].left = {} /\ Commits(p, b, mem[p].next)
      /\ outdated' = (outdated \/ \E n \in Note \ unheard : scan[p][n] # vault[n])
      /\ unheard' = {n \in unheard : scan[p][n] # vault[n]}
      /\ UNCHANGED <<mem, vault>>
  BY DEF RebuildWrites, CommitRefused, Whole
<1>2. /\ Whole /\ UNCHANGED op /\ pc'[p] = "persisted" /\ \A q \in Proc \ {p} : pc'[q] = pc[q]
  BY <1>1, StateTypes DEF Commits, RebuildWrites, Whole
<1>3. Alone(p) /\ store'.nodes = mem[p].nodes /\ store'.edges = mem[p].edges
  BY <1>1, <1>2, WriteMakes
<1> HIDE DEF b
<1>4. ~Clearing'
  <2>1. \A q \in Proc : pc[q] \in {"clearing", "cleared"} => Mutating(q)
    BY StateTypes DEF PhaseOk, Mutating
  <2>2. QED
    BY <1>2, <1>3, <2>1 DEF Clearing, Alone
<1>5. \A q \in Proc, j \in Note : ~Pending(q, j)'
  BY <1>2, <1>3 DEF Pending, Alone, Mutating
<1>6. ~outdated' => StoreShown'
  <2>1. SUFFICES ASSUME ~outdated', NEW j \in Note \ unheard'
                 PROVE  Holds(store', j, vault'[j])
    BY DEF StoreShown
  <2>2. Holds(mem[p], j, scan[p][j]) /\ scan[p][j] = vault[j]
    BY <1>1, <2>1 DEF VaultInv, WiringInv
  <2>3. QED
    BY <1>1, <1>3, <2>2 DEF Holds
<1>7. \A q \in Proc : PendingShown(q)' /\ WiringInv(q)'
  <2>1. \A q \in Proc : PendingShown(q)'
    BY <1>5 DEF PendingShown
  <2>2. \A q \in Proc : WiringInv(q)'
    BY <1>4 DEF WiringInv, Clearing
  <2>3. QED
    BY <2>1, <2>2
<1>8. QED
  BY <1>6, <1>7 DEF VaultInv

\* A failure is remembered, and so are torn reads.
LEMMA FaultsLast == [Next]_vars /\ Whole' => Whole
<1> SUFFICES ASSUME [Next]_vars, Whole' PROVE Whole
  OBVIOUS
<1>1. CASE UNCHANGED vars
  BY <1>1 DEF vars, Whole
<1>2. ASSUME NEW p \in Proc,
             \/ Open(p) \/ ReadNodes(p) \/ Query(p) \/ CheckLog(p) \/ ApplyRows(p) \/ RowsApplied(p)
             \/ \E n \in Note, links \in LinkLists \cup {Absent} : Mutate(p, n, links)
             \/ RecordGeneration(p) \/ CollectNotes(p) \/ RebuildWires(p)
      PROVE  Whole
  <2>1. fault' = fault /\ torn' = torn
    BY <1>2 DEF Open, ReadNodes, Query, CheckLog, ApplyRows, RowsApplied, Mutate, RecordGeneration, CollectNotes,
                RebuildWires
  <2>2. QED
    BY <2>1 DEF Whole
<1>3. ASSUME NEW p \in Proc, NEW m \in Moves, MoveDirectory(p, m) \/ RestoreDeletes(p, m)
      PROVE  Whole
  <2>1. fault' = fault /\ torn' = torn
    BY <1>3 DEF MoveDirectory, RestoreDeletes, WithDirectory
  <2>2. QED
    BY <2>1 DEF Whole
<1>4. ASSUME NEW p \in Proc, ReadNextId(p) \/ ReadEdges(p) \/ ReadGeneration(p) \/ ReadRows(p) \/ Stop(p)
      PROVE  Whole
  <2>1. (fault => fault') /\ (torn => torn')
    <3>1. CASE ReadNextId(p)
      BY <3>1, Zenon DEF ReadNextId, LoadFails
    <3>2. CASE ReadEdges(p)
      BY <3>2, Zenon DEF ReadEdges, LoadFails
    <3>3. CASE ReadGeneration(p)
      BY <3>3, Zenon DEF ReadGeneration
    <3>4. CASE ReadRows(p)
      BY <3>4, Zenon DEF ReadRows
    <3>5. CASE Stop(p)
      BY <3>5, Zenon DEF Stop
    <3>6. QED
      BY <1>4, <3>1, <3>2, <3>3, <3>4, <3>5
  <2>2. QED
    BY <2>1 DEF Whole
<1>5. ASSUME NEW p \in Proc, Act(p) \/ RebuildClears(p) \/ RebuildClearsEdges(p) \/ RebuildWrites(p)
      PROVE  Whole
  <2>1. (fault' = fault \/ fault' = TRUE) /\ torn' = torn
    BY <1>5 DEF Act, RebuildClears, RebuildClearsEdges, RebuildWrites, Commits, CommitRefused
  <2>2. QED
    BY <2>1 DEF Whole
<1>6. QED
  BY <1>1, <1>2, <1>3, <1>4, <1>5 DEF Next

\* An empty vault.
LEMMA VaultInit == Init => VaultInv
<1> SUFFICES ASSUME Init PROVE VaultInv
  OBVIOUS
<1>1. /\ store = NoGraph /\ \A n \in Note : vault[n] = Absent
      /\ \A p \in Proc : pc[p] = "closed" /\ op[p].kind = "none"
  BY DEF Init, NoOp
<1>2. \A p \in Proc : PendingShown(p) /\ WiringInv(p)
  BY <1>1 DEF PendingShown, Pending, WiringInv
<1>3. \A n \in Note : NoGraph.nodes[n] = "none" /\ From(NoGraph.edges, n) = {}
  BY DEF NoGraph, From, Key
<1>4. StoreShown
  BY <1>1, <1>3 DEF StoreShown, Holds
<1>5. QED
  BY <1>2, <1>4 DEF VaultInv

\* Nothing changes.
LEMMA VaultStutter ==
    ASSUME VaultInv, UNCHANGED vars
    PROVE  VaultInv'
<1>1. (\A p \in Proc, n \in Note : Pending(p, n)' <=> Pending(p, n)) /\ (Clearing' <=> Clearing)
  BY DEF vars, Pending, Clearing
<1>2. \A p \in Proc : PendingShown(p)' /\ WiringInv(p)'
  <2>1. \A p \in Proc : PendingShown(p)'
    BY <1>1 DEF vars, VaultInv, PendingShown
  <2>2. \A p \in Proc : WiringInv(p)'
    BY DEF vars, VaultInv, WiringInv
  <2>3. QED
    BY <2>1, <2>2
<1>3. StoreShown => StoreShown'
  BY <1>1 DEF vars, StoreShown
<1>4. QED
  BY <1>1, <1>2, <1>3 DEF vars, VaultInv

\* Every step keeps the store with the vault.
LEMMA VaultStep ==
    ASSUME Serial, TypeInv, TypeInv', GraphInv, Whole => VaultInv, [Next]_vars
    PROVE  Whole' => VaultInv'
<1> SUFFICES ASSUME Whole' PROVE VaultInv'
  OBVIOUS
<1>1. Whole /\ VaultInv
  BY FaultsLast
<1>2. CASE UNCHANGED vars
  BY <1>1, <1>2, VaultStutter
<1>3. ASSUME NEW p \in Proc,
             \/ Open(p) \/ ReadNextId(p) \/ ReadGeneration(p) \/ ReadNodes(p) \/ ReadEdges(p)
             \/ Query(p) \/ CheckLog(p) \/ ReadRows(p) \/ ApplyRows(p) \/ RowsApplied(p)
             \/ \E n \in Note, links \in LinkLists \cup {Absent} : Mutate(p, n, links)
             \/ \E m \in Moves : MoveDirectory(p, m) \/ RestoreDeletes(p, m)
             \/ Act(p) \/ RecordGeneration(p)
             \/ CollectNotes(p) \/ RebuildClears(p) \/ RebuildClearsEdges(p)
             \/ RebuildWires(p) \/ RebuildWrites(p)
             \/ Stop(p)
      PROVE  VaultInv'
  <2>1. CASE \/ Open(p) \/ ReadNextId(p) \/ ReadGeneration(p) \/ ReadNodes(p) \/ ReadEdges(p)
             \/ Query(p) \/ CheckLog(p) \/ ReadRows(p) \/ ApplyRows(p) \/ RowsApplied(p)
    BY <1>1, <2>1, ReadersStay
  <2>2. CASE RecordGeneration(p) \/ CollectNotes(p) \/ Stop(p)
    BY <1>1, <2>2, OthersStay
  <2>3. CASE \E n \in Note, links \in LinkLists \cup {Absent} : Mutate(p, n, links)
    BY <1>1, <2>3, MutateShown
  <2>4. CASE \E m \in Moves : MoveDirectory(p, m) \/ RestoreDeletes(p, m)
    BY <1>1, <2>4, DirectoryTypes, WithDirectoryShown
  <2>5. CASE Act(p)
    BY <1>1, <2>5, ActShown
  <2>6. CASE RebuildClears(p) \/ RebuildClearsEdges(p) \/ RebuildWires(p) \/ RebuildWrites(p)
    BY <1>1, <2>6, RebuildClearsShown, RebuildClearsEdgesShown, RebuildWiresShown, RebuildWritesShown
  <2>7. QED
    BY <1>3, <2>1, <2>2, <2>3, <2>4, <2>5, <2>6
<1>4. QED
  BY <1>2, <1>3 DEF Next

\* With nothing pending, every note is held.
LEMMA ShownIsHeld == TypeInv /\ (Whole => VaultInv) => StoreHoldsVaultLinks
<1> SUFFICES ASSUME TypeInv, VaultInv, ~outdated, \A p \in Proc : ~Mutating(p), NEW n \in Note \ unheard
             PROVE  IF vault[n] = Absent
                    THEN store.nodes[n] # "real" /\ From(store.edges, n) = {}
                    ELSE store.nodes[n] = "real" /\ Cardinality(From(store.edges, n)) = Len(vault[n])
  BY DEF StoreHoldsVaultLinks
<1>1. ~Clearing
  BY StateTypes DEF Clearing, PhaseOk, Mutating
<1>2. \A p \in Proc : ~Pending(p, n)
  BY DEF Pending, Mutating
<1>3. Holds(store, n, vault[n])
  BY <1>1, <1>2 DEF VaultInv, StoreShown
<1>4. QED
  BY <1>3 DEF Holds

\* With no mutation under way, and none failed or torn before, the store is the vault's
\* graph: a real node for each note, with one edge for each of its links, whoever wrote
\* them, but for the notes that changed with their directory.
THEOREM StoreIsTheVaults ==
    ASSUME Serial
    PROVE  Spec => []StoreHoldsVaultLinks
<1>1. Init => TypeInv /\ GraphInv /\ (Whole => VaultInv)
  BY TypeInit, GraphInit, VaultInit
<1>2. TypeInv /\ GraphInv /\ (Whole => VaultInv) /\ [Next]_vars
        => TypeInv' /\ GraphInv' /\ (Whole' => VaultInv')
  BY TypeStep, GraphStep, VaultStep
<1>3. TypeInv /\ GraphInv /\ (Whole => VaultInv) => StoreHoldsVaultLinks
  BY ShownIsHeld
<1>4. QED
  <2> DEFINE I == TypeInv /\ GraphInv /\ (Whole => VaultInv)
  <2>1. Init => I
    BY <1>1
  <2>2. I /\ [Next]_vars => I'
    BY <1>2
  <2>3. I => StoreHoldsVaultLinks
    BY <1>3
  <2> HIDE DEF I
  <2>4. QED
    BY <2>1, <2>2, <2>3, PTL DEF Spec
-----------------------------------------------------------------------------
(* The generations add up, unless an operation has failed.                  *)

\* The node the store holds under a path is what the last generation that speaks
\* of the path left there.
Accounted(k) ==
    \/ SpokenOf(k) = {} /\ store.nodes[k] = "none"
    \/ \E g \in SpokenOf(k) : (\A h \in SpokenOf(k) : h <= g) /\ store.nodes[k] = LeavesNode(log[g], k)

BooksInv == Whole /\ ~Clearing => \A k \in Key : Accounted(k)

\* It is the node the generations add up to.
LEMMA AccountedFor ==
    ASSUME TypeInv, NEW k \in Key, Accounted(k)
    PROVE  store.nodes[k] = AddedUp(k)
<1>1. CASE SpokenOf(k) = {}
  BY <1>1 DEF Accounted, AddedUp
<1>2. CASE SpokenOf(k) # {}
  <2>1. PICK g \in SpokenOf(k) : (\A h \in SpokenOf(k) : h <= g) /\ store.nodes[k] = LeavesNode(log[g], k)
    BY <1>2 DEF Accounted
  <2>2. \A h \in SpokenOf(k) : h \in Nat
    BY DEF SpokenOf
  <2>3. (CHOOSE i \in SpokenOf(k) : \A h \in SpokenOf(k) : h <= i) = g
    BY <2>1, <2>2
  <2>4. QED
    BY <1>2, <2>1, <2>3 DEF AddedUp
<1>3. QED
  BY <1>1, <1>2

\* A generation speaks of the paths whose nodes it leaves, and the others keep theirs;
\* a reset speaks of them all, and finds the store empty.
LEMMA CommitAccounts ==
    ASSUME TypeInv, NEW b, NEW next, Grows(b, next), NEW k \in Key,
           IF b.reset THEN store.nodes[k] = "none" ELSE Accounted(k)
    PROVE  Accounted(k)'
<1>1. /\ Gen \in Nat /\ Gen' = Gen + 1 /\ log'[Gen + 1] = b
      /\ \A i \in 1..Gen : i \in 1..Gen + 1 /\ log'[i] = log[i]
      /\ Gen + 1 \in 1..Gen + 1 /\ 1..Gen + 1 = 1..Gen \cup {Gen + 1}
  BY StateTypes DEF Grows
<1>2. store'.nodes[k] = IF k \in DOMAIN b.nodes THEN b.nodes[k]
                        ELSE IF k \in b.gone THEN "none" ELSE store.nodes[k]
  BY RowsWritten
<1>3. \A g : g \in SpokenOf(k)' <=> g \in SpokenOf(k) \/ (g = Gen + 1 /\ (b.reset \/ k \in b.gone \cup DOMAIN b.nodes))
  BY <1>1 DEF SpokenOf
<1>4. \A g \in SpokenOf(k) : g \in 1..Gen
  BY DEF SpokenOf
<1>5. CASE b.reset \/ k \in b.gone \cup DOMAIN b.nodes
  <2>1. Gen + 1 \in SpokenOf(k)'
    BY <1>3, <1>5
  <2>2. \A h \in SpokenOf(k)' : h <= Gen + 1
    BY <1>1, <1>3, <1>4
  <2>3. store'.nodes[k] = LeavesNode(b, k)
    BY <1>2, <1>5 DEF LeavesNode
  <2>4. store'.nodes[k] = LeavesNode(log'[Gen + 1], k)
    BY <1>1, <2>3
  <2>5. QED
    BY <2>1, <2>2, <2>4 DEF Accounted
<1>6. CASE ~b.reset /\ k \notin b.gone \cup DOMAIN b.nodes
  <2>1. SpokenOf(k)' = SpokenOf(k)
    BY <1>3, <1>6
  <2>2. store'.nodes[k] = store.nodes[k]
    BY <1>2, <1>6
  <2>3. CASE SpokenOf(k) = {}
    BY <1>6, <2>1, <2>2, <2>3 DEF Accounted
  <2>4. CASE SpokenOf(k) # {}
    <3>1. PICK g \in SpokenOf(k) : (\A h \in SpokenOf(k) : h <= g) /\ store.nodes[k] = LeavesNode(log[g], k)
      BY <1>6, <2>4 DEF Accounted
    <3>2. store'.nodes[k] = LeavesNode(log'[g], k)
      BY <1>1, <1>4, <2>2, <3>1
    <3>3. QED
      BY <2>1, <3>1, <3>2 DEF Accounted
  <2>5. QED
    BY <2>3, <2>4
<1>7. QED
  BY <1>5, <1>6

\* So the commit of an operation keeps the books,
LEMMA ActAccounts ==
    ASSUME TypeInv, GraphInv, BooksInv, Whole', NEW p \in Proc, Act(p)
    PROVE  BooksInv'
<1>1. PICK g \in Acted(p) : Commits(p, Changes(mem[p], g, Touched(p), FALSE), g.next)
  BY DEF Act, CommitRefused, Whole
<1> DEFINE b == Changes(mem[p], g, Touched(p), FALSE)
<1>2. pc[p] = "acting" /\ Whole
  BY <1>1 DEF Act, Commits, Whole
<1>3. Grows(b, g.next) /\ ~b.reset /\ ~Clearing
  BY <1>1, <1>2, ActMakes
<1> HIDE DEF b
<1>4. \A k \in Key : Accounted(k)'
  BY <1>2, <1>3, CommitAccounts DEF BooksInv
<1>5. QED
  BY <1>4 DEF BooksInv

\* and so does that of a rebuild.
LEMMA RebuildWritesAccounts ==
    ASSUME TypeInv, GraphInv, Whole', NEW p \in Proc, RebuildWrites(p)
    PROVE  BooksInv'
<1> DEFINE b == Changes(NoGraph, mem[p], {}, TRUE)
<1>1. pc[p] = "cleared" /\ Commits(p, b, mem[p].next) /\ Whole
  <2> HIDE DEF b
  <2>1. pc[p] = "cleared" /\ (Commits(p, b, mem[p].next) \/ CommitRefused(p))
    BY DEF RebuildWrites, b
  <2>2. ~CommitRefused(p)
    BY DEF CommitRefused, Whole
  <2>3. Commits(p, b, mem[p].next) => Whole
    BY DEF Commits, RebuildWrites, Whole
  <2>4. QED
    BY <2>1, <2>2, <2>3
<1>2. Grows(b, mem[p].next) /\ b.reset
  BY <1>1, WriteMakes
<1> HIDE DEF b
<1>3. \A k \in Key : store.nodes[k] = "none"
  BY <1>1 DEF GraphInv, StoreInv, Emptied, NoGraph
<1>4. \A k \in Key : Accounted(k)'
  BY <1>2, <1>3, CommitAccounts
<1>5. QED
  BY <1>4 DEF BooksInv

\* Every other step leaves the store and the log, or has cleared the store, or fails.
LEMMA OthersAccount ==
    ASSUME TypeInv, [Next]_vars, Whole', ~Clearing', ~\E p \in Proc : Act(p) \/ RebuildWrites(p)
    PROVE  store' = store /\ log' = log /\ ~Clearing
<1>1. CASE UNCHANGED vars
  BY <1>1 DEF vars, Clearing
<1>2. ASSUME NEW p \in Proc, RebuildClears(p) \/ RebuildClearsEdges(p)
      PROVE  FALSE
  <2>1. pc'[p] \in {"clearing", "cleared"}
    BY <1>2, StateTypes DEF RebuildClears, RebuildClearsEdges, CommitRefused, Whole
  <2>2. QED
    BY <2>1 DEF Clearing
<1>3. ASSUME NEW p \in Proc,
             \/ Open(p) \/ ReadNextId(p) \/ ReadGeneration(p) \/ ReadNodes(p) \/ ReadEdges(p)
             \/ Query(p) \/ CheckLog(p) \/ ReadRows(p) \/ ApplyRows(p) \/ RowsApplied(p)
             \/ \E n \in Note, links \in LinkLists \cup {Absent} : Mutate(p, n, links)
             \/ \E v \in Notes : WithDirectory(p, v)
             \/ RecordGeneration(p) \/ CollectNotes(p) \/ RebuildWires(p) \/ Stop(p)
      PROVE  store' = store /\ log' = log /\ ~Clearing
  <2>1. store' = store /\ log' = log
    BY <1>3 DEF Open, ReadNextId, ReadGeneration, ReadNodes, ReadEdges, Query, CheckLog, ReadRows, ApplyRows,
                RowsApplied, Mutate, WithDirectory, RecordGeneration, CollectNotes, RebuildWires, Stop
  <2>2. \A q \in Proc \ {p} : pc'[q] = pc[q]
    BY <1>3, StateTypes DEF Open, ReadNextId, ReadGeneration, ReadNodes, ReadEdges, Query, CheckLog, ReadRows,
                ApplyRows, RowsApplied, Mutate, WithDirectory, Enter, AfterCatchUp, LoadFails, RecordGeneration,
                CollectNotes, RebuildWires, Stop
  <2>3. pc[p] \in {"clearing", "cleared"} => pc'[p] = pc[p]
    <3>1. SUFFICES ASSUME pc[p] \in {"clearing", "cleared"} PROVE pc'[p] = pc[p]
      OBVIOUS
    <3>2. Mutating(p)
      BY <3>1, StateTypes DEF PhaseOk, Mutating
    <3>3. (\E v \in Notes : WithDirectory(p, v)) \/ CollectNotes(p) \/ RebuildWires(p) \/ Stop(p)
      BY <1>3, <3>1 DEF Open, ReadNextId, ReadGeneration, ReadNodes, ReadEdges, Query, CheckLog, ReadRows,
                ApplyRows, RowsApplied, Mutate, RecordGeneration
    <3>4. ~Stop(p)
      BY <3>1, <3>2 DEF Stop, Whole
    <3>5. QED
      BY <3>1, <3>3, <3>4 DEF WithDirectory, CollectNotes, RebuildWires
  <2>4. QED
    BY <2>1, <2>2, <2>3 DEF Clearing
<1>4. QED
  BY <1>1, <1>2, <1>3, DirectoryTypes DEF Next

\* Every step keeps the books.
LEMMA BooksStep ==
    ASSUME TypeInv, GraphInv, BooksInv, [Next]_vars
    PROVE  BooksInv'
<1>1. SUFFICES ASSUME Whole', ~Clearing' PROVE BooksInv'
  BY DEF BooksInv
<1>2. Whole
  BY <1>1, FaultsLast
<1>3. CASE \E p \in Proc : Act(p) \/ RebuildWrites(p)
  BY <1>1, <1>3, ActAccounts, RebuildWritesAccounts
<1>4. CASE ~\E p \in Proc : Act(p) \/ RebuildWrites(p)
  <2>1. store' = store /\ log' = log /\ ~Clearing
    BY <1>1, <1>4, OthersAccount
  <2>2. \A k \in Key : Accounted(k)
    BY <1>2, <2>1 DEF BooksInv
  <2>3. \A k \in Key : Accounted(k)'
    BY <2>1, <2>2 DEF Accounted, SpokenOf, Gen
  <2>4. QED
    BY <2>3 DEF BooksInv
<1>5. QED
  BY <1>3, <1>4

\* A process that has seen the last generation has the nodes that the generations
\* add up to, as long as no mutation has failed, no process has stopped in one, and no
\* reads were torn by a sibling's commit.
THEOREM SeenIsAppliedUnlessFailed ==
    ASSUME Serial
    PROVE  Spec => [](Whole => SeenIsApplied)
<1> DEFINE I == TypeInv /\ GraphInv
<1>1. Spec => []I
  BY GraphInvariant
<1>2. Init => BooksInv
  <2> SUFFICES ASSUME Init, NEW k \in Key PROVE Accounted(k)
    BY DEF BooksInv
  <2>1. store = NoGraph /\ Gen = 0
    BY DEF Init, Gen
  <2>2. store.nodes[k] = "none" /\ SpokenOf(k) = {}
    BY <2>1 DEF NoGraph, SpokenOf
  <2>3. QED
    BY <2>2 DEF Accounted
<1>3. I /\ BooksInv /\ [Next]_vars => BooksInv'
  BY BooksStep
<1>4. I /\ BooksInv => (Whole => SeenIsApplied)
  <2> SUFFICES ASSUME I, BooksInv, Whole, ~Clearing, NEW p \in Proc, pc[p] = "idle", seen[p] = Gen, NEW k \in Key
               PROVE  mem[p].nodes[k] = AddedUp(k)
    BY DEF SeenIsApplied
  <2>1. GraphFollows(mem[p], seen[p])
    BY DEF GraphInv, MemoryInv
  <2>2. store \in Graph /\ mem[p] \in Graph /\ Gen \in Nat /\ seen[p] \in Nat
    BY StateTypes
  <2>3. mem[p].nodes = store.nodes
    BY <2>1, <2>2, UpToDate
  <2>4. Accounted(k)
    BY DEF BooksInv
  <2>5. QED
    BY <2>3, <2>4, AccountedFor
<1> HIDE DEF I
<1>5. QED
  BY <1>1, <1>2, <1>3, <1>4, PTL DEF Spec
=============================================================================

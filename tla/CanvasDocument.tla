--------------------------- MODULE CanvasDocument ---------------------------
(***************************************************************************)
(* The JSON canvas (contextos-obsidian, canvas.rs): its schema, the         *)
(* operations canvas_apply carries out as one, generated identifiers and    *)
(* the geometry of groups and of nodes without a place.                     *)
(*                                                                         *)
(* A node or an edge is a function of its fields: "id", the numbers of a    *)
(* node and the ends of an edge, and "rest", whether all else about it is   *)
(* as the schema asks.  An identifier is a tuple, which for a generated one *)
(* holds all that goes into its hash.                                       *)
(***************************************************************************)
EXTENDS Integers, Sequences, FiniteSets, SequencesExt, TLC

CONSTANTS MaxInt,  \* the greatest integer of the width, i64::MAX
          Padding, \* GROUP_PADDING
          Spacing  \* NODE_SPACING

Saturated(n) == IF n > MaxInt THEN MaxInt ELSE IF n < -MaxInt - 1 THEN -MaxInt - 1 ELSE n

Least(s) == CHOOSE n \in s : \A m \in s : n <= m
Greatest(s) == CHOOSE n \in s : \A m \in s : n >= m

Field(value, name) == IF name \in DOMAIN value THEN value[name] ELSE << >>
Id(value) == Field(value, "id")
Ids(values) == {Id(v) : v \in ToSet(values)}
IndexOf(values, id) == CHOOSE i \in DOMAIN values : Id(values[i]) = id /\ \A j \in 1..i - 1 : Id(values[j]) # id

-----------------------------------------------------------------------------
(* The schema.                                                              *)

NodeOk(node) ==
    /\ {"id", "x", "y", "width", "height"} \subseteq DOMAIN node /\ node["id"] # << >>
    /\ node["width"] > 0 /\ node["height"] > 0 /\ node["rest"] = "good"

EdgeOk(edge) ==
    /\ {"id", "from", "to"} \subseteq DOMAIN edge /\ << >> \notin {edge["id"], edge["from"], edge["to"]}
    /\ edge["rest"] = "good"

Unique(doc) == LET all == doc.nodes \o doc.edges
               IN  \A i, j \in DOMAIN all : i # j => Id(all[i]) # Id(all[j])

\* diagnostics: none.
Valid(doc) ==
    /\ \A n \in ToSet(doc.nodes) : NodeOk(n)
    /\ \A e \in ToSet(doc.edges) : EdgeOk(e) /\ {e["from"], e["to"]} \subseteq Ids(doc.nodes)
    /\ Unique(doc)

-----------------------------------------------------------------------------
(* The operations.  An outcome is a document and whether it went well.      *)

Failed == [ok |-> FALSE, doc |-> [nodes |-> << >>, edges |-> << >>]]
Done(doc) == [ok |-> TRUE, doc |-> doc]

\* ensure_generated_id: the first nonce that is not taken.
WithId(doc, value, namespace, ordinal) ==
    LET taken == Ids(doc.nodes) \cup Ids(doc.edges)
        made(n) == <<namespace, ordinal, n, value>>
        nonce == CHOOSE n \in 0..Cardinality(taken) : made(n) \notin taken /\ \A k \in 0..n - 1 : made(k) \in taken
    IN  IF "id" \in DOMAIN value THEN value ELSE value @@ ("id" :> made(nonce))

\* NodeBounds, of the nodes that have them.
Bounded(node) == {"x", "y", "width", "height"} \subseteq DOMAIN node
Right(node) == Saturated(node["x"] + node["width"])
Bottom(node) == Saturated(node["y"] + node["height"])

\* A node without a place goes to the right of all others.
Placed(doc, node) ==
    LET ends == {Right(n) : n \in {n \in ToSet(doc.nodes) : Bounded(n)}}
    IN  node @@ ("x" :> IF ends = {} THEN 0 ELSE Saturated(Greatest(ends) + Spacing)) @@ ("y" :> 0)

\* merge_patch, one level deep: the fields to set and those to remove.
Merged(value, patch) == [f \in (DOMAIN patch.set \cup DOMAIN value) \ patch.unset |->
                            IF f \in DOMAIN patch.set THEN patch.set[f] ELSE value[f]]

Updated(values, id, patch) ==
    LET i == IndexOf(values, id)
    IN  [values EXCEPT ![i] = ("id" :> id) @@ Merged(@, patch)]

\* Mutant: only the edges that end at a node go with it.
MutDetached(edges, id) == SelectSeq(edges, LAMBDA e : Field(e, "to") # id)
Detached(edges, id) == SelectSeq(edges, LAMBDA e : id \notin {Field(e, "from"), Field(e, "to")})

\* group: around its members, before the first of them.
Grouped(doc, op, ordinal) ==
    LET at == {IndexOf(doc.nodes, m) : m \in ToSet(op.members)}
        nodes == {doc.nodes[i] : i \in at}
        left == Least({n["x"] : n \in nodes})
        top == Least({n["y"] : n \in nodes})
        size(from, to) == Saturated(Saturated(to - from) + 2 * Padding)
        group == ("x" :> Saturated(left - Padding)) @@ ("y" :> Saturated(top - Padding))
                 @@ ("width" :> size(left, Greatest({Right(n) : n \in nodes})))
                 @@ ("height" :> size(top, Greatest({Bottom(n) : n \in nodes}))) @@ op.value
    IN  [doc EXCEPT !.nodes = InsertAt(@, Least(at), WithId(doc, group, "group", ordinal))]

\* Whether the parts an operation names are there.
May(doc, op) ==
    CASE op.do \in {"update node", "remove node"} -> op.id \in Ids(doc.nodes)
      [] op.do \in {"update edge", "remove edge"} -> op.id \in Ids(doc.edges)
      [] op.do = "group" ->
            /\ op.members # << >> /\ IsInjective(op.members) /\ ToSet(op.members) \subseteq Ids(doc.nodes)
            /\ \A m \in ToSet(op.members) : Bounded(doc.nodes[IndexOf(doc.nodes, m)])
      [] OTHER -> TRUE

\* apply_operation.
Operated(doc, op, ordinal) ==
    CASE op.do = "add node" -> [doc EXCEPT !.nodes = Append(@, WithId(doc, Placed(doc, op.value), "node", ordinal))]
      [] op.do = "add edge" -> [doc EXCEPT !.edges = Append(@, WithId(doc, op.value, "edge", ordinal))]
      [] op.do = "update node" -> [doc EXCEPT !.nodes = Updated(@, op.id, op.patch)]
      [] op.do = "update edge" -> [doc EXCEPT !.edges = Updated(@, op.id, op.patch)]
      [] op.do = "remove node" -> [doc EXCEPT !.nodes = RemoveAt(@, IndexOf(@, op.id)), !.edges = Detached(@, op.id)]
      [] op.do = "remove edge" -> [doc EXCEPT !.edges = RemoveAt(@, IndexOf(@, op.id))]
      [] op.do = "group" -> Grouped(doc, op, ordinal)

\* apply: all operations on a copy, which is checked at the end.
Apply(doc, ops) ==
    LET step(o, i) == IF o.ok /\ May(o.doc, ops[i]) THEN Done(Operated(o.doc, ops[i], i)) ELSE Failed
        last == FoldLeft(step, Done(doc), [i \in DOMAIN ops |-> i])
    IN  IF last.ok /\ Valid(last.doc) THEN last ELSE Failed

\* CanvasDocument::try_from, from canvas_create: nodes, then edges, with identifiers.
Created(nodes, edges) ==
    LET start == [nodes |-> << >>, edges |-> << >>]
        some == FoldLeft(LAMBDA d, i : [d EXCEPT !.nodes = Append(@, WithId(d, nodes[i], "node", i))],
                         start, [i \in DOMAIN nodes |-> i])
        all == FoldLeft(LAMBDA d, i : [d EXCEPT !.edges = Append(@, WithId(d, edges[i], "edge", i))],
                        some, [i \in DOMAIN edges |-> i])
    IN  IF Valid(all) THEN Done(all) ELSE Failed

\* canvas_apply: the file as the call leaves it, against the hash the caller gives or the one just read.
CanvasApply(file, ops, expected) ==
    LET outcome == Apply(file, ops)
    IN  IF outcome.ok /\ (expected = << >> \/ expected[1] = file) THEN outcome.doc ELSE file

-----------------------------------------------------------------------------

Named(ops) == {o.id : o \in {o \in ToSet(ops) : o.do \notin {"add node", "add edge", "group"}}}

Disjoint(n, m) == Right(n) <= m["x"] \/ Right(m) <= n["x"] \/ Bottom(n) <= m["y"] \/ Bottom(m) <= n["y"]
LiesIn(n, m) == m["x"] <= n["x"] /\ Right(n) <= Right(m) /\ m["y"] <= n["y"] /\ Bottom(n) <= Bottom(m)

\* A list of operations on a valid canvas keeps, in their order, the nodes it does
\* not name and the edges between nodes it does not remove; a node that is there can
\* be removed, whatever is tied to it; a new node lies over no other, and a group
\* around its members, up to the last integers (canvas.rs, apply).
CanvasKept(doc, ops) ==
    LET after == Apply(doc, ops)
        gone == {o.id : o \in {o \in ToSet(ops) : o.do = "remove node"}}
        keeps(values, new) ==
            LET kept == SelectSeq(values, LAMBDA v : Id(v) \notin Named(ops)
                                    /\ ("from" \in DOMAIN v => {v["from"], v["to"]} \cap gone = {}))
            IN  SelectSeq(new, LAMBDA v : Id(v) \in Ids(kept)) = kept
    IN  Valid(doc) =>
        /\ after.ok => keeps(doc.nodes, after.doc.nodes) /\ keeps(doc.edges, after.doc.edges)
        /\ Len(ops) = 1 /\ ops[1].do = "remove node" /\ May(doc, ops[1]) => after.ok
        /\ Len(ops) = 1 /\ after.ok /\ ops[1].do = "add node" =>
               LET new == Last(after.doc.nodes)
               IN  "x" \in DOMAIN ops[1].value \/ new["x"] = MaxInt \/ \A n \in ToSet(doc.nodes) : Disjoint(new, n)
        /\ Len(ops) = 1 /\ after.ok /\ ops[1].do = "group" =>
               LET group == CHOOSE n \in ToSet(after.doc.nodes) : n \notin ToSet(doc.nodes)
               IN  MaxInt \in {group["width"], group["height"]}
                   \/ \A n \in ToSet(doc.nodes) : Id(n) \in ToSet(ops[1].members) => LiesIn(n, group)

=============================================================================

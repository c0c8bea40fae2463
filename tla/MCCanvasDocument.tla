------------------------- MODULE MCCanvasDocument -------------------------
(***************************************************************************)
(* CanvasDocument with integers of a small width: canvases of up to three   *)
(* nodes and two edges, and up to two operations.                           *)
(***************************************************************************)
EXTENDS Integers, Sequences, TLC

INSTANCE CanvasDocument WITH MaxInt <- 50, Padding <- 4, Spacing <- 6

A == <<"a">>
B == <<"b">>
N == <<"n">>
E == <<"e">>

Fields(x, y, width) == ("x" :> x) @@ ("y" :> y) @@ ("width" :> width) @@ ("height" :> 10) @@ ("rest" :> "good")
Node(id, x, y, width) == Fields(x, y, width) @@ ("id" :> id)
Edge(id, from, to) == ("id" :> id) @@ ("from" :> from) @@ ("to" :> to) @@ ("rest" :> "good")
Doc(nodes, edges) == [nodes |-> nodes, edges |-> edges]

NodeLists == {<< >>} \cup {<<Node(A, x, 0, 10)>> : x \in {-51, 0, 45}}
    \cup {<<Node(A, x, 0, 10), Node(i, -x, y, 20)>> : x \in {-45, 0, 45}, y \in {0, 30}, i \in {A, B}}
    \cup {<<Node(A, 0, 0, 10), Node(B, 20, 0, 10), Node(N, 40, 5, 0)>>}
EdgeLists == {<< >>, <<Edge(E, A, B)>>, <<Edge(E, A, A), Edge(<<"f">>, B, A)>>}
Canvases == {Doc(n, e) : n \in NodeLists, e \in EdgeLists}

Fresh == ("width" :> 10) @@ ("height" :> 10) @@ ("rest" :> "good")
Patch(set, unset) == [set |-> set, unset |-> unset]
Ops ==
    {[do |-> "add node", value |-> v] : v \in {Fresh, Fresh @@ ("id" :> A), Fresh @@ ("id" :> N), Fields(0, 0, 10)}}
    \cup {[do |-> "add edge", value |-> ("from" :> A) @@ ("to" :> t) @@ ("rest" :> "good")] : t \in {A, B, N}}
    \cup {[do |-> "remove node", id |-> i] : i \in {A, B}}
    \cup {[do |-> "remove edge", id |-> E]}
    \cup {[do |-> "update node", id |-> A, patch |-> p] : p \in {Patch("x" :> 7, {}), Patch(<< >>, {"y"}), Patch("rest" :> "bad", {})}}
    \cup {[do |-> "update edge", id |-> E, patch |-> p] : p \in {Patch("to" :> A, {}), Patch(<< >>, {"from"})}}
    \cup {[do |-> "group", value |-> "rest" :> "good", members |-> m] : m \in {<< >>, <<A>>, <<B, A>>, <<A, A>>}}

OpLists == {<<o>> : o \in Ops} \cup {<<o, p>> : o, p \in Ops}

\* A file a call finds, and the result of another.
Sources == Canvases \cup {Created(<<Fresh @@ ("x" :> 0) @@ ("y" :> 0), Fields(20, 0, 10)>>, << >>).doc,
                          CanvasApply(Doc(<<Node(A, 0, 0, 10)>>, << >>), <<[do |-> "add node", value |-> Fresh]>>, << >>)}

=============================================================================

---------------------------- MODULE MCBaseQuery ----------------------------
(***************************************************************************)
(* BaseQuery over two vaults.  The one that is queried has two notes in one *)
(* folder, one of them with broken front matter, one below, one in a folder *)
(* whose name starts alike, one unreadable, one in the root and one hidden; *)
(* the other has one that has no name for a tool.                           *)
(***************************************************************************)
EXTENDS Integers, Sequences

Value(rank, n) == [rank |-> rank, n |-> n]
NoteAt(at, name, state, flag, p, q) ==
    [at |-> at, name |-> name, state |-> state, flag |-> flag, p |-> p, q |-> q]

\* p has equal values, and values of several types.
TheNotes ==
    << NoteAt(<<"v", ".git">>, "h", "ok", TRUE, Value(3, 1), Value(4, 2)),
       NoteAt(<<"v", "a">>, "x", "ok", FALSE, Value(3, 1), Value(4, 2)),
       NoteAt(<<"w", "a">>, "x", "ok", TRUE, Value(3, 2), Value(4, 1)),
       NoteAt(<<"v", "a">>, "y", "broken", TRUE, Value(3, 1), Value(4, 2)),
       NoteAt(<<"v", "a", "b">>, "u", "ok", TRUE, Value(3, 1), Value(5, 1)),
       NoteAt(<<"v", "ab">>, "v", "ok", TRUE, Value(3, 1), Value(5, 2)),
       NoteAt(<<"w", "b">>, "n:1", "unnamed", TRUE, Value(3, 1), Value(4, 2)),
       NoteAt(<<"v", "c">>, "w", "unreadable", TRUE, Value(1, 0), Value(1, 0)),
       NoteAt(<<"v">>, "r", "ok", TRUE, Value(4, 0), Value(4, 1)) >>

TheDirectories == {TheNotes[i].at : i \in DOMAIN TheNotes} \cup {<<"w">>}

INSTANCE BaseQuery WITH Notes <- TheNotes, Home <- <<"v">>, Vaults <- {<<"v">>, <<"w">>},
                        Directories <- TheDirectories, Hidden <- {".git"}, MaxCandidates <- 6

\* The same with fewer candidates, so that most scans are cut.
Few == INSTANCE BaseQuery WITH Notes <- TheNotes, Home <- <<"v">>, Vaults <- {<<"v">>, <<"w">>},
                               Directories <- TheDirectories, Hidden <- {".git"}, MaxCandidates <- 3

Operators == {Op(o) : o \in {"&&", "||", "!", "(", ")"}}
Anchors == {Leaf("folder", <<"a">>), Leaf("path", <<"a", "x">>), Leaf("flag", << >>), Leaf("error", << >>)}
Leaves == Anchors \cup {Leaf("in_folder", <<"a">>), Leaf("folder_not", <<"a">>), Leaf("folder_part", <<"b">>),
                        Leaf("path", <<"a", "y">>), Leaf("in_folder", << >>)}

\* Hints that are not plain: with a dot, a slash too many, a path from the root of the disk
\* or what is hidden; and some that lead to no directory.
Odd == {Leaf("folder", <<".", "a">>), Leaf("in_folder", <<"a", "">>), Leaf("path", <<"a", "", "x">>),
        Leaf("folder", <<"", "v", "a">>), Leaf("in_folder", <<"", "w", "a">>), Leaf("in_folder", <<"", "w">>),
        Leaf("folder", <<".">>), Leaf("in_folder", <<".git">>), Leaf("path", <<"a", "">>),
        Leaf("folder", <<"a", "x">>), Leaf("folder", <<"..", "v">>), Leaf("in_folder", <<"", "z">>)}

\* Every expression of up to four tokens, and trees of one leaf or its negation.
Expr(toks) == [op |-> "expr", toks |-> toks]
Expressions(n) == {Expr(toks) : toks \in [1..n -> Anchors \cup Operators]}
Twigs == {Expr(<<t>>) : t \in Leaves} \cup {Expr(<<Op("!"), t>>) : t \in Leaves}
Branches == {[op |-> o, kids |-> <<x>>] : o \in {"and", "or", "not"}, x \in Twigs}
Forks == {[op |-> o, kids |-> k] : o \in {"and", "or", "not"}, k \in {<< >>} \cup {<<x, y>> : x, y \in Twigs}}
Nested == {[op |-> o, kids |-> <<x, y>>] : o \in {"and", "or"}, x \in Twigs, y \in Branches}
OddForks == {[op |-> o, kids |-> IF first THEN <<Expr(<<d>>), x>> ELSE <<x, Expr(<<d>>)>>] :
                o \in {"and", "or"}, first \in BOOLEAN, d \in Odd, x \in Twigs \cup {Expr(<<e>>) : e \in Odd}}

Key(property, descending) == [property |-> property, descending |-> descending]
Keys == {Key(p, d) : p \in {"p", "q"}, d \in BOOLEAN} \cup {Key("unknown", FALSE)}
Sorts == {<< >>} \cup {<<k>> : k \in Keys} \cup {<<k, l>> : k, l \in Keys}
Columns == {<<"p", "formula.p">>, <<"formula.link", "formula.other">>, <<"unknown">>}

Definition(filter, sort, limit, columns) == [filter |-> filter, sort |-> sort, limit |-> limit, columns |-> columns]

Simple == {[op |-> "none"]} \cup {Expr(<<Leaf("in_folder", d)>>) : d \in {<<"a">>, <<"a", "">>}}

Filtered(filters) == {Definition(f, << >>, 0, <<"p">>) : f \in filters}
Sorted == {Definition(f, s, n, c) : f \in Simple, s \in Sorts, n \in 0..2, c \in Columns}

DefinitionSets ==
    [n \in 1..4 |-> Filtered(Expressions(n))]
    \o <<Sorted, Filtered(Branches), Filtered(Forks), Filtered(Nested), Filtered(OddForks)>>

IsExact(def) == Exact(def) /\ (def.filter \in Simple => Few!Exact(def))

=============================================================================
